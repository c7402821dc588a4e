# A TLA+ verification of pku-minic

`pku-minic` compiles SysY, a subset of C, to the Koopa intermediate
representation and to RISC-V assembly.  This directory holds TLA+ modules that
model the compiler, TLC configurations that check them on small instances, and
proofs that TLAPS checks.  Paths below are relative to the repository's crate,
`src/src/`.

The compiler is one sequential process.  What is hard about it is not
concurrency but state that outlives calls: a stack of symbol tables, a
data-flow graph, counters, a register map and stack frames live in thread
locals, every recursive handler reads and writes them, and two passes share
them.  A handler reads a table, recurses into an expression that may do
anything, and then acts on what it read.  The models make each such part of a
handler a step of its own, and the program that is compiled is arbitrary: TLC
enumerates the programs while it compiles them.

## 1. Inventory

| component | source | state | operations | what makes it correct |
|---|---|---|---|---|
| grammar, lexer | `sysy.lalrpop` | none | text to tokens to syntax tree | literals and expressions mean what they mean in C; nothing that is written is lost, repeated or moved |
| front end | `ast/*.rs` | the locals of running handlers | `parse`, `parse_var_exp`, `parse_const_exp` of each node | the code means what the source means; programs are rejected for their own faults and no others; no internal panic |
| context stack | `config/config.rs` | `CONTEXT_STACK`: a context per scope, each with a table of constants and one of variables | enter, exit, insert, look up, mark initialized | one context per open block; no name twice in a scope; innermost declaration wins |
| Koopa data | `koopa_ir/*.rs` | graph, instruction list, `PTR_ID_ALLOCATOR` | `insert_instruction`, `alloc` | SSA form, users the inverse of operands, memory allocated and stored before it is loaded |
| Koopa printing | `Display` in `koopa_ir.rs` | pushes and pops `CONTEXT_STACK` | `fmt` | total; the text is in SSA form and means what the program means |
| back end | `asm/asm.rs` | `Asm.blocks` | `Asm::from`, `AsmBlock::from`, `AsmInst::from`, `process_op` | each instruction's slot holds its value; results in `a0`; total |
| register allocator | `asm/config.rs` | `RVREG_ALLOCATOR.map` | take the lowest free temporary, free | nothing stays taken between two instructions |
| stack frames | `asm/config.rs` | `STK_FRM_MANAGER.frames` | prologue, epilogue, allocate, look up a slot | slots apart, aligned, inside the frame; sp restored |
| assembly printing | `Display` in `asm.rs` | none | `fmt` | every line is one the assembler takes: operands present and in order, immediates in range |
| driver | `main.rs` | input, flags, output file | read, parse, generate, print, create, write | a rejected program leaves the output alone; success means a whole file |
| utilities, scripts | `util/`, `debug.sh`, `build.rs` | none | no caller in the compiler | not modelled |

The components interact by calls and by the shared thread locals.  `main`
parses the text, runs the front end over the tree, with `-riscv` the back end
over the functions, then formats the Koopa program and the assembly, and writes
the output file once or twice.  The front end drives the context stack and,
through `insert_instruction`, the Koopa data of the function of the innermost
context.  The back end enters the same stack again to reach a function's graph,
and asks the register allocator and the frame manager for each operand.
Formatting is not read-only either: the `Display` of a function and of its block
push the context in which the instructions are found, and pop it.

What is hard to test in this code is listed, with its line and the property
that watches it, under `hazards` in `PROJECT.json`.

## 2. Modules

    Lexer          the rules of the lexer, text to tokens         EXTENDS I32
    Grammar        the productions, tokens to derivations         EXTENDS Lexer
    Syntax         texts, typed piece by piece, and C's reading   EXTENDS Grammar
    I32            w-bit two's complement arithmetic (Rust's and RISC-V's)
    KoopaIR        opcodes, IR objects, operands, instructions, functions
    ContextStack   the stack of symbol tables, as operators       EXTENDS KoopaIR
    KoopaBuilder   abstract: a program is a list of functions, each a list of
                   legal instructions                              EXTENDS KoopaIR
    IRGen          the front end, a state machine                 EXTENDS I32, ContextStack
                   refines KoopaBuilder
    KoopaExec      what Koopa instructions compute                EXTENDS I32, KoopaIR
    SysY           what a source program means and which are legal EXTENDS KoopaExec
    IRGenSim       IRGen beside SysY and KoopaExec                EXTENDS IRGen, SysY
    RegAlloc       the register map, as operators
    StackFrames    the frames, as operators                       EXTENDS KoopaIR
    AsmGen         the back end, actions                          EXTENDS ContextStack, RegAlloc, StackFrames
    RvExec         a RISC-V core                                  EXTENDS KoopaExec, RegAlloc
    KoopaPrinter   the Koopa text, actions                        EXTENDS ContextStack
    KoopaReader    what the Koopa text alone says                 EXTENDS KoopaExec
    Compiler       IRGenSim, then AsmGen, then KoopaPrinter,      EXTENDS IRGenSim, RvExec, KoopaReader
                   beside the machines                            INSTANCE AsmGen, KoopaPrinter
    Driver         main, the output file and its failures
    MC*            instances for TLC
    SyntaxProofs                  comments, literals, expressions EXTENDS Syntax
    ProgramProofs                 programs                       EXTENDS SyntaxProofs
    IRGenProofs                   the front end's tables, its code EXTENDS IRGen
    SimProofs                     what that code means           EXTENDS IRGenSim, IRGenProofs
    CompilerProofs                back end and printing          EXTENDS Compiler, SimProofs
    MachineProofs                 the assembly, executed         EXTENDS CompilerProofs
    MeaningProofs                 both texts against the source  EXTENDS MachineProofs
    DriverProofs                  the output file                EXTENDS Driver

### Lexer, Grammar, Syntax: the text

`Lex` takes the longest match of any rule at each place, drops white space and
comments, and yields a token that no production takes where nothing matches or
where `from_str_radix(..).unwrap()` panics.  `Derivations` gives the derivations
of a token sequence by the productions, and `Expressions`, which it uses, those of
each part of it by a nonterminal of expressions; lalrpop's LR(1) parser accepts
what has one.  A derivation is written as the sequence of
visits that the handlers make of its tree, named after the actions of `IRGen`,
so that what the grammar hands over is in the terms in which the front end is
modelled.  A text has no behaviour: `Syntax` types one, piece by piece, from a
sample, and every state is a text to judge.  The reference definitions do not
use the rules: `WithoutComments` blanks the comments of C, `Writes` says which
texts write a number, `CReading` splits an expression at its weakest operator
(the rightmost of them, outside parentheses),
`Spelling` writes a program from its visits.  A keyword is one character, which
no identifier contains, and a few letters stand for all.

### IRGen: the front end

A program is compiled by a recursive descent, and a handler that has called
another waits.  What it will need when it goes on is kept in two variables:
`stmt` holds the locals of the declaration or statement whose expression is
being parsed (the name; the pointer that `VarDef` allocated or that the
assignment looked up), and `vals` the results of sub-expressions that their
callers have not used (`left`, `right`).  A step is what runs between two
calls:

| action | code |
|---|---|
| `BeginFunc`, `EndFunc` | `FuncDef::parse` before and after the items of its block, with `Rc::get_mut` and both `exit_scope` calls |
| `BeginBlock`, `EndBlock` | `Stmt::Block` and `Block::parse` |
| `BeginConstDef`, `EndConstDef` | `ConstDef::parse` (the checks); the entry made by `ConstDecl::parse` |
| `BeginVarDef`, `EndVarDef`, `VarDefOnly` | `VarDef::parse`: the checks and ALLOC; STORE, and the entry made by `VarDecl::parse`; a definition without a value is one step |
| `BeginAssign`, `EndAssign` | `Stmt::RegularStmt` before and after its expression |
| `BeginExpStmt`, `EndReturn`, `EndRawExp` | `Stmt::ReturnStmt`, `Stmt::RawExp` |
| `Number`, `LValVar`, `LValConst`, `UnaryVar`, `UnaryConst`, `...ExpVar`, `...ExpConst` | the `parse_var_exp` and `parse_const_exp` methods of each expression |
| `Finish` | the end of `CompUnit::parse` |

Any order of leaves and operators that leaves one value is the post-order of
some expression of the grammar, because parentheses make an expression a leaf;
that the grammar orders the operators as C does is `ExpressionsAsInC`.  A
`panic!` ends the compiler, and `status` keeps the reason: one of the nine
faults a program can be accused of, or `internal` for those it should not be
able to provoke.  `items` and `nodes` count what has been read, and only the
guards that bound them read them.

The integer width is the constant `MaxInt`; the build is the constant
`OverflowChecks`.  Function names and types, and the format of literals, are
left out because no handler reads them.

The scope of a declaration begins after its initial value here, because the
table entry is made after it; C begins it before.  `SysY` follows the code.

### KoopaBuilder: what the front end promises

Without graphs, tables or ids from counters: only the last function grows, by
one instruction that is legal where it stands (operands are constants or
earlier results; a pointer is allocated once in the program; LOAD follows a
STORE to its pointer).  `IRGen` implements it under the mapping that reads each
function in the order of its `inst_list`; the run `MCIRGen` checks this, and
`IRGenProofs` proves it.

### IRGenSim: code against meaning

`src` interprets the source as it is read, by lexical scoping, and judges the
first fault; `machine` executes each instruction as it is emitted.  Both are
history variables.  There are no branches in the language, so a program is
executed once and the comparison is exact: `CodeMeansSource` relates every
value the handlers hold, every variable of every scope (also those shadowed)
and the returned value.

### AsmGen, KoopaPrinter, Compiler: both texts

An action is the lowering of one Koopa instruction, with all its calls, in
their order.  `Compiler` runs the back end on what the front end left and
executes both the Koopa instruction and the RISC-V instructions made from it,
so that `SlotsHoldValues` can say: after every instruction the frame holds the
values the Koopa machine has.  The core starts with a value outside the
integers in each register, so a register that was never written is recognised
in `a0`, and with the caller's sp as address 0.  `AsmGen` also says how an
instruction is printed (`AsmLine`), and the core executes the printed lines: a
mnemonic, and words in the order in which they stand in the text.

Printing begins when the back end has ended, or, for `-koopa`, without it.  It
prints a function per step: enters its context and its block's, finds each
instruction of the block's list in the graph of the innermost context, and
leaves both.  `KoopaReader` reads the lines with nothing else to go by, so that
a name that is printed otherwise where it is defined than where it is used
shows as a wrong value.

### Driver: the output file

One invocation after another, with any flags, on the same output file.  Each
step that touches a file may fail, the process may be killed between any two,
a write may be partial.  Panics are those of the parser, of the front end
(`Rejected`) and of `println!` on a closed stdout.  That `Asm::from` and the
`Display` of an instruction do not panic is what `BackEndTotal` and
`AsmWellFormed` say of the other models.

## 3. Runs

All bounds are constants: `MaxItems` (declarations and statements), `MaxNodes`
(leaves and unary operators in expressions), `MaxDepth` (nested blocks),
`MaxFuncs`; `Samples` for the texts.  Names are symmetric where a run has two.
Deadlock is not checked for the compiler, which stops when it is done, nor for
texts, which end; it is for `MCDriver`.

| run | instance | what it shows |
|---|---|---|
| `MCIRGen` | 2 names, 5 items, 3 nodes, blocks 3 deep, 2 functions, one or two operators of each handler; 1,121,501 states | the tables: `TypeOK`, `ScopesBalanced`, `OneDeclarationPerScope`, `SuspendedCanResume`, `NoInternalPanic`; the code: `SSA`, `MemoryDiscipline`, `AppendOnly` and the refinement of `KoopaBuilder`; the meaning, under all shadowings: `CodeMeansSource`, `RejectionsJustified`, `FaultsRejected` |
| `MCWrap` | 2-bit numbers, 5 nodes, release build, the operators that wrap or divide, `<=` and `>=`; 824,430 states | the meaning where arithmetic wraps |
| `MCCompiler` | 2 names, 4 items, 2 functions, immediates of at most 31; 749,305 states | the back end: `NoRegisterLeak`, `BackEndTotal`, `FrameLayout`, `PassesShareContext`, `SlotsHoldValues`, `CallingConvention`, `ReturnsSourceExceptZero`, `ReturnsWhenSourceDoes`; the texts: `AsmWellFormed`, `ImmediatesFit`, `TextIsSSA`, `TextMeansSource` |
| `MCLowering` | 14 operators on 3-bit numbers, one function; 966,692 states | that each lowering computes what the opcode means, and the evaluator of constants what the operator means |
| `MCSyntax` | five samples of texts; 166,805 states | `CommentsOnOneLine`, `LiteralsAsInC`, `ExpressionsAsInC`, `ProgramsReadBack` |
| `MCDriver` | one text of each kind; 2,495 states | `PanicKeepsOutput`, `SuccessMeansTarget`, `Terminates` |
| `MCAssignConst`, `MCConstShadow`, `MCBitwise`, `MCReturnZero`, `MCRelational`, `MCComments` | the smallest instance each | expected violations: section 4 |

Why the bounds are enough.  A wrong lookup needs a name declared in two
scopes, as a constant in one and a variable in another, and a use: four items
and two nodes.  Three scopes tell innermost, outermost and current apart.  A
second function tells whether anything is left over from the first.  Three
bits hold a product that overflows, a quotient that does, and operands on which
every pair of comparisons differs; in two bits every value is a boundary.  The
register map is as large as the real one, and what a lowering takes it must
give back before the next, so a leak shows with the first instruction.

`ImmediatesFit` is about frames of 2048 bytes and more, which no small program
has.  What matters is where the frame passes the largest immediate, so the
immediate is a constant of the instance and `MaxImm = 31` puts the border
between programs of four values and of five, both of which the run has.

The samples of texts are: eight characters out of `/`, `*`, a line break and a
letter, which hold two comments and what is between them; five characters of
literals, which hold every base, its prefix and a digit it has not, with 127
as the largest integer; every pair of operators with a sign or a parenthesis at
each place; three operators, one of each level, with parentheses; and four
pieces of declarations and statements in one function or two, most of them not
programs.

Every property of a passing run has a mutant in `PROJECT.json`: a definition
changed the way the code could be broken, under which TLC finds the property
violated.  The changed definitions are the ones marked "Slip".

Fairness.  The front and back end are sequential and always run to an end that
the size of the program bounds; no liveness is stated about them.  `Driver`
has `WF_vars(Main)`: a process that was started is scheduled.  `Kill` and
`Invoke` are not fair, and the number of partial writes is bounded by the
guard of `WriteSome`, as the length of the text bounds it in the system.

## 4. What the runs found

Each is a run that is expected to fail, with the line of the repository that
says otherwise (`findings` in `PROJECT.json`).

* `MCAssignConst`: `const int x = 1; { int x; x = 1; }` is rejected with
  "Cannot assign to a constant variable".
* `MCConstShadow`: `const int x = 1; { int x; const int y = x; }` is accepted,
  and `y` is 1.
* `MCBitwise`: `||` and `&&` become the opcodes that a comment calls bitwise,
  on raw operands.  `BitwiseLogic` chooses between that reading and the one
  the back end implements; all other runs take the back end's.
* `MCReturnZero`: `return 0` leaves `a0` unset.  `ReturnsSource` is the property
  one wants: what the function returns is what the source says.
  `ReturnsSourceExceptZero`, which `MCCompiler` and `MCLowering` check, is the
  same for every other returned operand; it includes a 0 that is the value of
  a variable or of an operation.
* `MCRelational`: `<=` and `>=` are lowered to `slt` and `sgt`.  `MCLowering`
  has every other operator.
* `MCComments`: the rule for block comments matches up to the last `*/` of the
  line, so in `/**/ a /**/` the `a` is skipped, and a comment over several
  lines is none, unless only line breaks stand before its end.
  `CommentsOnOneLine`, which `MCSyntax` checks, says on which texts comments
  are C's.

The first two also show in the passing runs, as the exceptions that
`RejectionsJustified` and `FaultsRejected` name: a program whose constant
expression used a hidden constant counts as illegal in `SysY`, and so nothing
is claimed of it.

## 5. Proofs

The theorems hold for all values of the constants: any set of names and of
literals, any bounds, any integer width, either build.

**IRGenProofs.** `TypeOK` is not inductive.  That a result is an instruction of
the last function, which `TypeOK` says, survives a new function only if no
result is held between functions; that no internal panic is reached needs a
context with an `ir_block` in every block; that a context names the last
function needs the balance of scopes; that a suspended declaration can go on
needs its name still free.  So the invariant is the conjunction

    Inv == TypeInv /\ ScopesBalanced /\ OneDeclarationPerScope
             /\ NoInternalPanic /\ SuspendedCanResume

where `TypeInv` is `TypeOK` written with the sets TLC cannot enumerate.  There
is a lemma for each action, and one for `insert_instruction` (`Emit`), from
which the expression handlers follow.  `InvIsInvariant` gives five theorems:
`TypeCorrect`, `ScopesStayBalanced`, `NoDoubleDeclaration`,
`InternalPanicsUnreachable`, `ResumptionIsSafe`.  The module begins with the
lemmas the others rest on too: `Wrap`, `TruncDiv` and `TruncRem` stay in the range
of the type, and what entering, leaving, inserting, marking and looking up return
and preserve on a stack of any size.

**IRGenProofs, the code.** Nothing said about the emitted code is inductive either: that
the next LOAD has a STORE before it depends on the table the pointer comes
from, that the next operand is an earlier instruction on the results that are
held.  `CodeInv` ties both to the code:

* `ProgInv`: every function's list is 0, 1, 2, ...; each instruction `Fits`
  where it stands (operands, types, results, the ALLOC and the STORE of its
  pointer before it); users are counted exactly; no two ALLOCs share a pointer,
  and none has one that the allocator still has to give.
* `TablesMatch`: each pointer of each open scope has its ALLOC in the function
  being parsed, and its STORE if it is marked initialized.
* `StmtMatches`: the pointer a suspended declaration holds has its ALLOC, and
  the one a suspended assignment holds is still the one its name means.
* `ValsMatch`: each result held is a constant or an instruction with a value.

A step either `Emits` one instruction, for which `Fits` is shown, or leaves the
code alone; both keep what was known (`KnowledgeKept`), since code only grows.
The theorem is `CodeInvIsInvariant`.  From it follow `CodeStaysSSA`,
`MemoryStaysDisciplined`, `CodeOnlyGrows`, and that every step is `NewFunction`,
`AppendInst` of an instruction that is `Legal`, `Stop` or a stutter of
`KoopaBuilder`: `FrontEndBuilds`.

**SimProofs.** The compiler knows names, pointers and flags; the source knows
scopes and values.  `CodeMeansSource` compares the two, but it is not
inductive: that the LOAD of a variable gives what the source says needs to know
which cell is its own, and that a STORE leaves every other variable alone needs
to know that no two share one.  `SimInv` adds, while the program is legal:

* `ScopesAgree`: the names of each open scope are those of its two tables; a
  constant has the value of the table, and the cell of a variable's pointer
  holds what the source says it is: an i32 if the flag says initialized, nothing
  otherwise (`CellHolds`);
* `OwnPointers`: no two entries of the tables, in any scopes, share a pointer;
* `StmtAgrees`: the cell of a suspended definition exists and is nobody's yet;
  the name a suspended assignment goes to is no constant;
* `ValsAgree`, `RetsAgree`, `MachineRuns`: each result held reads as the
  source's value, functions return what the source returns, and the machine has
  executed as many instructions as were emitted.

A pointer given out by the allocator is new by `CodeInv`, whence `OwnPointers`;
`LoweringComputes` says for each operator that its opcode computes its value,
and `MarkedPointer` and `AssignedScopes` that the flag and the scope an
assignment finds are those of one and the same definition.  There is a lemma
for each action.  `SimInvIsInvariant` gives `CodeKeepsMeaning`,
`NoFaultOverlooked` and `NoFaultInvented`, for every program, any width and
either build.  They assume `BitwiseLogic = FALSE`: with the other reading of
AND and OR `CodeMeansSource` is false, as `MCBitwise` shows.

**CompilerProofs.** A lowering is a chain of operators on a record.  `Chain(g, k, T,
size)` is what is true along it: at most `k` registers have been taken, the
lowest ones of the free list, those taken are in `T`, nothing has gone wrong,
and the lines so far are ones the assembler takes.  No opcode takes more than
five, so `find_free_reg` never comes back empty; `Freed` gives back what is in
`T`.  `LowerLowers` sums up: an instruction that is `Ready` (its operands have
slots, the frame has room for its result) is `Lowered`.

The two later passes check nothing; that they find what they unwrap rests on the
code.  `CompilerInv` therefore carries `Inv` and `CodeInv`
while the front end runs, and from then on `ProgInv`, with:

* `Outside` a function the context stack and the frames are empty; `Inside` one,
  there is its context and one frame;
* `Framed`: after the first `n` instructions, exactly those of them with a
  value have slots, words 0, 4, 8, ... of a frame of `FrameSize` bytes, so the
  next one fits;
* `GoodBlocks`, `GoodText`: the lines and the text so far.

That each instruction is `Ready` follows from `Fits` and `Framed`.  From
`CompilerInvIsInvariant` come `RegistersComeBack`, `PassesNeverPanic`,
`ContextHandedOver`, `FramesHoldValues`, `LinesAreWellFormed`,
`ImmediatesDecided` and `TextStaysSSA`, each for programs of any size.

**MachineProofs.** The core executes a sequence of lines of which a lowering knows
only what it has put there so far.  So the proof executes a lowering while it is
under way: `After(g)` is the core after the lines of the record `g`, `Quiet(g)`
says that only temporary registers have changed, and `Holds(g, w, v)` that
register `w` is taken and has `v` in it.  There is a lemma for each step of a
lowering (load a constant or a slot, take a register, compute, store, move sp);
they are put together by opcode, and `LowerRuns` sums up: `Ran` gives, for each
instruction, the one word of memory that its code changes and what it puts there.
Two invariants along the code of a function rest on that:

* `CpuInv`: memory is written in slots only, the registers that are not temporary
  are the caller's, and sp is below the frame until the function returns.
  `CallingConventionKept` follows.  It needs that the frame is as large after the
  last instruction as the prologue was told, which `Framed` says.
* `BesideInv`: the core beside the Koopa machine.  Until the function returns,
  each word of the frame with a name holds what the machine has for that name
  (`Mirrors`); afterwards `a0` holds what the machine has returned, unless that
  was the literal 0.  That a STORE disturbs no other name needs slots that are
  apart (`SlotsFit`), that a LOAD finds a number needs the STORE before it, which
  `Fits` says, and that the words of both machines are the same numbers needs
  `ComputedIs`: what `xor` and `seqz`, `snez` and `and`, `slt` compute is what
  EQ, AND, LT mean.

LE and GE are lowered to `slt` and `sgt` (section 4), so `Mirrors` is claimed of
a function that has neither (`StrictFunc`): `SlotsHoldValuesOfStrict`.  Where the
source language has neither (`StrictSource`, as in `MCCompiler` and
`MCLowering`), this is the property itself: `SlotsAlwaysHoldValues`.

**MeaningProofs.** `SimInv` ties code and source only as long as the front end is
at work: its machine starts anew with each function, and when a function is
lowered or printed nothing is left of what its code has computed.  `TraceOf(f,
t)` says that `t` is the machine before the code of `f`, after its first
instruction, and so on.  `FrontMeans` says that every function that has been
compiled has a trace that ends with what its source returns; it is handed from
the front end to the passes, since code is not changed any more.  `OnTheWay` says
that the machine beside the core is on that trace.  So at the end of a lowering
the machine has returned what the source returns, and by `BesideInv` so has the
core: `ReturnsExactlyWhenSourceDoes`, `ReturnsSourceOfStrict` and, for
`StrictSource`, `ReturnsWhatSourceSays`.

For the Koopa text, `ReaderFollows` goes along the same trace: after `n` lines the
reader knows each name of the first `n` instructions for what the machine has for
it (`ReaderAt`).  A line that defines a name again, or names an operand otherwise
than its definition does, would end that; that pointers are allocated once, and
that a name tells its number and its sort apart, prevents it.  So
`TextSaysWhatSourceSays`, with `<=` and `>=`, which the text has as they are.

These theorems assume `OnTruths`, that is `BitwiseLogic = FALSE`, for the same
reason as those of `SimProofs`; only `CallingConventionKept` does not.

**SyntaxProofs.** `CommentsAsInC`: on a text of any length that `OneLiners`
describes, the lexer gives the tokens of the text with blanks for the comments of
C.  C walks over the text from comment to comment, the lexer from match to match.
A place is `Outside` when C's walk reaches it (or would, taking a character at a
time); `CommentsAreSkipped` goes backwards over these places.  From the beginning
of a comment the lexer's rule takes the same comment: for `//` always, for `/*`
because by `OneLiners` the first end is the only one the rule can take
(`OneBlockEnd`).  From white space it goes on at the next place, since skipping a
run of it at once or by the character comes to the same (`SpaceStep`).  From any
other place the two texts are `Alike` up to the next comment, where the one has a
`/` and the other a blank; no match of any rule goes further (`SameEnds`), so the
token is the same and the lexer goes on outside again.

`LiteralsRead` (`LiteralsAsInC`): a text of any length without white space and
comments reads as the one token of the number `n` exactly if C writes `n` so, for
every `n` and every `MaxInt`; with layout around it, `12` is still a number and
C's literal is only the part in the middle, hence `Unspaced`.  In an unspaced
text each place begins a token (`TokensFrom`), so a text of one token is one match,
by a rule of literals, for no other token is a number (`OneNumber`).  The other
way, a text that has the form of a literal (`Literals`) is a match of its rule,
which is longer than any other rule's (`OneLiteral`).  What is left is arithmetic:
`ValueIsNumeral` shows, by induction on how many digits are read, that their value
is `m` exactly if they are zeros followed by the numeral of `m`, for all `m` up to
`n` at once, since the value of the first `k - 1` digits is `m \div base` and the
last one's `m % base`.

`ExpressionsRead` (`ExpressionsAsInC`): for any tokens, what the productions derive
from an expression is what C reads.  The productions refer to fewer tokens or to a
lower level, so both sides are settled by induction over that (`Weight`,
`ByWeight`).  What has a derivation is `Closed`: its parentheses close and it ends
with an operand (`DerivedClosed`); hence an operator between two parts that have
one is binary and outside parentheses, that is, one of C's `Binaries`, and the
others are those of the two parts (`BinariesAround`).  The induction (`DerivedReads`)
says of each level that it derives C's reading where no operator of a lower level is
outermost, and nothing otherwise (`Expected`): a level is recursive on its left and
has the level below on its right, so the only place it can split at is the last of
its own operators, with none weaker around, which is C's `Root` (`LevelReads`); a
sign or a pair of parentheses hides no binary operator (`UnaryReads`).  A level moved,
an operator at another level or the recursion on the other side breaks
`LevelReads`.

The assumptions are that the samples are made of texts (`SamplesAssumption`)
and that `MaxInt` is positive.

**ProgramProofs.** `ProgramsRead` (`ProgramsReadBack`): the tokens of a text of any length have one
derivation of a program at most, and the visits of a derivation are all that is
written: written by `Spelling`, they are the same words and have that derivation
again, and no other.  Both parts are inductions over `Weight`, which also ranks
the nonterminals of programs.

That there is one derivation (`OneDerivation`) is shown from where things end.  An
expression has no token that ends a definition or a line (`ExpKinds`), so a line
ends with its first semicolon (`LineShape`, `LineOnce`) and definitions with their
commas; a statement that begins with a brace is a block, and any other is a line.
Of the items of a block and of the functions of a program the first is then the
same in both derivations, wherever they end (`Alone`, `Comparable`), and by
induction so are the others.

The second part says of a sequence of tokens what it derives `Occurs` in a longer
one, since what is written is read as part of a program: `Fits` for expressions,
`FitsItem` for statements and functions, `FitsList` for what stands in front of
other items.  `ReadBack` is what the induction carries (`TreesReadable`): for the
visits `v` of a part of the program there is a sequence that the writer, having
written anything before, appends (`Puts`), whose words are those of the part, and
which derives `v` wherever it occurs.  For expressions the writer has a stack of
operands (`Pushes`, `Written`), and puts parentheses around each operation; so all fit
`PrimaryExp`, and hence at each level.  Then each handler's case joins the sequences
of its parts (`BackExp`, `BackBlock`, `BackFunc`).  A production that drops one of
the definitions, visits it twice or out of order breaks `ListRead`; one that
accepts a list in two ways breaks `ListOnce`.  The assumptions are those of `SyntaxProofs`.

**DriverProofs.** The invariant adds to the two properties where the file is
still as it was (up to `File::create`) and which flags lead to which step;
`RejectionKeepsOutput`, `SuccessIsComplete`, and the types.

The assumptions are those on the constants: `MaxInt` is positive, the literals
are numbers the type holds, the operators are the language's, the bounds are
natural numbers, the samples and the rejected texts are texts, `MaxImm` is a
natural number.

To make this provable, what is computed step by step is written as a recursive
function (`Run`, `ReadText`, `OnBits`, `Lex`, `CComments`, `IntConst`,
`Expressions`, `Derivations`, `CReading`, `Spelling`, `Words`), about which the provers can be told that it exists:
`RunsExists`, `ReadsLinesExists`, `LexExists`, `CommentsExist`, `DerivesExists`,
`ProducesExists`, `ReadsExists` and the lemmas on words build it up to any length.  Their induction
is `UpTo`, or `Upwards` and `Backwards`, inductions over a set.

Every invariant and every action property that a passing run checks is proved, and
so is the refinement; those about the meaning under the assumptions named above.
Only `Terminates` is model-checked alone, since liveness is out of the prover's
reach.  Neither proved nor true are `SlotsHoldValues` where `<=` or `>=` is used (`MCRelational`)
and `ReturnsSource` where 0 is returned (`MCReturnZero`).

## 6. Not modelled

* That the parser lalrpop generates accepts what the grammar derives, and the
  length of keywords: an identifier that begins with one.
* Layout, labels and directives of both texts.
* `KoopaGlobalVal`, `Param`, permanent registers, `remove_user`,
  `alloc_anonymous_var_wrapped`: code without a caller.
* Names of functions, and so two functions of one name, which no handler
  compares.
* That Koopa allows no code after `ret` in a block: the repository does not say
  so.

## 7. Plan

Modelled, in this order: the front end, its tables and its code; the meaning of
both; the back end; the driver; the text that goes in and the two that come
out.  Proved, in this order: the tables, the code, the refinement, the back end,
the meaning of the code, the assembly and the Koopa text against the source, the
comments.

What would come next:

* the theorem about the core for all operators, when `<=` and `>=` are lowered to
  what they mean and a returned 0 is loaded: `StrictFunc` and the exception of
  `BesideDone` are the only places where the proof takes them apart;
* the generated parser: that lalrpop's tables for this grammar have no
  conflict, which today is taken from its acceptance of the grammar;
* when the repository gets control flow and calls: basic blocks, `is_callee`,
  `ra` and the permanent registers, which are there without a caller.
