------------------------------ MODULE Compiler ------------------------------
(***************************************************************************)
(* main: the front end, then with -riscv the back end on what it left (the *)
(* functions, and CONTEXT_STACK), then the Koopa text, beside the meaning  *)
(* of the source, of the Koopa code, and of both texts.  While the front   *)
(* end runs, src and machine are IRGenSim's; while the back end runs,      *)
(* machine executes each Koopa instruction as it is lowered and cpu the    *)
(* lines it is lowered to, one function after the other.  With -koopa the  *)
(* back end does not run and printing begins at once.                      *)
(***************************************************************************)
EXTENDS IRGenSim, RvExec, KoopaReader

CONSTANT MaxImm   \* the largest immediate of ADDI, LW and SW: 2047 in RISC-V

ASSUME MaxImmAssumption == MaxImm \in Nat

VARIABLES regs, frames, blocks, fn, pos, phase, cpu, printed, printing

Gen     == INSTANCE AsmGen
Printer == INSTANCE KoopaPrinter

frontvars == <<stack, nextPtr, funcs, open, stmt, vals, status, items, nodes>>
backvars  == <<regs, frames, blocks, fn, pos, phase>>
textvars  == <<printed, printing>>
allvars   == <<simvars, backvars, cpu, textvars>>

CompilerInit ==
  SimInit /\ Gen!GenInit /\ cpu = NewCpu /\ Printer!PrinterInit

FrontEnd == SimNext /\ UNCHANGED <<backvars, cpu, textvars>>

\* What the steps after the front end leave alone.
FrontDone == status = "ok" /\ UNCHANGED <<nextPtr, open, stmt, vals, status, items, nodes, src>>

\* The instructions a step has added to the current block.
NewCode ==
  LET block == Last(blocks')
  IN IF Len(blocks') > Len(blocks) THEN block
     ELSE SubSeq(block, Len(Last(blocks)) + 1, Len(block))

\* The core after it has executed insts.
Run(c, insts) ==
  LET after[k \in 0 .. Len(insts)] ==
        IF k = 0 THEN c ELSE Step(after[k - 1], Gen!AsmLine(insts[k]))
  IN after[Len(insts)]

BackEnd ==
  /\ FrontDone /\ printing = "idle" /\ UNCHANGED textvars
  /\ \/ Gen!BeginAsmBlock /\ machine' = NewMachine /\ cpu' = Run(NewCpu, NewCode)
     \/ Gen!EndAsmBlock   /\ UNCHANGED <<machine, cpu>>
     \/ Gen!FinishAsm     /\ UNCHANGED <<machine, cpu>>
     \/ /\ Gen!Lower
        /\ machine' = Execute(machine, Gen!Data, BitwiseLogic)
        /\ cpu'     = Run(cpu, NewCode)

\* After the whole back end, or without it.
Printing ==
  /\ FrontDone
  /\ phase = "done" \/ (phase = "func" /\ blocks = <<>>)
  /\ Printer!PrinterNext
  /\ UNCHANGED <<regs, frames, blocks, fn, pos, phase, machine, cpu>>

CompilerNext == FrontEnd \/ BackEnd \/ Printing

CompilerSpec == CompilerInit /\ [][CompilerNext]_allvars

-----------------------------------------------------------------------------
(* Properties of the back end and of printing.                             *)

Slots == Last(frames).var_map

\* Every temporary register an instruction's lowering took is free again when
\* the next instruction is lowered, so find_free_reg never comes back empty
\* however long the function is (the free_temp calls of AsmInst::from).
NoRegisterLeak == phase # "panic" => regs = [r \in Reg |-> REG_IDLE]

\* No unwrap, unimplemented! or unreachable! of the back end or of printing is
\* reached: every operand of every instruction has a slot before the
\* instruction is lowered, and every id a block lists is in the graph that
\* printing finds through CONTEXT_STACK.
BackEndTotal == phase # "panic" /\ printing # "panic"

\* The frame holds what the function needs: at the end of the function each
\* instruction with a value has its own aligned word, none reaches beyond
\* the size the prologue has computed, and sp stays 16-byte aligned
\* (StackFrameManager::prologue computes the size from the graph, alloc_var
\* the offsets from the instructions as they come).
FrameLayout ==
  phase = "inst" =>
    /\ Last(frames).size % 16 = 0
    /\ \A n \in DOMAIN Slots : Slots[n] % 4 = 0 /\ Slots[n] + 4 <= Last(frames).size
    /\ \A m, n \in DOMAIN Slots : m # n => Slots[m] # Slots[n]

\* The tables the passes share are handed over clean: the back end runs with
\* the context of the function it lowers and no other, one frame deep, so
\* that is_callee never asks for the return address to be saved.
PassesShareContext ==
  status = "ok" =>
    /\ Len(stack) = (IF phase = "inst" THEN 1 ELSE 0) /\ Len(frames) = Len(stack)
    /\ phase = "inst" => Last(stack).func = fn

\* Every line is one the assembler accepts: the operands its mnemonic takes,
\* in order, none missing, results to temporaries or sp (AsmInst's Display
\* unwraps the fields of "lw" and "sw").
Targets     == {Temp(r) : r \in TempRegs}
Sources     == Targets \cup {Temp(ZERO)}
IsSlot(w)   == w.kind = "Mem" /\ w.reg = SP
IsNumber(w) == w.kind = "Imm" /\ w.offset \in Int32

WellFormed(line) ==
  LET w == line.words
  IN CASE line.mnemonic = "ret"  -> w = <<>>
       [] line.mnemonic = "li"   -> Len(w) = 2 /\ w[1] \in Targets /\ IsNumber(w[2])
       [] line.mnemonic = "addi" ->
            Len(w) = 3 /\ w[1] = Temp(SP) /\ w[2] = Temp(SP) /\ w[3].kind = "Imm"
       [] line.mnemonic = "lw"   -> Len(w) = 2 /\ w[1] \in Targets /\ IsSlot(w[2])
       [] line.mnemonic = "sw"   -> Len(w) = 2 /\ w[1] \in Sources /\ IsSlot(w[2])
       [] line.mnemonic \in {"seqz", "snez"} ->
            Len(w) = 2 /\ w[1] \in Targets /\ w[2] \in Sources
       [] OTHER -> Len(w) = 3 /\ w[1] \in Targets /\ {w[2], w[3]} \subseteq Sources

AsmWellFormed ==
  \A b \in DOMAIN blocks : \A k \in DOMAIN blocks[b] : WellFormed(Gen!AsmLine(blocks[b][k]))

\* The assembler takes the text of a function exactly if its values fill at
\* most MaxImm bytes, rounded down to whole frame units: sp moves by an
\* immediate of ADDI in both directions, and slots are offsets of LW and SW
\* (AsmBlock::prologue, the epilogue of RET; nothing checks their range).
Immediates(lines) ==
  {w.offset : w \in {x \in UNION {Range(line.words) : line \in Range(lines)} :
                        x.kind = "Mem"}}
  \cup {line.words[3].offset : line \in {l \in Range(lines) : l.mnemonic = "addi"}}

ValuesOf(f) == {i \in DOMAIN f.inst_map : f.inst_map[i].typ = "Int"}

ImmediatesFit ==
  \A b \in 1 .. Len(blocks) - (IF phase = "inst" THEN 1 ELSE 0) :
    LET lines == [k \in DOMAIN blocks[b] |-> Gen!AsmLine(blocks[b][k])]
        small == 4 * Cardinality(ValuesOf(funcs[b])) <= 16 * (MaxImm \div 16)
        fits  == \A n \in Immediates(lines) : n \in -MaxImm - 1 .. MaxImm
    IN /\ small => fits
       /\ ~small /\ (\E line \in Range(lines) : line.mnemonic = "ret") => ~fits

\* Until the function returns, its frame mirrors the Koopa machine: the slot
\* of every instruction that has been lowered holds that instruction's value,
\* the slot of every pointer what is stored there.
SlotsHoldValues ==
  phase = "inst" /\ ~cpu.halted =>
    \A n \in DOMAIN Slots : Peek(cpu, cpu.x[SP] + Slots[n]) = Read(machine, n)

\* The calling convention: when the function returns, sp and the registers it
\* must not change are as they were, and it has written to nothing but its
\* own frame, below the caller's sp.
CallingConvention ==
  phase = "inst" =>
    /\ \A a \in DOMAIN cpu.mem : a \in -Last(frames).size .. -4
    /\ cpu.halted => /\ cpu.x[SP] = NewCpu.x[SP]
                     /\ \A r \in CalleeSaved : cpu.x[r] = NewCpu.x[r]

\* A function of a legal program comes back to its caller exactly if its
\* source says "return": without one, no "ret" ends its text, and execution
\* runs into the function printed next (AsmBlock::from adds nothing).
ReturnsWhenSourceDoes ==
  phase = "inst" /\ src.verdict = "legal" /\ pos > Len(funcs[fn].inst_list) =>
    (cpu.halted <=> src.rets[fn] # Undef)

\* Compilation is correct from end to end: a legal program's function returns
\* in a0 what its source says (all of BlockItem::parse, AsmInst::from).
ReturnsSource ==
  phase = "inst" /\ cpu.halted /\ src.verdict = "legal" => cpu.x[A0] = src.rets[fn]

\* The same, except for the literal 0 (see ReturnsSource in README).
ReturnedOperand ==
  LET f == funcs[fn]
      rets == {p \in DOMAIN f.inst_list : InstAt(f, p).opcode = "RET"}
  IN InstAt(f, Min(rets)).operands[1]

ReturnsSourceExceptZero ==
  phase = "inst" /\ cpu.halted /\ src.verdict = "legal"
    /\ ReturnedOperand # FromParseResult(ConstObj(0)) => cpu.x[A0] = src.rets[fn]

-----------------------------------------------------------------------------
(* Properties of the Koopa text.                                           *)

Sigils == {"%", "@"}

\* The text is in SSA form, as its readers demand: a name stands left of "="
\* once in its function, and a pointer's once in the whole text; what a line
\* uses is defined above it.  (The names come from three places: the list of
\* the block, the objects in the graph, and PTR_ID_ALLOCATOR.)
TextIsSSA ==
  \A f \in DOMAIN printed : \A k \in DOMAIN printed[f] :
    LET line == printed[f][k]
        above(w) == \E j \in 1 .. k - 1 : printed[f][j].lhs = w
    IN /\ line.lhs # Printer!NoWord => ~above(line.lhs)
       /\ line.lhs.sigil = "@" =>
            \A g \in 1 .. f - 1 : \A j \in DOMAIN printed[g] : printed[g][j].lhs # line.lhs
       /\ \A w \in Range(line.words) : w.sigil \in Sigils => above(w)

\* The text says what the source says: reading it, and nothing else, gives
\* what each function returns.
TextMeansSource ==
  src.verdict = "legal" =>
    \A f \in DOMAIN printed : ReadText(printed[f], BitwiseLogic).ret = src.rets[f]
=============================================================================
