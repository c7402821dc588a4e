------------------------------- MODULE IRGen -------------------------------
(***************************************************************************)
(* The front end: the parse methods of the syntax tree (src/src/ast), which*)
(* walk a SysY program and emit Koopa instructions.                        *)
(*                                                                         *)
(* The walk is a recursive descent that evaluates its operands before it   *)
(* acts, so each step of this specification is the part of a handler that  *)
(* runs between two calls, in the order the calls make.  vals holds the    *)
(* results of sub-expressions their callers have not used yet (the left    *)
(* and right of the handlers), stmt the locals of the declaration or       *)
(* statement whose expression is being parsed.  The program being compiled *)
(* is arbitrary: \E chooses its next construct, and any choice of the      *)
(* leaves and operators is the post-order of some tree, because PrimaryExp *)
(* lets any expression stand in parentheses.                               *)
(*                                                                         *)
(* A panic ends the compiler: status names the reason.                     *)
(***************************************************************************)
EXTENDS I32, ContextStack

CONSTANTS
  Literals,    \* the numbers a source program may contain (never negative)
  Operators,   \* the operators it may contain
  MaxItems,    \* bound: declarations and statements in the whole program
  MaxNodes,    \* bound: leaves and unary operators in the whole program
  MaxDepth,    \* bound: nested blocks
  MaxFuncs     \* bound: function definitions

UnaryOps  == {"Plus", "Minus", "Not"}
SourceOps == UnaryOps \cup {"Or", "And", "Eq", "Ne", "Lt", "Gt", "Le", "Ge",
                            "Mul", "Div", "Mod", "Add", "Sub"}

ASSUME IRGenAssumption ==
  /\ Literals \subseteq 0 .. MaxInt
  /\ Operators \subseteq SourceOps
  /\ {MaxItems, MaxNodes, MaxDepth, MaxFuncs} \subseteq Nat

VARIABLES
  stack,     \* CONTEXT_STACK
  nextPtr,   \* PTR_ID_ALLOCATOR.current_id
  funcs,     \* the functions in the order of their definition, the last one
             \* perhaps unfinished; Program.funcs once parsing ends
  open,      \* the number of Block::parse calls that are running
  stmt,      \* the suspended declaration or statement
  vals,      \* the results of finished sub-expressions, not used yet
  status,    \* "run", "ok", or the reason of the panic
  items,     \* what MaxItems bounds
  nodes      \* what MaxNodes bounds

vars == <<stack, nextPtr, funcs, open, stmt, vals, status, items, nodes>>

\* The panics a source program can cause, and "internal" for those it should
\* not be able to cause: an unwrap, an expect or an index of the compiler's own.
Rejections == {"redeclared", "assign_const", "undeclared", "uninitialized",
               "undefined", "not_constant", "const_not", "overflow", "div_zero"}
Status     == {"run", "ok", "internal"} \cup Rejections

StmtKind == {"none", "const", "var", "assign", "return", "raw"}
Stmt     == [kind : StmtKind, name : Names \cup {""}, pointer : Nat]
Suspended(kind, name, pointer) == [kind |-> kind, name |-> name, pointer |-> pointer]
NoStmt   == Suspended("none", "", 0)

Init ==
  /\ stack = <<>> /\ nextPtr = 0 /\ funcs = <<>>
  /\ open = 0 /\ stmt = NoStmt /\ vals = <<>>
  /\ status = "run" /\ items = 0 /\ nodes = 0

-----------------------------------------------------------------------------
(* Where the walk stands.                                                  *)

AtTop    == status = "run" /\ open = 0
AtItem   == status = "run" /\ open > 0 /\ stmt.kind = "none"
InVarExp == status = "run" /\ stmt.kind \in {"var", "assign", "return", "raw"}
InConstExp == status = "run" /\ stmt.kind = "const"

\* The expression of the suspended statement is complete.
Complete(kind) == status = "run" /\ stmt.kind = kind /\ Len(vals) = 1

\* One more item; one with an expression needs room for a leaf of it.
CountItem       == items < MaxItems /\ items' = items + 1
CountItemAndExp == CountItem /\ nodes < MaxNodes
CountNode       == nodes < MaxNodes /\ nodes' = nodes + 1

\* insert_instruction, for the handlers: emits the instruction or panics.
Emit(inst) ==
  /\ status' = IF CanInsert(stack, funcs, inst) THEN "run" ELSE "internal"
  /\ funcs'  = IF CanInsert(stack, funcs, inst)
               THEN InsertInstruction(stack, funcs, inst) ELSE funcs

-----------------------------------------------------------------------------
(* Functions and blocks.                                                   *)

\* FuncDef::parse up to the first item of its block.
BeginFunc ==
  /\ AtTop /\ Len(funcs) < MaxFuncs
  /\ funcs' = Append(funcs, NewFunc)
  /\ stack' = EnterBlockScope(EnterFuncScope(stack, Len(funcs) + 1))
  /\ open' = 1
  /\ UNCHANGED <<nextPtr, stmt, vals, status, items, nodes>>

\* The end of the function's block and the rest of FuncDef::parse.  Block's
\* exit_scope drops the last reference to the function, which get_mut needs;
\* FuncDef's own exit_scope finds an empty stack.
Unshared(func) == \A i \in DOMAIN ExitScope(stack) : ExitScope(stack)[i].func # func

EndFunc ==
  /\ AtItem /\ open = 1
  /\ status' = IF Unshared(Len(funcs)) THEN "run" ELSE "internal"
  /\ funcs' = [funcs EXCEPT ![Len(funcs)].ir_blocks = @ + 1]
  /\ stack' = ExitScope(ExitScope(stack))
  /\ open' = 0
  /\ UNCHANGED <<nextPtr, stmt, vals, items, nodes>>

\* Stmt::Block: the nested block emits into the same ir_block, which
\* get_current_ir_block must find.
BeginBlock ==
  /\ AtItem /\ open < MaxDepth /\ CountItem
  /\ status' = IF stack # <<>> /\ Last(stack).ir_block THEN "run" ELSE "internal"
  /\ stack' = EnterBlockScope(stack)
  /\ open' = open + 1
  /\ UNCHANGED <<nextPtr, funcs, stmt, vals, nodes>>

EndBlock ==
  /\ AtItem /\ open > 1
  /\ stack' = ExitScope(stack)
  /\ open' = open - 1
  /\ UNCHANGED <<nextPtr, funcs, stmt, vals, status, items, nodes>>

\* CompUnit::parse returns the program.
Finish ==
  /\ AtTop
  /\ status' = "ok"
  /\ UNCHANGED <<stack, nextPtr, funcs, open, stmt, vals, items, nodes>>

-----------------------------------------------------------------------------
(* Declarations.                                                           *)

\* Slip: only constants are looked at.
Redeclares_ConstOnly(n) == GetCurrentConst(stack, n)

Redeclares(n) == GetCurrentPointer(stack, n) \/ GetCurrentConst(stack, n)

\* ConstDef::parse: the check, then the constant expression.
BeginConstDef(n) ==
  /\ AtItem /\ CountItemAndExp
  /\ \/ /\ Redeclares(n)
        /\ status' = "redeclared" /\ UNCHANGED stmt
     \/ /\ ~Redeclares(n)
        /\ stmt' = Suspended("const", n, 0) /\ UNCHANGED status
  /\ UNCHANGED <<stack, nextPtr, funcs, open, vals, nodes>>

\* ConstDecl::parse enters what its definition evaluated to.
EndConstDef ==
  /\ Complete("const")
  /\ stack' = InsertConst(stack, stmt.name, vals[1])
  /\ stmt' = NoStmt /\ vals' = <<>>
  /\ UNCHANGED <<nextPtr, funcs, open, status, items, nodes>>

\* VarDef::parse allocates and emits ALLOC before the initial value is parsed.
Alloc(initialized) ==
  /\ nextPtr' = nextPtr + 1
  /\ Emit(Inst("Int", PointerObj(initialized, nextPtr), "ALLOC", <<BTypeOperand>>))

\* Slip: a variable of the block may be defined again.
BeginVarDef_ConstOnly(n) ==
  /\ AtItem /\ CountItemAndExp
  /\ \/ /\ GetCurrentConst(stack, n)
        /\ status' = "redeclared" /\ UNCHANGED <<nextPtr, funcs, stmt>>
     \/ /\ ~GetCurrentConst(stack, n)
        /\ Alloc(TRUE)
        /\ stmt' = Suspended("var", n, nextPtr)
  /\ UNCHANGED <<stack, open, vals, nodes>>

\* A definition with an initial value.
BeginVarDef(n) ==
  /\ AtItem /\ CountItemAndExp
  /\ \/ /\ Redeclares(n)
        /\ status' = "redeclared" /\ UNCHANGED <<nextPtr, funcs, stmt>>
     \/ /\ ~Redeclares(n)
        /\ Alloc(TRUE)
        /\ stmt' = Suspended("var", n, nextPtr)
  /\ UNCHANGED <<stack, open, vals, nodes>>

\* The STORE of the initial value; VarDecl::parse enters the name only now.
EndVarDef ==
  /\ Complete("var")
  /\ IF vals[1].kind \in {"Const", "InstId"}
     THEN Emit(Inst("Void", NoObj, "STORE",
                    <<FromParseResult(vals[1]), PointerOperand(stmt.pointer)>>))
     ELSE UNCHANGED <<funcs, status>>
  /\ stack' = InsertPointer(stack, stmt.name, PointerObj(TRUE, stmt.pointer))
  /\ stmt' = NoStmt /\ vals' = <<>>
  /\ UNCHANGED <<nextPtr, open, items, nodes>>

\* A definition without one.
VarDefOnly(n) ==
  /\ AtItem /\ CountItem
  /\ \/ /\ Redeclares(n)
        /\ status' = "redeclared" /\ UNCHANGED <<nextPtr, funcs, stack>>
     \/ /\ ~Redeclares(n)
        /\ Alloc(FALSE)
        /\ stack' = InsertPointer(stack, n, PointerObj(FALSE, nextPtr))
  /\ UNCHANGED <<open, stmt, vals, nodes>>

-----------------------------------------------------------------------------
(* Statements.                                                             *)

\* RegularStmt: the checks, and the pointer taken before the expression is
\* parsed.
BeginAssign(n) ==
  /\ AtItem /\ CountItemAndExp
  /\ \/ /\ GetLatestConst(stack, n) # NoObj
        /\ status' = "assign_const" /\ UNCHANGED stmt
     \/ /\ GetLatestConst(stack, n) = NoObj
        /\ GetLatestPointer(stack, n) = NoObj
        /\ status' = "undeclared" /\ UNCHANGED stmt
     \/ /\ GetLatestConst(stack, n) = NoObj
        /\ GetLatestPointer(stack, n) # NoObj
        /\ stmt' = Suspended("assign", n, GetLatestPointer(stack, n).val)
        /\ UNCHANGED status
  /\ UNCHANGED <<stack, nextPtr, funcs, open, vals, nodes>>

EndAssign ==
  /\ Complete("assign")
  /\ Emit(Inst("Void", NoObj, "STORE",
               <<FromParseResult(vals[1]), PointerOperand(stmt.pointer)>>))
  /\ stack' = SetPointerInitialized(stack, stmt.name)
  /\ stmt' = NoStmt /\ vals' = <<>>
  /\ UNCHANGED <<nextPtr, open, items, nodes>>

\* ReturnStmt and RawExp with an expression (";" alone does nothing).
BeginExpStmt(kind) ==
  /\ AtItem /\ CountItemAndExp
  /\ stmt' = Suspended(kind, "", 0)
  /\ UNCHANGED <<stack, nextPtr, funcs, open, vals, status, nodes>>

EndReturn ==
  /\ Complete("return")
  /\ Emit(Inst("Void", NoObj, "RET", <<FromParseResult(vals[1])>>))
  /\ stmt' = NoStmt /\ vals' = <<>>
  /\ UNCHANGED <<stack, nextPtr, open, items, nodes>>

EndRawExp ==
  /\ Complete("raw")
  /\ stmt' = NoStmt /\ vals' = <<>>
  /\ UNCHANGED <<stack, nextPtr, funcs, open, status, items, nodes>>

-----------------------------------------------------------------------------
(* Expressions whose value is computed by the program: parse_var_exp.      *)

\* obj in the place of the last k results.
ReplaceTop(k, obj) == Append(SubSeq(vals, 1, Len(vals) - k), obj)

Left  == vals[Len(vals) - 1]
Right == vals[Len(vals)]

\* An instruction with a value; its id is read from the graph before it is
\* inserted, and again returned by insert_instruction.
EmitValue(opcode, operands, consumed) ==
  LET result == InstIdObj(NextInstId(stack, funcs))
  IN /\ Emit(Inst("Int", result, opcode, operands))
     /\ vals' = ReplaceTop(consumed, result)

\* PrimaryExp::Number, alike in both kinds of expression.
Number(c) ==
  /\ InVarExp \/ InConstExp
  /\ CountNode
  /\ vals' = Append(vals, ConstObj(c))
  /\ UNCHANGED <<stack, nextPtr, funcs, open, stmt, status, items>>

\* PrimaryExp::LVal: the innermost declaration of the name, loaded if it is a
\* variable that has been given a value.
LValVar(n) ==
  LET obj == FindHighestPriority(stack, n)
  IN /\ InVarExp /\ CountNode
     /\ \/ /\ obj.kind = "Pointer" /\ ~obj.initialized
           /\ status' = "uninitialized" /\ UNCHANGED <<funcs, vals>>
        \/ /\ obj.kind = "Pointer" /\ obj.initialized
           /\ EmitValue("LOAD", <<FromParseResult(obj)>>, 0)
        \/ /\ obj.kind = "Const"
           /\ vals' = Append(vals, obj) /\ UNCHANGED <<funcs, status>>
        \/ /\ obj.kind = "None"
           /\ status' = "undefined" /\ UNCHANGED <<funcs, vals>>
     /\ UNCHANGED <<stack, nextPtr, open, stmt, items>>

UnaryCode == [Minus |-> "SUB", Not |-> "EQ"]

UnaryVar(op) ==
  /\ InVarExp /\ vals # <<>> /\ CountNode
  /\ \/ op = "Plus" /\ UNCHANGED <<funcs, vals, status>>
     \/ /\ op \in DOMAIN UnaryCode
        /\ EmitValue(UnaryCode[op],
                     <<FromParseResult(ConstObj(0)), FromParseResult(Right)>>, 1)
  /\ UNCHANGED <<stack, nextPtr, open, stmt, items>>

\* Slip: the operands change places.
BinaryVar_Swapped(code, op) ==
  /\ InVarExp /\ op \in DOMAIN code /\ Len(vals) >= 2
  /\ EmitValue(code[op], <<FromParseResult(Right), FromParseResult(Left)>>, 2)
  /\ UNCHANGED <<stack, nextPtr, open, stmt, items, nodes>>

\* The instruction of a binary operator, after its left and right operand.
BinaryVar(code, op) ==
  /\ InVarExp /\ op \in DOMAIN code /\ Len(vals) >= 2
  /\ EmitValue(code[op], <<FromParseResult(Left), FromParseResult(Right)>>, 2)
  /\ UNCHANGED <<stack, nextPtr, open, stmt, items, nodes>>

LOrExpVar(op)  == BinaryVar([Or  |-> "OR"], op)
LAndExpVar(op) == BinaryVar([And |-> "AND"], op)
EqExpVar(op)   == BinaryVar([Eq  |-> "EQ", Ne |-> "NE"], op)
RelExpVar(op)  == BinaryVar([Lt  |-> "LT", Gt |-> "GT", Le |-> "LE", Ge |-> "GE"], op)
MulExpVar(op)  == BinaryVar([Mul |-> "MUL", Div |-> "DIV", Mod |-> "MOD"], op)
AddExpVar(op)  == BinaryVar([Add |-> "ADD", Sub |-> "SUB"], op)

-----------------------------------------------------------------------------
(* Constant expressions, which the compiler computes: parse_const_exp.     *)

\* The handler's arithmetic panics for a reason, or gives n for its k operands.
ConstResult(reason, n, k) ==
  /\ status' = reason
  /\ vals' = IF reason = "run" THEN ReplaceTop(k, ConstObj(n)) ELSE vals

\* Slips: overflow upwards goes unnoticed; a release build is checked too; the
\* quotient that overflows, or the wrong zero, is not looked for.
Checked_BelowOnly(n) == IF OverflowChecks /\ n < MinInt THEN "overflow" ELSE "run"
Checked_EveryBuild(n) == IF n \notin Int32 THEN "overflow" ELSE "run"
CheckedDiv_ZeroOnly(l, r) == IF r = 0 THEN "div_zero" ELSE "run"
CheckedDiv_Dividend(l, r) == CASE l = 0                -> "div_zero"
                               [] l = MinInt /\ r = -1 -> "overflow"
                               [] OTHER                -> "run"

\* What i32 arithmetic does with the exact result n.
Checked(n) == IF OverflowChecks /\ n \notin Int32 THEN "overflow" ELSE "run"

\* i32 division panics on these in every build.
CheckedDiv(l, r) == CASE r = 0                   -> "div_zero"
                      [] l = MinInt /\ r = -1    -> "overflow"
                      [] OTHER                   -> "run"

LValConst(n) ==
  /\ InConstExp /\ CountNode
  /\ \/ /\ GetLatestConst(stack, n) # NoObj
        /\ vals' = Append(vals, GetLatestConst(stack, n)) /\ UNCHANGED status
     \/ /\ GetLatestConst(stack, n) = NoObj
        /\ status' = "not_constant" /\ UNCHANGED vals
  /\ UNCHANGED <<stack, nextPtr, funcs, open, stmt, items>>

UnaryConst(op) ==
  /\ InConstExp /\ vals # <<>> /\ CountNode
  /\ IF Right.kind # "Const"
     THEN ConstResult("internal", 0, 1)
     ELSE CASE op = "Plus"  -> ConstResult("run", Right.val, 1)
            [] op = "Minus" -> ConstResult(Checked(-Right.val), Wrap(-Right.val), 1)
            [] op = "Not"   -> ConstResult("const_not", 0, 1)
  /\ UNCHANGED <<stack, nextPtr, funcs, open, stmt, items>>

\* The last two results are replaced by n; "Non-constant in const expression"
\* is a panic of every binary handler.
BinaryConst(ops, op, reason, n) ==
  /\ InConstExp /\ op \in ops /\ Len(vals) >= 2
  /\ IF Left.kind = "Const" /\ Right.kind = "Const"
     THEN ConstResult(reason, n, 2)
     ELSE ConstResult("internal", 0, 2)
  /\ UNCHANGED <<stack, nextPtr, funcs, open, stmt, items, nodes>>

LOrExpConst(op) ==
  BinaryConst({"Or"}, op, "run", Truth(Left.val # 0 \/ Right.val # 0))

LAndExpConst(op) ==
  BinaryConst({"And"}, op, "run", Truth(Left.val # 0 /\ Right.val # 0))

EqExpConst(op) ==
  BinaryConst({"Eq", "Ne"}, op, "run",
    Truth(IF op = "Eq" THEN Left.val = Right.val ELSE Left.val # Right.val))

RelExpConst(op) ==
  BinaryConst({"Lt", "Gt", "Le", "Ge"}, op, "run",
    Truth(CASE op = "Lt" -> Left.val < Right.val
            [] op = "Gt" -> Left.val > Right.val
            [] op = "Le" -> Left.val <= Right.val
            [] op = "Ge" -> Left.val >= Right.val))

MulExpConst(op) ==
  LET l == Left.val
      r == Right.val
  IN BinaryConst({"Mul", "Div", "Mod"}, op,
       IF op = "Mul" THEN Checked(l * r) ELSE CheckedDiv(l, r),
       CASE op = "Mul" -> Wrap(l * r)
         [] op = "Div" -> TruncDiv(l, r)
         [] op = "Mod" -> TruncRem(l, r))

\* Slip: the operands of a subtraction change places.
AddExpConst_Swapped(op) ==
  LET n == IF op = "Add" THEN Left.val + Right.val ELSE Right.val - Left.val
  IN BinaryConst({"Add", "Sub"}, op, Checked(n), Wrap(n))

AddExpConst(op) ==
  LET n == IF op = "Add" THEN Left.val + Right.val ELSE Left.val - Right.val
  IN BinaryConst({"Add", "Sub"}, op, Checked(n), Wrap(n))

-----------------------------------------------------------------------------
Functions == BeginFunc \/ EndFunc \/ Finish

Items ==
  \/ BeginBlock \/ EndBlock
  \/ \E n \in Names :
       BeginConstDef(n) \/ BeginVarDef(n) \/ VarDefOnly(n) \/ BeginAssign(n)
  \/ \E kind \in {"return", "raw"} : BeginExpStmt(kind)
  \/ EndConstDef \/ EndVarDef \/ EndAssign \/ EndReturn \/ EndRawExp

Exps ==
  \/ \E c \in Literals : Number(c)
  \/ \E n \in Names : LValVar(n) \/ LValConst(n)
  \/ \E op \in Operators \cap UnaryOps : UnaryVar(op) \/ UnaryConst(op)
  \/ \E op \in Operators \ UnaryOps :
       \/ LOrExpVar(op)   \/ LAndExpVar(op)   \/ EqExpVar(op)
       \/ RelExpVar(op)   \/ MulExpVar(op)    \/ AddExpVar(op)
       \/ LOrExpConst(op) \/ LAndExpConst(op) \/ EqExpConst(op)
       \/ RelExpConst(op) \/ MulExpConst(op)  \/ AddExpConst(op)

Next == Functions \/ Items \/ Exps

Spec == Init /\ [][Next]_vars

-----------------------------------------------------------------------------
(* Properties.                                                             *)

\* What a constant table, a pointer table and an expression may hold: an
\* instruction only outside constant expressions, and only one of the function
\* being parsed.
IsConst(obj)   == obj \in IRObj /\ obj.kind = "Const" /\ obj.val \in Int32
IsPointer(obj) == obj \in IRObj /\ obj.kind = "Pointer" /\ obj.val \in Nat
IsResult(obj)  ==
  \/ IsConst(obj)
  \/ /\ obj \in IRObj /\ obj.kind = "InstId" /\ stmt.kind # "const"
     /\ obj.val \in DOMAIN funcs[Len(funcs)].inst_map

\* Every variable holds a value of its type: in particular a constant table
\* holds only constants that fit an i32 and a pointer table only pointers, and
\* what an expression leaves behind is such a constant or an instruction that
\* exists, in a constant expression only a constant.
TypeOK ==
  /\ stack \in Seq(Range(stack))
  /\ \A c \in Range(stack) :
       /\ IsContext(c) /\ c.func \in DOMAIN funcs
       /\ \A n \in DOMAIN c.global_const_table   : IsConst(c.global_const_table[n])
       /\ \A n \in DOMAIN c.global_pointer_table : IsPointer(c.global_pointer_table[n])
  /\ nextPtr \in Nat
  /\ funcs \in Seq(Range(funcs)) /\ \A f \in Range(funcs) : IsFunc(f)
  /\ open \in Nat /\ stmt \in Stmt
  /\ vals \in Seq(Range(vals)) /\ \A obj \in Range(vals) : IsResult(obj)
  /\ status \in Status /\ items \in Nat /\ nodes \in Nat

\* The context stack mirrors the blocks that are open: one context for each,
\* all of the function being parsed and all with its ir_block, and none is
\* left when the function ends.  Nested blocks, the function's own block that
\* takes over an existing context, and the exit_scope calls, one of which does
\* nothing, keep the two apart or together (Block::parse, FuncDef::parse,
\* enter_block_scope).
ScopesBalanced ==
  status \in {"run", "ok"} =>
    /\ Len(stack) = open
    /\ \A i \in DOMAIN stack : stack[i].func = Len(funcs) /\ stack[i].ir_block

\* No name is a constant and a variable of one block (the checks of ConstDef
\* and VarDef run before the initial value is parsed, the entry is made after).
OneDeclarationPerScope ==
  \A i \in DOMAIN stack :
    DOMAIN stack[i].global_const_table \cap DOMAIN stack[i].global_pointer_table = {}

\* Whatever the source program, none of the compiler's own unwraps, index
\* operations and "unreachable" panics is reached: get_mut, last_mut, the
\* lookups of add_user, the non-constant operand in a constant expression.
NoInternalPanic == status # "internal"

\* What a suspended declaration or statement relies on when it goes on, after
\* any number of steps of its expression: it is in a block, the name it is
\* about to declare is still free there (ConstDef, VarDef), and the variable
\* it is about to assign still there (set_pointer_initialized would panic).
SuspendedCanResume ==
  /\ stmt.kind = "none" => vals = <<>>
  /\ stmt.kind # "none" => open > 0
  /\ stmt.kind \in {"const", "var"} => stmt.name \in Names /\ ~Redeclares(stmt.name)
  /\ stmt.kind = "assign" => stmt.name \in Names /\ PointerScopes(stack, stmt.name) # {}

-----------------------------------------------------------------------------
\* The instruction at position p of function f's list, and where each is.
InstAt(f, p) == f.inst_map[f.inst_list[p]]

\* The code of every function is in static single assignment form: the list
\* holds each instruction of the graph once, in the order of the ids, which
\* the instruction's own name repeats; an operand that is an instruction has a
\* value and comes earlier in the list; and users is exactly the inverse of
\* the operands, one entry for each use (insert_instruction, and the id the
\* expression handlers read before they call it).
SSA ==
  \A f \in {funcs[i] : i \in DOMAIN funcs} :
    /\ f.inst_list = [p \in 1 .. f.next_inst_id |-> p - 1]
    /\ \A p \in DOMAIN f.inst_list :
         LET inst == InstAt(f, p)
         IN /\ inst.ir_obj.kind = "InstId" => inst.ir_obj.val = f.inst_list[p]
            /\ inst.typ = "Int" <=> inst.opcode \in ValueOps
            /\ \A k \in DOMAIN inst.operands : inst.operands[k].kind = "InstId" =>
                 \E q \in 1 .. p - 1 :
                   /\ f.inst_list[q] = inst.operands[k].val
                   /\ InstAt(f, q).ir_obj.kind = "InstId"
            /\ \A u \in DOMAIN f.inst_map :
                 Cardinality({k \in DOMAIN inst.users : inst.users[k] = u})
                   = Cardinality(UsesOf(f.inst_map[u], f.inst_list[p]))

\* The places of the program: position p of the list of function i.
Places    == UNION {{i} \X DOMAIN funcs[i].inst_list : i \in DOMAIN funcs}
At(place) == InstAt(funcs[place[1]], place[2])

\* The pointer a LOAD reads, a STORE writes.
Address(inst) == inst.operands[IF inst.opcode = "LOAD" THEN 1 ELSE 2].val

AllocsOf(ptr) ==
  {q \in Places : At(q).opcode = "ALLOC" /\ At(q).ir_obj.val = ptr}

\* Memory is used as the symbol tables promised: the pointer of a LOAD or
\* STORE has exactly one ALLOC in the whole program, earlier in the same
\* function; and a LOAD comes after a STORE to its pointer.  The code keeps
\* this through the flag "initialized", set when a definition has an initial
\* value and after an assignment's STORE, and through the order ALLOC,
\* expression, STORE, table entry of VarDef and VarDecl.
MemoryDiscipline ==
  \A place \in Places :
    LET inst    == At(place)
        before  == {place[1]} \X (1 .. place[2] - 1)
    IN inst.opcode \in {"LOAD", "STORE"} =>
         /\ \E q \in before : AllocsOf(Address(inst)) = {q}
         /\ inst.opcode = "LOAD" =>
              \E q \in before : At(q).opcode = "STORE" /\ Address(At(q)) = Address(inst)

\* An instruction that is part of the program stays as it was emitted, except
\* that it gains users; nothing is emitted into a function that has ended, and
\* nothing at all once a panic or the end of the program is reached.
AppendOnly ==
  [][/\ \A i \in DOMAIN funcs :
          /\ i \in DOMAIN funcs'
          /\ i < Len(funcs') => funcs'[i].inst_map = funcs[i].inst_map
          /\ funcs[i].ir_blocks > 0 => funcs'[i] = funcs[i]
          /\ \A id \in DOMAIN funcs[i].inst_map :
               [funcs'[i].inst_map[id] EXCEPT !.users = <<>>]
                 = [funcs[i].inst_map[id] EXCEPT !.users = <<>>]
     /\ status # "run" => UNCHANGED funcs]_vars

\* The graphs, lists and tables implement KoopaBuilder: read in the order of
\* its list, every function is what legal appends have built.
Said(inst) == [typ    |-> inst.typ,    ir_obj   |-> inst.ir_obj,
               opcode |-> inst.opcode, operands |-> inst.operands]
Body(f)    == [p \in DOMAIN f.inst_list |-> Said(InstAt(f, p))]
BuiltCode  == [i \in DOMAIN funcs |-> Body(funcs[i])]

Builder == INSTANCE KoopaBuilder WITH code <- BuiltCode, stopped <- status # "run"

ImplementsKoopaBuilder == Builder!Spec
=============================================================================
