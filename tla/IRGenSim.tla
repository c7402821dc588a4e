------------------------------ MODULE IRGenSim ------------------------------
(***************************************************************************)
(* The front end beside the meaning of what it reads and writes: src is    *)
(* the interpreter of the source program (SysY), machine the one that      *)
(* executes the instructions of the function being compiled (KoopaExec).   *)
(* Both are history variables: every action is an action of IRGen, and     *)
(* they record what the construct it reads and the instruction it emits    *)
(* mean.                                                                   *)
(***************************************************************************)
EXTENDS IRGen, SysY

CONSTANT BitwiseLogic   \* AND and OR mean what their names say in Koopa; FALSE:
                        \* what the back end lowers them to

ASSUME BitwiseLogic \in BOOLEAN

VARIABLES src, machine

simvars == <<stack, nextPtr, funcs, open, stmt, vals, status, items, nodes, src, machine>>

SimInit == Init /\ src = SrcInit /\ machine = NewMachine

\* What the source has come to mean, and the machine after the instruction
\* that was emitted, if one was.
Records(meaning) ==
  /\ src' = meaning
  /\ machine' =
       LET f  == Len(funcs)
           id == funcs[f].next_inst_id
       IN IF Len(funcs') > f THEN NewMachine
          ELSE IF funcs' = funcs \/ funcs'[f].next_inst_id = id THEN machine
          ELSE Execute(machine, funcs'[f].inst_map[id], BitwiseLogic)

SimFunctions ==
  \/ BeginFunc /\ Records(EnterFunction(src))
  \/ EndFunc   /\ Records(Leave(src))
  \/ Finish    /\ Records(src)

SimItems ==
  \/ BeginBlock /\ Records(Enter(src))
  \/ EndBlock   /\ Records(Leave(src))
  \/ \E n \in Names :
       \/ BeginConstDef(n) /\ Records(CheckFresh(src, n))
       \/ BeginVarDef(n)   /\ Records(CheckFresh(src, n))
       \/ VarDefOnly(n)    /\ Records(Declare(CheckFresh(src, n), n, "var", Undef))
       \/ BeginAssign(n)   /\ Records(CheckTarget(src, n))
  \/ \E kind \in {"return", "raw"} : BeginExpStmt(kind) /\ Records(src)
  \/ EndConstDef /\ Records(Declare(src, stmt.name, "const", src.vals[1]))
  \/ EndVarDef   /\ Records(Declare(src, stmt.name, "var", src.vals[1]))
  \/ EndAssign   /\ Records(Assign(src, stmt.name))
  \/ EndReturn   /\ Records(Return(src))
  \/ EndRawExp   /\ Records(Discard(src))

SimExps ==
  \/ \E c \in Literals : Number(c) /\ Records(Push(src, c))
  \/ \E n \in Names :
       \/ LValVar(n)   /\ Records(Use(src, n))
       \/ LValConst(n) /\ Records(UseConst(src, n))
  \/ \E op \in Operators \cap UnaryOps :
       \/ UnaryVar(op)   /\ Records(Unary(src, op))
       \/ UnaryConst(op) /\ Records(UnaryConstant(src, op))
  \/ \E op \in Operators \ UnaryOps :
       \/ LOrExpVar(op)    /\ Records(Binary(src, op))
       \/ LAndExpVar(op)   /\ Records(Binary(src, op))
       \/ EqExpVar(op)     /\ Records(Binary(src, op))
       \/ RelExpVar(op)    /\ Records(Binary(src, op))
       \/ MulExpVar(op)    /\ Records(Binary(src, op))
       \/ AddExpVar(op)    /\ Records(Binary(src, op))
       \/ LOrExpConst(op)  /\ Records(BinaryConstant(src, op))
       \/ LAndExpConst(op) /\ Records(BinaryConstant(src, op))
       \/ EqExpConst(op)   /\ Records(BinaryConstant(src, op))
       \/ RelExpConst(op)  /\ Records(BinaryConstant(src, op))
       \/ MulExpConst(op)  /\ Records(BinaryConstant(src, op))
       \/ AddExpConst(op)  /\ Records(BinaryConstant(src, op))

SimNext == SimFunctions \/ SimItems \/ SimExps

SimSpec == SimInit /\ [][SimNext]_simvars

-----------------------------------------------------------------------------
\* The value of what an expression handler returned.
ValueOf(obj) == IF obj.kind = "Const" THEN obj.val ELSE machine.vals[obj.val + 1]

\* As long as the program is legal, what has been compiled computes what the
\* source means: every result an expression handler is holding, every
\* constant and every variable of every open scope, shadowed or not, and the
\* value the function returns.
CodeMeansSource ==
  status = "run" /\ src.verdict = "legal" =>
    /\ Len(vals) = Len(src.vals)
    /\ \A i \in DOMAIN vals : ValueOf(vals[i]) = src.vals[i]
    /\ Len(stack) = Len(src.scopes)
    /\ \A i \in DOMAIN stack :
         /\ DOMAIN stack[i].global_const_table \cup DOMAIN stack[i].global_pointer_table
              = DOMAIN src.scopes[i]
         /\ \A n \in DOMAIN stack[i].global_const_table :
              src.scopes[i][n] = Decl("const", stack[i].global_const_table[n].val)
         /\ \A n \in DOMAIN stack[i].global_pointer_table :
              src.scopes[i][n] = Decl("var", machine.mem[stack[i].global_pointer_table[n].val])
    /\ src.rets # <<>> => machine.ret = Last(src.rets)

\* The compiler rejects a program only for the fault it reports: the check of
\* each handler, against tables that depend on all the declarations before
\* it, agrees with the language.  Not so for a fault the compiler has already
\* overlooked ("not_constant", see ConstantsAreConstant), for the assignment
\* to a shadowed constant (see OnlyConstantsAreUnassignable), and for "!" in a
\* constant expression, which the language allows.
RejectionsJustified ==
  status \in Rejections \ {"assign_const", "const_not"} =>
    src.verdict \in {status, "not_constant"}

\* The compiler goes on only while the program is legal, except for a name
\* that is not a constant in a constant expression.
FaultsRejected ==
  status \in {"run", "ok"} => src.verdict \in {"legal", "not_constant"}

-----------------------------------------------------------------------------
(* What the messages of two panics say, and the code does not do.          *)

\* "Cannot assign to a constant variable" (stmt.rs:30): the name assigned to
\* means a constant.
OnlyConstantsAreUnassignable ==
  status = "assign_const" => src.verdict = "assign_const"

\* "LVal not found in const table, maybe the ident is for a variable or not
\* defined" (exp.rs:660): a name that means a variable is not accepted in a
\* constant expression.
ConstantsAreConstant ==
  status \in {"run", "ok"} => src.verdict # "not_constant"
=============================================================================
