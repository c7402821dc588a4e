------------------------------ MODULE SimProofs ------------------------------
(***************************************************************************)
(* The code means what the source means, for every program, every name,    *)
(* literal and width: the proof of CodeMeansSource, FaultsRejected and     *)
(* RejectionsJustified, where AND and OR are what the back end makes of    *)
(* them.                                                                   *)
(*                                                                         *)
(* The compiler knows names, pointers and flags, the source only scopes.   *)
(* What ties them is the memory of the machine: SimInv says that the       *)
(* pointer of a variable holds what the variable means and that the flag   *)
(* tells whether that is anything, and, because a STORE must not disturb   *)
(* another variable, that no two variables share a pointer.                *)
(***************************************************************************)
EXTENDS IRGenSim, IRGenProofs

-----------------------------------------------------------------------------
(* The invariant.                                                          *)

Decls      == [kind : {"const", "var"}, val : Int]
DeclScopes == TableSet(Decls)
Memories   == UNION {[P -> Int] : P \in SUBSET Nat}
Machines   == [vals : Seq(Int), mem : Memories, ret : Int]
SourceStates ==
  [scopes : Seq(DeclScopes), vals : Seq(Int32), rets : Seq(Int), verdict : {"legal"}]

IsSource(s) ==
  \E scopes, values, rets, verdict :
    s = [scopes |-> scopes, vals |-> values, rets |-> rets, verdict |-> verdict]

\* The pointer p of a table holds what the declaration d means.
CellHolds(mem, p, d) ==
  /\ p.val \in DOMAIN mem
  /\ d = Decl("var", mem[p.val])
  /\ IF p.initialized THEN mem[p.val] \in Int32 ELSE mem[p.val] = Undef

ScopeAgrees(c, scope, mem) ==
  /\ DOMAIN scope = DOMAIN c.global_const_table \cup DOMAIN c.global_pointer_table
  /\ \A n \in DOMAIN c.global_const_table : scope[n] = Decl("const", c.global_const_table[n].val)
  /\ \A n \in DOMAIN c.global_pointer_table : CellHolds(mem, c.global_pointer_table[n], scope[n])

ScopesAgree ==
  /\ Len(src.scopes) = Len(stack)
  /\ \A i \in 1 .. Len(stack) : ScopeAgrees(stack[i], src.scopes[i], machine.mem)

\* No two variables have one pointer.
OwnPointers(st) ==
  \A i, j \in 1 .. Len(st) :
    \A n \in DOMAIN st[i].global_pointer_table : \A m \in DOMAIN st[j].global_pointer_table :
      st[i].global_pointer_table[n].val = st[j].global_pointer_table[m].val => i = j /\ n = m

\* None of them has the pointer ptr.
Unused(st, ptr) ==
  \A i \in 1 .. Len(st) : \A n \in DOMAIN st[i].global_pointer_table :
    st[i].global_pointer_table[n].val # ptr

\* The variable being defined, the name being assigned.
StmtAgrees ==
  /\ stmt.kind = "var"    => stmt.pointer \in DOMAIN machine.mem /\ Unused(stack, stmt.pointer)
  /\ stmt.kind = "assign" => ConstScopes(stack, stmt.name) = {}

\* The value of a result, ValueOf, in the state mc of the machine.
ValueIn(mc, obj) == IF obj.kind = "Const" THEN obj.val ELSE mc.vals[obj.val + 1]

ValsAgree ==
  /\ Len(src.vals) = Len(vals)
  /\ \A i \in 1 .. Len(vals) : ValueIn(machine, vals[i]) = src.vals[i]

\* The machine has executed the code of the function being parsed.
MachineRuns == Len(funcs) > 0 => Len(machine.vals) = Top.next_inst_id

RetsAgree ==
  /\ Len(src.rets) = Len(funcs)
  /\ Len(funcs) > 0 => machine.ret = src.rets[Len(funcs)]

Agree ==
  /\ src \in SourceStates /\ machine \in Machines
  /\ MachineRuns /\ ScopesAgree /\ OwnPointers(stack) /\ StmtAgrees /\ ValsAgree /\ RetsAgree

SimInv ==
  /\ IsSource(src)
  /\ FaultsRejected /\ RejectionsJustified
  /\ status = "run" /\ src.verdict = "legal" => Agree

\* A state in which a legal program is being compiled.
Compiling ==
  /\ Inv /\ CodeInv /\ SimInv
  /\ status = "run" /\ src.verdict = "legal"

-----------------------------------------------------------------------------
(* The properties follow.                                                  *)

\* The invariant is what CodeMeansSource says, and more.
LEMMA SimInvMeans == ASSUME Inv, SimInv PROVE CodeMeansSource
<1> SUFFICES ASSUME status = "run", src.verdict = "legal"
             PROVE  /\ Len(vals) = Len(src.vals)
                    /\ \A i \in DOMAIN vals : ValueOf(vals[i]) = src.vals[i]
                    /\ Len(stack) = Len(src.scopes)
                    /\ \A i \in DOMAIN stack :
                         /\ DOMAIN stack[i].global_const_table
                              \cup DOMAIN stack[i].global_pointer_table = DOMAIN src.scopes[i]
                         /\ \A n \in DOMAIN stack[i].global_const_table :
                              src.scopes[i][n] = Decl("const", stack[i].global_const_table[n].val)
                         /\ \A n \in DOMAIN stack[i].global_pointer_table :
                              src.scopes[i][n]
                                = Decl("var", machine.mem[stack[i].global_pointer_table[n].val])
                    /\ src.rets # <<>> => machine.ret = Last(src.rets)
  BY DEF CodeMeansSource
<1>1. Agree
  BY DEF SimInv
<1>2. DOMAIN vals = 1 .. Len(vals) /\ DOMAIN stack = 1 .. Len(stack)
  BY LenProperties DEF Inv, TypeInv
<1>3. ASSUME src.rets # <<>> PROVE machine.ret = Last(src.rets)
  <2>1. src.rets \in Seq(Int)
    BY <1>1 DEF Agree, SourceStates
  <2>2. Len(src.rets) \in Nat \ {0} /\ Last(src.rets) = src.rets[Len(src.rets)]
    BY <1>3, <2>1, LastAndFront
  <2> QED BY <1>1, <2>2 DEF Agree, RetsAgree
<1>4. \A obj : ValueIn(machine, obj) = ValueOf(obj)
  BY DEF ValueIn, ValueOf
<1> QED BY <1>1, <1>2, <1>3, <1>4 DEF Agree, ValsAgree, ScopesAgree, ScopeAgrees, CellHolds

-----------------------------------------------------------------------------
(* A program that is illegal stays so.                                     *)

\* Only the first fault counts, and the interpreter stays an interpreter.
KeepsFault(s, t) == IsSource(t) /\ (s.verdict # "legal" => t.verdict = s.verdict)

\* A fault is recorded once and changes nothing else.
LEMMA JudgeFacts ==
  ASSUME NEW s, IsSource(s), NEW fault, NEW bad \in BOOLEAN, NEW t, t = Judge(s, fault, bad)
  PROVE  /\ IsSource(t) /\ t.scopes = s.scopes /\ t.vals = s.vals /\ t.rets = s.rets
         /\ t.verdict = IF s.verdict = "legal" /\ bad THEN fault ELSE s.verdict
  BY DEF IsSource, Judge

\* A value is appended to the results that are held.
LEMMA PushFacts ==
  ASSUME NEW s, IsSource(s), NEW v, NEW t, t = Push(s, v)
  PROVE  /\ IsSource(t) /\ t.scopes = s.scopes /\ t.vals = Append(s.vals, v)
         /\ t.rets = s.rets /\ t.verdict = s.verdict
  BY DEF IsSource, Push

\* The last k results become one.
LEMMA ReplaceLastFacts ==
  ASSUME NEW s, IsSource(s), NEW k, NEW v, NEW t, t = ReplaceLast(s, k, v)
  PROVE  /\ IsSource(t) /\ t.scopes = s.scopes /\ t.rets = s.rets /\ t.verdict = s.verdict
         /\ t.vals = Append(SubSeq(s.vals, 1, Len(s.vals) - k), v)
  BY DEF IsSource, ReplaceLast

\* A function opens with one scope without names and has returned nothing.
LEMMA EnterFunctionFacts ==
  ASSUME NEW s, IsSource(s), NEW t, t = EnterFunction(s)
  PROVE  /\ IsSource(t) /\ t.scopes = <<NoNames>> /\ t.rets = Append(s.rets, Undef)
         /\ t.vals = s.vals /\ t.verdict = s.verdict
  BY DEF IsSource, EnterFunction

\* A block opens with a scope without names.
LEMMA EnterFacts ==
  ASSUME NEW s, IsSource(s), NEW t, t = Enter(s)
  PROVE  /\ IsSource(t) /\ t.scopes = Append(s.scopes, NoNames)
         /\ t.rets = s.rets /\ t.vals = s.vals /\ t.verdict = s.verdict
  BY DEF IsSource, Enter

\* A block that ends takes its scope along.
LEMMA LeaveFacts ==
  ASSUME NEW s, IsSource(s), NEW t, t = Leave(s)
  PROVE  /\ IsSource(t) /\ t.scopes = Front(s.scopes)
         /\ t.rets = s.rets /\ t.vals = s.vals /\ t.verdict = s.verdict
  BY DEF IsSource, Leave

\* The result of an expression statement is dropped.
LEMMA DiscardFacts ==
  ASSUME NEW s, IsSource(s), NEW t, t = Discard(s)
  PROVE  /\ IsSource(t) /\ t.scopes = s.scopes /\ t.rets = s.rets /\ t.vals = <<>>
         /\ t.verdict = s.verdict
  BY DEF IsSource, Discard

\* Only the first return counts.
LEMMA ReturnFacts ==
  ASSUME NEW s, IsSource(s), NEW t, t = Return(s)
  PROVE  /\ IsSource(t) /\ t.scopes = s.scopes /\ t.vals = <<>> /\ t.verdict = s.verdict
         /\ t.rets = [s.rets EXCEPT ![Len(s.rets)] = IF @ = Undef THEN s.vals[1] ELSE @]
  BY DEF IsSource, Return

\* The scope with one more declaration; the scopes after a declaration, and
\* after an assignment.
With(scope, n, d) == [m \in DOMAIN scope \cup {n} |-> IF m = n THEN d ELSE scope[m]]
Declared(s, n, d) == [s.scopes EXCEPT ![Len(s.scopes)] = With(s.scopes[Len(s.scopes)], n, d)]
Assigned(s, n)    == [s.scopes EXCEPT ![Max(ScopesOf(s, n))][n].val = s.vals[1]]

\* A definition touches the innermost scope alone.
LEMMA DeclareFacts ==
  ASSUME NEW s, IsSource(s), NEW n, NEW k, NEW v, NEW t, t = Declare(s, n, k, v)
  PROVE  /\ IsSource(t) /\ t.vals = <<>> /\ t.rets = s.rets /\ t.verdict = s.verdict
         /\ t.scopes = Declared(s, n, Decl(k, v))
<1> DEFINE x == Declared(s, n, Decl(k, v))
<1>1. t = [s EXCEPT !.vals = <<>>, !.scopes = x]
  BY DEF Declare, Declared, With
<1> HIDE DEF x
<1>2. IsSource(t) /\ t.vals = <<>> /\ t.rets = s.rets /\ t.verdict = s.verdict /\ t.scopes = x
  BY <1>1 DEF IsSource
<1> QED BY <1>2 DEF x

\* An assignment touches the scope of the definition it finds.
LEMMA AssignFacts ==
  ASSUME NEW s, IsSource(s), NEW n, NEW t, t = Assign(s, n)
  PROVE  /\ IsSource(t) /\ t.vals = <<>> /\ t.rets = s.rets /\ t.verdict = s.verdict
         /\ t.scopes = Assigned(s, n)
<1> DEFINE x == Assigned(s, n)
<1>1. t = [s EXCEPT !.vals = <<>>, !.scopes = x]
  BY DEF Assign, Assigned
<1> HIDE DEF x
<1>2. IsSource(t) /\ t.vals = <<>> /\ t.rets = s.rets /\ t.verdict = s.verdict /\ t.scopes = x
  BY <1>1 DEF IsSource
<1> QED BY <1>2 DEF x

\* A name may be defined once in a scope.
LEMMA CheckFreshFacts ==
  ASSUME NEW s, IsSource(s), NEW n, NEW t, t = CheckFresh(s, n)
  PROVE  /\ IsSource(t) /\ t.scopes = s.scopes /\ t.vals = s.vals /\ t.rets = s.rets
         /\ t.verdict = IF s.verdict = "legal" /\ InCurrent(s, n) THEN "redeclared" ELSE s.verdict
<1>1. InCurrent(s, n) \in BOOLEAN
  BY DEF InCurrent
<1> QED BY <1>1, JudgeFacts DEF CheckFresh

\* A definition without an initial value checks its name and declares it.
LEMMA DeclareFreshFacts ==
  ASSUME NEW s, IsSource(s), NEW n, NEW t, t = Declare(CheckFresh(s, n), n, "var", Undef)
  PROVE  /\ IsSource(t) /\ t.vals = <<>> /\ t.rets = s.rets
         /\ t.scopes = Declared(s, n, Decl("var", Undef))
         /\ t.verdict = IF s.verdict = "legal" /\ InCurrent(s, n) THEN "redeclared" ELSE s.verdict
<1> DEFINE u == CheckFresh(s, n)
<1>1. /\ IsSource(u) /\ u.scopes = s.scopes /\ u.rets = s.rets
      /\ u.verdict = IF s.verdict = "legal" /\ InCurrent(s, n) THEN "redeclared" ELSE s.verdict
  BY CheckFreshFacts
<1>2. t = Declare(u, n, "var", Undef)
  OBVIOUS
<1> HIDE DEF u
<1>3. /\ IsSource(t) /\ t.vals = <<>> /\ t.rets = u.rets /\ t.verdict = u.verdict
      /\ t.scopes = Declared(u, n, Decl("var", Undef))
  BY <1>1, <1>2, DeclareFacts
<1> QED BY <1>1, <1>3 DEF Declared

\* Only a variable may be assigned.
LEMMA CheckTargetFacts ==
  ASSUME NEW s, IsSource(s), NEW n, NEW t, t = CheckTarget(s, n)
  PROVE  /\ IsSource(t) /\ t.scopes = s.scopes /\ t.vals = s.vals /\ t.rets = s.rets
         /\ t.verdict = IF s.verdict # "legal" THEN s.verdict
                        ELSE IF Meaning(s, n).kind = "const" THEN "assign_const"
                        ELSE IF Meaning(s, n).kind = "none" THEN "undeclared" ELSE "legal"
<1> DEFINE const == Meaning(s, n).kind = "const"
           none  == Meaning(s, n).kind = "none"
           u     == Judge(s, "assign_const", const)
<1>1. t = Judge(u, "undeclared", none) /\ const \in BOOLEAN /\ none \in BOOLEAN
  BY DEF CheckTarget
<1> HIDE DEF const, none
<1>2. /\ IsSource(u) /\ u.scopes = s.scopes /\ u.vals = s.vals /\ u.rets = s.rets
      /\ u.verdict = IF s.verdict = "legal" /\ const THEN "assign_const" ELSE s.verdict
  BY <1>1, JudgeFacts
<1> HIDE DEF u
<1>3. /\ IsSource(t) /\ t.scopes = u.scopes /\ t.vals = u.vals /\ t.rets = u.rets
      /\ t.verdict = IF u.verdict = "legal" /\ none THEN "undeclared" ELSE u.verdict
  BY <1>1, <1>2, JudgeFacts
<1> QED BY <1>2, <1>3 DEF const, none

\* A name in an expression must have a value.
LEMMA UseFacts ==
  ASSUME NEW s, IsSource(s), NEW n, NEW t, t = Use(s, n)
  PROVE  /\ IsSource(t) /\ t.scopes = s.scopes /\ t.rets = s.rets
         /\ t.vals = Append(s.vals, Meaning(s, n).val)
         /\ t.verdict = IF s.verdict # "legal" THEN s.verdict
                        ELSE IF Meaning(s, n).kind = "none" THEN "undefined"
                        ELSE IF Meaning(s, n) = Decl("var", Undef) THEN "uninitialized" ELSE "legal"
<1> DEFINE none  == Meaning(s, n).kind = "none"
           undef == Meaning(s, n) = Decl("var", Undef)
           u     == Judge(s, "undefined", none)
           w     == Judge(u, "uninitialized", undef)
<1>2. t = Push(w, Meaning(s, n).val) /\ none \in BOOLEAN /\ undef \in BOOLEAN
  BY DEF Use
<1> HIDE DEF none, undef
<1>1. /\ IsSource(u) /\ u.scopes = s.scopes /\ u.vals = s.vals /\ u.rets = s.rets
      /\ u.verdict = IF s.verdict = "legal" /\ none THEN "undefined" ELSE s.verdict
  BY <1>2, JudgeFacts
<1> HIDE DEF u
<1>3. /\ IsSource(w) /\ w.scopes = u.scopes /\ w.vals = u.vals /\ w.rets = u.rets
      /\ w.verdict = IF u.verdict = "legal" /\ undef THEN "uninitialized" ELSE u.verdict
  BY <1>1, <1>2, JudgeFacts
<1> HIDE DEF w
<1>4. /\ IsSource(t) /\ t.scopes = w.scopes /\ t.vals = Append(w.vals, Meaning(s, n).val)
      /\ t.rets = w.rets /\ t.verdict = w.verdict
  BY <1>2, <1>3, PushFacts
<1> QED BY <1>1, <1>3, <1>4 DEF none, undef

\* A name in a constant expression must be a constant.
LEMMA UseConstFacts ==
  ASSUME NEW s, IsSource(s), NEW n, NEW t, t = UseConst(s, n)
  PROVE  /\ IsSource(t) /\ t.scopes = s.scopes /\ t.rets = s.rets
         /\ t.vals = Append(s.vals, Meaning(s, n).val)
         /\ t.verdict = IF s.verdict = "legal" /\ Meaning(s, n).kind # "const"
                        THEN "not_constant" ELSE s.verdict
<1> DEFINE bad == Meaning(s, n).kind # "const"
           u   == Judge(s, "not_constant", bad)
<1>2. t = Push(u, Meaning(s, n).val) /\ bad \in BOOLEAN
  BY DEF UseConst
<1> HIDE DEF bad
<1>1. /\ IsSource(u) /\ u.scopes = s.scopes /\ u.vals = s.vals /\ u.rets = s.rets
      /\ u.verdict = IF s.verdict = "legal" /\ bad THEN "not_constant" ELSE s.verdict
  BY <1>2, JudgeFacts
<1> HIDE DEF u
<1>3. /\ IsSource(t) /\ t.scopes = u.scopes /\ t.vals = Append(u.vals, Meaning(s, n).val)
      /\ t.rets = u.rets /\ t.verdict = u.verdict
  BY <1>1, <1>2, PushFacts
<1> QED BY <1>1, <1>3 DEF bad

\* A negation that overflows is a fault of a build with checks.
LEMMA UnaryConstantFacts ==
  ASSUME NEW s, IsSource(s), NEW op, NEW t, t = UnaryConstant(s, op)
  PROVE  /\ IsSource(t) /\ t.scopes = s.scopes /\ t.rets = s.rets
         /\ t.vals = Unary(s, op).vals
         /\ t.verdict = IF /\ s.verdict = "legal"
                           /\ op = "Minus" /\ OverflowChecks /\ -Last(s.vals) \notin Int32
                        THEN "overflow" ELSE s.verdict
<1> DEFINE u   == Unary(s, op)
           bad == op = "Minus" /\ OverflowChecks /\ -Last(s.vals) \notin Int32
<1>1. IsSource(u) /\ u.scopes = s.scopes /\ u.rets = s.rets /\ u.verdict = s.verdict
  BY ReplaceLastFacts DEF Unary
<1>2. t = Judge(u, "overflow", bad) /\ bad \in BOOLEAN
  BY DEF UnaryConstant
<1> HIDE DEF u
<1>3. /\ IsSource(t) /\ t.scopes = u.scopes /\ t.vals = u.vals /\ t.rets = u.rets
      /\ t.verdict = IF u.verdict = "legal" /\ bad THEN "overflow" ELSE u.verdict
  <2> HIDE DEF bad
  <2> QED BY <1>1, <1>2, JudgeFacts
<1> QED BY <1>1, <1>3 DEF u

\* The fault of a constant expression's operator.
Fault(op, l, r) ==
  IF op \in {"Div", "Mod"} /\ r = 0 THEN "div_zero"
  ELSE IF Overflows(op, l, r) THEN "overflow" ELSE "legal"

\* An operation of a constant expression is judged by its operands.
LEMMA BinaryConstantFacts ==
  ASSUME NEW s, IsSource(s), NEW op, NEW t, t = BinaryConstant(s, op)
  PROVE  /\ IsSource(t) /\ t.scopes = s.scopes /\ t.rets = s.rets
         /\ t.vals = Binary(s, op).vals
         /\ t.verdict = IF s.verdict = "legal"
                        THEN Fault(op, s.vals[Len(s.vals) - 1], Last(s.vals)) ELSE s.verdict
<1> DEFINE l    == s.vals[Len(s.vals) - 1]
           r    == Last(s.vals)
           u    == Binary(s, op)
           zero == op \in {"Div", "Mod"} /\ r = 0
           w    == Judge(u, "div_zero", zero)
<1>1. IsSource(u) /\ u.scopes = s.scopes /\ u.rets = s.rets /\ u.verdict = s.verdict
  BY ReplaceLastFacts DEF Binary
<1>2. t = Judge(w, "overflow", Overflows(op, l, r)) /\ zero \in BOOLEAN
  BY DEF BinaryConstant
<1>3. Overflows(op, l, r) \in BOOLEAN
  BY I32Assumption DEF Overflows
<1> HIDE DEF u, zero, l, r
<1>4. /\ IsSource(w) /\ w.scopes = u.scopes /\ w.vals = u.vals /\ w.rets = u.rets
      /\ w.verdict = IF u.verdict = "legal" /\ zero THEN "div_zero" ELSE u.verdict
  BY <1>1, <1>2, JudgeFacts
<1> HIDE DEF w
<1>5. /\ IsSource(t) /\ t.scopes = w.scopes /\ t.vals = w.vals /\ t.rets = w.rets
      /\ t.verdict = IF w.verdict = "legal" /\ Overflows(op, l, r) THEN "overflow" ELSE w.verdict
  BY <1>2, <1>3, <1>4, JudgeFacts
<1>6. Fault(op, l, r) = IF zero THEN "div_zero"
                        ELSE IF Overflows(op, l, r) THEN "overflow" ELSE "legal"
  BY DEF Fault, zero
<1>7. t.verdict = IF s.verdict = "legal" THEN Fault(op, l, r) ELSE s.verdict
  BY <1>1, <1>4, <1>5, <1>6
<1> QED BY <1>1, <1>4, <1>5, <1>7 DEF u, l, r

\* Once a name that is not a constant has been overlooked, no other fault counts.
LEMMA FaultStays ==
  ASSUME IsSource(src), SimNext
  PROVE  KeepsFault(src, src')
<1>1. CASE SimFunctions
  BY <1>1, EnterFunctionFacts, LeaveFacts DEF SimFunctions, Records, KeepsFault
<1>2. CASE SimItems
  <2>1. CASE (BeginBlock /\ Records(Enter(src))) \/ (EndBlock /\ Records(Leave(src)))
    BY <2>1, EnterFacts, LeaveFacts DEF Records, KeepsFault
  <2>2. ASSUME NEW n \in Names,
               \/ Records(CheckFresh(src, n)) \/ Records(CheckTarget(src, n))
               \/ Records(Declare(CheckFresh(src, n), n, "var", Undef))
        PROVE  KeepsFault(src, src')
    <3>1. CASE Records(CheckFresh(src, n))
      BY <3>1, CheckFreshFacts DEF Records, KeepsFault
    <3>2. CASE Records(CheckTarget(src, n))
      BY <3>2, CheckTargetFacts DEF Records, KeepsFault
    <3>3. CASE Records(Declare(CheckFresh(src, n), n, "var", Undef))
      <4>1. src' = Declare(CheckFresh(src, n), n, "var", Undef)
        BY <3>3 DEF Records
      <4>2. /\ IsSource(src')
            /\ src'.verdict = IF src.verdict = "legal" /\ InCurrent(src, n)
                              THEN "redeclared" ELSE src.verdict
        BY <4>1, DeclareFreshFacts
      <4> QED BY <4>2 DEF KeepsFault
    <3> QED BY <2>2, <3>1, <3>2, <3>3
  <2>3. CASE Records(src) \/ Records(Return(src)) \/ Records(Discard(src))
    BY <2>3, ReturnFacts, DiscardFacts DEF Records, KeepsFault
  <2>4. ASSUME NEW n, NEW kind, NEW v, Records(Declare(src, n, kind, v)) \/ Records(Assign(src, n))
        PROVE  KeepsFault(src, src')
    <3>1. src' = Declare(src, n, kind, v) \/ src' = Assign(src, n)
      BY <2>4 DEF Records
    <3>2. CASE src' = Declare(src, n, kind, v)
      <4>1. IsSource(src') /\ src'.verdict = src.verdict
        BY <3>2, DeclareFacts
      <4> QED BY <4>1 DEF KeepsFault
    <3>3. CASE src' = Assign(src, n)
      BY <3>3, AssignFacts DEF KeepsFault
    <3> QED BY <3>1, <3>2, <3>3
  <2> QED BY <1>2, <2>1, <2>2, <2>3, <2>4 DEF SimItems
<1>3. CASE SimExps
  <2>1. CASE \E c \in Literals : Records(Push(src, c))
    BY <2>1, PushFacts DEF Records, KeepsFault
  <2>2. CASE \E n \in Names : Records(Use(src, n)) \/ Records(UseConst(src, n))
    BY <2>2, UseFacts, UseConstFacts DEF Records, KeepsFault
  <2>3. CASE \E op : Records(Unary(src, op)) \/ Records(Binary(src, op))
    BY <2>3, ReplaceLastFacts DEF Records, KeepsFault, Unary, Binary
  <2>4. CASE \E op : Records(UnaryConstant(src, op)) \/ Records(BinaryConstant(src, op))
    BY <2>4, UnaryConstantFacts, BinaryConstantFacts DEF Records, KeepsFault
  <2> QED BY <1>3, <2>1, <2>2, <2>3, <2>4 DEF SimExps
<1> QED BY <1>1, <1>2, <1>3 DEF SimNext

-----------------------------------------------------------------------------
(* The machine executes what is emitted.                                   *)

\* Undef is a number that no i32 is.
LEMMA UndefFacts == Undef \in Int /\ Undef \notin Int32 /\ Int32 \subseteq Int
  BY I32Range DEF Undef, Int32

\* Without code the machine stands still.
LEMMA RecordsQuiet ==
  ASSUME Inv, NEW m, Records(m), UNCHANGED funcs
  PROVE  src' = m /\ machine' = machine
<1>1. ~(Len(funcs') > Len(funcs))
  BY LenProperties DEF Inv, TypeInv
<1> QED BY <1>1 DEF Records

\* What an instruction does depends on its code alone, not on its users.
LEMMA ExecuteSame ==
  ASSUME NEW a, NEW b, SameCode(a, b), NEW mc, NEW bw
  PROVE  Execute(mc, a, bw) = Execute(mc, b, bw)
  BY DEF SameCode, Execute

\* insert_instruction, which does not panic, and the machine's step.
LEMMA EmitExecutes ==
  ASSUME Inv, NoInternalPanic', status = "run", open > 0, NEW inst \in InstData, Emit(inst),
         NEW m, Records(m)
  PROVE  /\ src' = m /\ machine' = Execute(machine, inst, BitwiseLogic)
         /\ status' = "run" /\ Len(funcs') = Len(funcs) /\ Len(funcs) \in Nat \ {0}
         /\ Top'.next_inst_id = Top.next_inst_id + 1
<1> DEFINE k  == Len(funcs)
           g  == InsertInst(Top, inst)
           id == Top.next_inst_id
<1>1. CanInsert(stack, funcs, inst)
  BY DEF Emit, NoInternalPanic
<1>2. status' = "run" /\ funcs' = [funcs EXCEPT ![k] = g]
  BY <1>1, InBlock DEF Emit, InsertInstruction, Top
<1>3. g \in FuncSet /\ Grown(Top, g, inst) /\ id \in Nat
  BY InBlock, InsertInstIsFunc, InsertGrows
<1>4. funcs \in Seq(FuncSet) /\ k \in 1 .. Len(funcs) /\ k \in Nat \ {0}
  BY InBlock DEF Inv, TypeInv
<1> HIDE DEF g
<1>5. Len(funcs') = k /\ funcs'[k] = g
  BY <1>2, <1>3, <1>4, ExceptSeq
<1>6. g.next_inst_id = id + 1 /\ SameCode(g.inst_map[id], inst)
  BY <1>3 DEF Grown, Entry
<1>7. funcs' # funcs /\ funcs'[k].next_inst_id # id /\ funcs[k] = Top
  BY <1>3, <1>5, <1>6 DEF Top
<1>8. src' = m /\ machine' = Execute(machine, g.inst_map[id], BitwiseLogic)
  <2>1. funcs[Len(funcs)].next_inst_id = id /\ ~(Len(funcs') > Len(funcs))
    BY <1>4, <1>5, <1>7
  <2> HIDE DEF id
  <2> QED BY <1>5, <1>7, <2>1 DEF Records
<1>9. Execute(machine, g.inst_map[id], BitwiseLogic) = Execute(machine, inst, BitwiseLogic)
  BY <1>6, ExecuteSame
<1> QED BY <1>2, <1>4, <1>5, <1>6, <1>8, <1>9 DEF Top

\* What is known of the machine after a step with result v that leaves the
\* memory alone.
Gives(mc, t, v) ==
  /\ t \in Machines
  /\ t.vals = Append(mc.vals, v) /\ t.mem = mc.mem /\ t.ret = mc.ret

\* A machine that appends v to its values gives v.
LEMMA ResultFacts ==
  ASSUME NEW mc \in Machines, NEW v \in Int, NEW t, t = [mc EXCEPT !.vals = Append(@, v)]
  PROVE  Gives(mc, t, v)
<1>1. Append(mc.vals, v) \in Seq(Int)
  BY AppendProperties DEF Machines
<1> QED BY <1>1 DEF Machines, Gives

\* A LOAD gives what it reads, a binary instruction what it computes.
LEMMA ExecuteValue ==
  ASSUME NEW mc \in Machines, NEW inst, NEW bw, NEW v \in Int,
         \/ inst.opcode = "LOAD" /\ v = Read(mc, inst.operands[1])
         \/ /\ inst.opcode \in Builder!Binary
            /\ v = Compute(inst.opcode, bw, Read(mc, inst.operands[1]), Read(mc, inst.operands[2]))
  PROVE  Gives(mc, Execute(mc, inst, bw), v)
<1>1. "ALLOC" \notin Builder!Binary /\ "STORE" \notin Builder!Binary
      /\ "RET" \notin Builder!Binary /\ "LOAD" \notin Builder!Binary
  BY DEF Builder!Binary, Builder!ValueOps
<1>2. Execute(mc, inst, bw) = [mc EXCEPT !.vals = Append(@, v)]
  BY <1>1 DEF Execute
<1> QED BY <1>2, ResultFacts

\* An ALLOC adds an undefined cell and keeps all others.
LEMMA ExecuteAlloc ==
  ASSUME NEW mc \in Machines, NEW inst, NEW bw, inst.opcode = "ALLOC", inst.ir_obj.val \in Nat,
         NEW t, t = Execute(mc, inst, bw)
  PROVE  /\ t \in Machines
         /\ t.vals = Append(mc.vals, Undef) /\ t.ret = mc.ret
         /\ DOMAIN t.mem = DOMAIN mc.mem \cup {inst.ir_obj.val}
         /\ \A p \in DOMAIN t.mem : t.mem[p] = IF p = inst.ir_obj.val THEN Undef ELSE mc.mem[p]
<1> DEFINE x   == [p \in DOMAIN mc.mem \cup {inst.ir_obj.val} |->
                     IF p = inst.ir_obj.val THEN Undef ELSE mc.mem[p]]
           new == Append(mc.vals, Undef)
<1>1. x \in Memories
  <2>1. PICK P \in SUBSET Nat : mc.mem \in [P -> Int]
    BY DEF Machines, Memories
  <2>2. x \in [P \cup {inst.ir_obj.val} -> Int]
    BY <2>1, UndefFacts
  <2> HIDE DEF x
  <2> QED BY <2>2 DEF Memories
<1>2. new \in Seq(Int)
  BY UndefFacts, AppendProperties DEF Machines
<1>3. t = [[mc EXCEPT !.vals = new] EXCEPT !.mem = x]
  BY DEF Execute, Machines
<1>4. DOMAIN x = DOMAIN mc.mem \cup {inst.ir_obj.val}
      /\ \A p \in DOMAIN x : x[p] = IF p = inst.ir_obj.val THEN Undef ELSE mc.mem[p]
  OBVIOUS
<1> HIDE DEF x, new
<1>5. t \in Machines /\ t.vals = new /\ t.ret = mc.ret /\ t.mem = x
  BY <1>1, <1>2, <1>3 DEF Machines
<1> QED BY <1>4, <1>5 DEF new

\* A STORE changes the cell of its pointer alone.
LEMMA ExecuteStore ==
  ASSUME NEW mc \in Machines, NEW inst, NEW bw, inst.opcode = "STORE",
         NEW v \in Int, v = Read(mc, inst.operands[1]),
         NEW p, p = inst.operands[2].val, NEW t, t = Execute(mc, inst, bw)
  PROVE  /\ t \in Machines
         /\ t.vals = Append(mc.vals, Undef) /\ t.ret = mc.ret
         /\ DOMAIN t.mem = DOMAIN mc.mem
         /\ \A q \in DOMAIN mc.mem : t.mem[q] = IF q = p THEN v ELSE mc.mem[q]
<1> DEFINE x   == [mc.mem EXCEPT ![p] = v]
           new == Append(mc.vals, Undef)
<1>1. x \in Memories /\ DOMAIN x = DOMAIN mc.mem
      /\ \A q \in DOMAIN mc.mem : x[q] = IF q = p THEN v ELSE mc.mem[q]
  <2>1. PICK P \in SUBSET Nat : mc.mem \in [P -> Int]
    BY DEF Machines, Memories
  <2>2. x \in [P -> Int]
    BY <2>1
  <2> QED BY <2>1, <2>2 DEF Memories
<1>2. new \in Seq(Int)
  BY UndefFacts, AppendProperties DEF Machines
<1>3. t = [[mc EXCEPT !.vals = new] EXCEPT !.mem = x]
  BY DEF Execute, Machines
<1> HIDE DEF x, new
<1>4. t \in Machines /\ t.vals = new /\ t.ret = mc.ret /\ t.mem = x
  BY <1>1, <1>2, <1>3 DEF Machines
<1> QED BY <1>1, <1>4 DEF new

\* Only the first RET decides what is returned.
LEMMA ExecuteRet ==
  ASSUME NEW mc \in Machines, NEW inst, NEW bw, inst.opcode = "RET",
         NEW v \in Int, v = Read(mc, inst.operands[1]), NEW t, t = Execute(mc, inst, bw)
  PROVE  /\ t \in Machines
         /\ t.vals = Append(mc.vals, Undef) /\ t.mem = mc.mem
         /\ t.ret = IF mc.ret = Undef THEN v ELSE mc.ret
<1> DEFINE new == Append(mc.vals, Undef)
           x   == IF mc.ret = Undef THEN v ELSE mc.ret
<1>1. new \in Seq(Int) /\ x \in Int
  BY UndefFacts, AppendProperties DEF Machines
<1>2. t = [[mc EXCEPT !.vals = new] EXCEPT !.ret = x]
  BY DEF Execute, Machines
<1> HIDE DEF new
<1> QED BY <1>1, <1>2 DEF Machines, new

\* Results that were there before keep their value.
LEMMA OlderValue ==
  ASSUME NEW mc \in Machines, NEW t, NEW v \in Int, t.vals = Append(mc.vals, v),
         NEW obj, obj.kind = "Const" \/ obj.val + 1 \in 1 .. Len(mc.vals)
  PROVE  ValueIn(t, obj) = ValueIn(mc, obj)
<1>1. mc.vals \in Seq(Int)
  BY DEF Machines
<1>2. \A i \in 1 .. Len(mc.vals) : t.vals[i] = mc.vals[i]
  BY <1>1, AppendProperties
<1> QED BY <1>2 DEF ValueIn

-----------------------------------------------------------------------------
(* The outcomes of a step.                                                 *)

\* The compiler rejects the program for the fault it has.
LEMMA Rejects ==
  ASSUME status' \notin {"run", "ok"}, IsSource(src'),
         status' \in {"assign_const", "const_not"} \/ src'.verdict \in {status', "not_constant"}
  PROVE  SimInv'
  BY DEF SimInv, FaultsRejected, RejectionsJustified

\* It goes on although a name is not a constant.
LEMMA Overlooks ==
  ASSUME status' \in {"run", "ok"}, IsSource(src'), src'.verdict = "not_constant"
  PROVE  SimInv'
  BY DEF SimInv, FaultsRejected, RejectionsJustified, Rejections

\* It goes on and the two agree.
LEMMA GoesOn ==
  ASSUME status' = "run", IsSource(src'), src'.verdict = "legal", Agree'
  PROVE  SimInv'
  BY DEF SimInv, FaultsRejected, RejectionsJustified, Rejections

\* A source is put together from its fields.
LEMMA SourceFields ==
  ASSUME NEW s, IsSource(s), s.scopes \in Seq(DeclScopes), s.vals \in Seq(Int32),
         s.rets \in Seq(Int), s.verdict = "legal"
  PROVE  s \in SourceStates
  BY DEF IsSource, SourceStates

-----------------------------------------------------------------------------
(* Expressions.                                                            *)

\* t is s with v in the place of its last k elements.
Replaced(s, k, v, t) ==
  /\ Len(t) = Len(s) - k + 1 /\ t[Len(s) - k + 1] = v
  /\ \A i \in 1 .. Len(s) - k : t[i] = s[i]

\* Replaced describes the last k members becoming one.
LEMMA ReplaceIsReplaced ==
  ASSUME NEW S, NEW s \in Seq(S), NEW v \in S, NEW k \in 0 .. Len(s)
  PROVE  /\ Append(SubSeq(s, 1, Len(s) - k), v) \in Seq(S)
         /\ Replaced(s, k, v, Append(SubSeq(s, 1, Len(s) - k), v))
<1> DEFINE t == Append(SubSeq(s, 1, Len(s) - k), v)
           n == Len(s) - k
           u == SubSeq(s, 1, n)
<1>1. Len(s) \in Nat /\ n \in Nat /\ n <= Len(s) /\ \A i \in 1 .. Len(s) : s[i] \in S
  BY LenProperties, ElementOfSeq
<1> HIDE DEF n
<1>2. u \in Seq(S) /\ Len(u) = n /\ \A i \in 1 .. n : u[i] = s[i]
  <2>1. \A i \in 1 .. n : s[i] \in S
    BY <1>1
  <2>2. u \in Seq(S) /\ Len(u) = (IF 1 <= n THEN n - 1 + 1 ELSE 0)
        /\ \A i \in 1 .. n - 1 + 1 : u[i] = s[1 + i - 1]
    BY <1>1, <2>1, SubSeqProperties
  <2> HIDE DEF u
  <2> QED BY <1>1, <2>2
<1>3. t = Append(u, v)
  BY DEF n
<1> HIDE DEF t, u
<1>4. t \in Seq(S) /\ Len(t) = n + 1
      /\ \A i \in 1 .. n + 1 : t[i] = IF i = n + 1 THEN v ELSE u[i]
  BY <1>2, <1>3, AppendProperties
<1>5. Len(t) = n + 1 /\ t[n + 1] = v /\ \A i \in 1 .. n : t[i] = s[i]
  BY <1>1, <1>2, <1>4
<1>6. t \in Seq(S) /\ Replaced(s, k, v, t)
  BY <1>4, <1>5 DEF Replaced, n
<1> QED BY <1>6 DEF t

\* Replaced describes an appended member, too.
LEMMA AppendIsReplaced ==
  ASSUME NEW S, NEW s \in Seq(S), NEW v \in S
  PROVE  Append(s, v) \in Seq(S) /\ Replaced(s, 0, v, Append(s, v))
<1> DEFINE t == Append(s, v)
<1>1. /\ Len(s) \in Nat /\ t \in Seq(S) /\ Len(t) = Len(s) + 1
      /\ \A i \in 1 .. Len(s) : t[i] = s[i]
      /\ t[Len(s) + 1] = v
  BY AppendProperties, LenProperties
<1> HIDE DEF t
<1>2. t \in Seq(S) /\ Replaced(s, 0, v, t)
  BY <1>1 DEF Replaced
<1> QED BY <1>2 DEF t

\* What is known while a legal program is being compiled.
LEMMA CompilingFacts ==
  ASSUME Compiling
  PROVE  /\ Agree /\ src \in SourceStates /\ machine \in Machines /\ IsSource(src)
         /\ src.vals \in Seq(Int32) /\ src.scopes \in Seq(DeclScopes) /\ src.rets \in Seq(Int)
         /\ vals \in Seq(Results) /\ Len(vals) \in Nat /\ Len(src.vals) = Len(vals)
         /\ machine.vals \in Seq(Int) /\ Len(machine.vals) \in Nat
<1>1. Agree /\ IsSource(src)
  BY DEF Compiling, SimInv
<1>2. src \in SourceStates /\ machine \in Machines /\ Len(src.vals) = Len(vals)
  BY <1>1 DEF Agree, ValsAgree
<1>3. vals \in Seq(Results)
  BY DEF Compiling, Inv, TypeInv
<1> QED BY <1>1, <1>2, <1>3, LenProperties DEF SourceStates, Machines

\* A result that is held is a constant or has been computed.
LEMMA HeldValue ==
  ASSUME Compiling, open > 0, NEW i \in 1 .. Len(vals)
  PROVE  /\ vals[i] \in Results /\ vals[i].kind \in {"Const", "InstId"}
         /\ vals[i].kind = "Const" \/ vals[i].val + 1 \in 1 .. Len(machine.vals)
         /\ Read(machine, FromParseResult(vals[i])) = src.vals[i] /\ src.vals[i] \in Int32
<1>1. Inv /\ status = "run" /\ Agree /\ vals \in Seq(Results) /\ src.vals \in Seq(Int32)
      /\ Len(src.vals) = Len(vals)
  BY CompilingFacts DEF Compiling
<1>2. vals[i] \in Results /\ src.vals[i] \in Int32
  BY <1>1, ElementOfSeq
<1>3. DOMAIN Top.inst_map = 0 .. Top.next_inst_id - 1 /\ Top.next_inst_id \in Nat
      /\ Len(machine.vals) = Top.next_inst_id
  BY <1>1, InBlock DEF Agree, MachineRuns
<1>4. /\ vals[i].kind \in {"Const", "InstId"}
      /\ vals[i].kind = "Const" \/ vals[i].val + 1 \in 1 .. Len(machine.vals)
  BY <1>2, <1>3 DEF Results, IsResult, IsConst, Top
<1>5. ValueIn(machine, vals[i]) = src.vals[i]
  BY <1>1 DEF Agree, ValsAgree
<1> QED BY <1>2, <1>4, <1>5 DEF ValueIn, Read, FromParseResult

\* One result more, and perhaps some less.
LEMMA ReplacedValsAgree ==
  ASSUME Compiling, NEW k \in 0 .. Len(vals), NEW obj, NEW v,
         Replaced(vals, k, obj, vals'), Replaced(src.vals, k, v, src'.vals),
         ValueIn(machine', obj) = v,
         \A i \in 1 .. Len(vals) : ValueIn(machine', vals[i]) = ValueIn(machine, vals[i])
  PROVE  ValsAgree'
<1> DEFINE n == Len(vals) - k
<1>1. Len(vals) \in Nat /\ n \in Nat /\ n <= Len(vals) /\ Len(src.vals) = Len(vals)
      /\ \A i \in 1 .. Len(vals) : ValueIn(machine, vals[i]) = src.vals[i]
  BY CompilingFacts DEF Agree, ValsAgree
<1>2. /\ Len(vals') = n + 1 /\ vals'[n + 1] = obj /\ \A i \in 1 .. n : vals'[i] = vals[i]
      /\ Len(src'.vals) = n + 1 /\ src'.vals[n + 1] = v
      /\ \A i \in 1 .. n : src'.vals[i] = src.vals[i]
  BY <1>1 DEF Replaced
<1> HIDE DEF n
<1>3. ASSUME NEW i \in 1 .. n + 1 PROVE ValueIn(machine', vals'[i]) = src'.vals[i]
  <2>1. CASE i = n + 1
    BY <1>2, <2>1
  <2>2. CASE i # n + 1
    <3>1. i \in 1 .. n /\ i \in 1 .. Len(vals)
      BY <1>1, <2>2
    <3> QED BY <1>1, <1>2, <3>1
  <2> QED BY <2>1, <2>2
<1> QED BY <1>2, <1>3 DEF ValsAgree

\* A step of an expression that succeeds.
LEMMA ExpAgrees ==
  ASSUME Compiling, UNCHANGED <<stack, stmt>>, status' = "run", Len(funcs') = Len(funcs),
         IsSource(src'), src'.scopes = src.scopes, src'.rets = src.rets,
         src'.verdict = "legal", src'.vals \in Seq(Int32),
         machine' \in Machines, machine'.mem = machine.mem, machine'.ret = machine.ret,
         MachineRuns', ValsAgree'
  PROVE  SimInv'
<1>1. Agree /\ src.scopes \in Seq(DeclScopes) /\ src.rets \in Seq(Int)
  BY CompilingFacts
<1>2. src' \in SourceStates
  BY <1>1, SourceFields
<1>3. ScopesAgree' /\ OwnPointers(stack)' /\ StmtAgrees' /\ RetsAgree'
  BY <1>1 DEF Agree, ScopesAgree, OwnPointers, StmtAgrees, Unused, RetsAgree
<1>4. Agree'
  BY <1>2, <1>3 DEF Agree
<1> QED BY <1>4, GoesOn

\* A step of an expression that emits nothing.
LEMMA QuietExpAgrees ==
  ASSUME Compiling, UNCHANGED <<stack, stmt, funcs>>, status' = "run",
         NEW m, Records(m), IsSource(m), m.scopes = src.scopes, m.rets = src.rets,
         m.verdict = "legal", m.vals \in Seq(Int32),
         NEW k \in 0 .. Len(vals), NEW obj, NEW v,
         Replaced(vals, k, obj, vals'), Replaced(src.vals, k, v, m.vals),
         ValueIn(machine, obj) = v
  PROVE  SimInv'
<1>1. src' = m /\ machine' = machine
  BY RecordsQuiet DEF Compiling
<1>2. ValsAgree'
  BY <1>1, ReplacedValsAgree
<1>3. MachineRuns' /\ machine \in Machines
  BY <1>1, CompilingFacts DEF Agree, MachineRuns, Top
<1> QED BY <1>1, <1>2, <1>3, ExpAgrees

\* A step of an expression that emits an instruction.
LEMMA EmitValueAgrees ==
  ASSUME Compiling, NoInternalPanic', InVarExp,
         NEW opcode \in Builder!Binary \cup {"LOAD"}, NEW operands \in Seq(Operand),
         NEW k \in 0 .. Len(vals), EmitValue(opcode, operands, k), UNCHANGED <<stack, stmt>>,
         NEW m, Records(m), IsSource(m), m.scopes = src.scopes, m.rets = src.rets,
         m.verdict = "legal", m.vals \in Seq(Int32),
         NEW v \in Int32, Replaced(src.vals, k, v, m.vals),
         opcode = "LOAD" => v = Read(machine, operands[1]),
         opcode # "LOAD" =>
           v = Compute(opcode, BitwiseLogic, Read(machine, operands[1]), Read(machine, operands[2]))
  PROVE  SimInv'
<1> DEFINE result == InstIdObj(NextInstId(stack, funcs))
           inst   == Inst("Int", result, opcode, operands)
           id     == Top.next_inst_id
<1>1. Inv /\ status = "run" /\ open > 0 /\ vals \in Seq(Results)
  BY InExp DEF Compiling
<1>2. NextInstId(stack, funcs) = id /\ id \in Nat /\ Len(funcs) > 0
  BY <1>1, InBlock DEF NextInstId, Top
<1>3. result \in IRObj /\ result.kind = "InstId" /\ result.val = id
  BY <1>2 DEF InstIdObj, Obj, IRObj
<1>4. Emit(inst) /\ vals' = ReplaceTop(k, result)
  BY DEF EmitValue
<1>5. opcode \in KoopaOpCode /\ "Int" \in BType
  BY DEF Builder!Binary, Builder!ValueOps, ValueOps, KoopaOpCode, BType
<1> HIDE DEF result
<1>6. inst \in InstData /\ inst.opcode = opcode /\ inst.operands = operands
  BY <1>3, <1>5, BuiltInst
<1> HIDE DEF inst
<1>7. /\ src' = m /\ machine' = Execute(machine, inst, BitwiseLogic)
      /\ status' = "run" /\ Len(funcs') = Len(funcs) /\ Top'.next_inst_id = id + 1
  BY <1>1, <1>4, <1>6, EmitExecutes
<1>8. machine \in Machines /\ Len(machine.vals) = id /\ machine.vals \in Seq(Int)
  BY <1>2, CompilingFacts DEF Agree, MachineRuns
<1>9. v \in Int
  BY UndefFacts
<1>10. Gives(machine, machine', v)
  <2>1. \/ inst.opcode = "LOAD" /\ v = Read(machine, inst.operands[1])
        \/ /\ inst.opcode \in Builder!Binary
           /\ v = Compute(inst.opcode, BitwiseLogic,
                          Read(machine, inst.operands[1]), Read(machine, inst.operands[2]))
    BY <1>6
  <2> QED BY <1>7, <1>8, <1>9, <2>1, ExecuteValue
<1>11. /\ machine' \in Machines /\ machine'.vals = Append(machine.vals, v)
       /\ machine'.mem = machine.mem /\ machine'.ret = machine.ret
  BY <1>10 DEF Gives
<1>12. Len(machine'.vals) = id + 1 /\ machine'.vals[id + 1] = v
  BY <1>8, <1>9, <1>11, AppendProperties
<1>13. MachineRuns'
  BY <1>7, <1>12 DEF MachineRuns
<1>14. ValueIn(machine', result) = v
  BY <1>3, <1>12 DEF ValueIn
<1>15. \A i \in 1 .. Len(vals) : ValueIn(machine', vals[i]) = ValueIn(machine, vals[i])
  BY <1>1, <1>8, <1>9, <1>11, HeldValue, OlderValue
<1>16. Replaced(vals, k, result, vals')
  <2> DEFINE S == Results \cup {result}
  <2>1. vals \in Seq(S) /\ result \in S
    BY <1>1, SeqMonotonic
  <2>2. vals' = Append(SubSeq(vals, 1, Len(vals) - k), result)
    BY <1>4 DEF ReplaceTop
  <2> HIDE DEF S
  <2>3. Replaced(vals, k, result, Append(SubSeq(vals, 1, Len(vals) - k), result))
    BY <2>1, ReplaceIsReplaced
  <2> QED BY <2>2, <2>3
<1>17. ValsAgree'
  BY <1>7, <1>14, <1>15, <1>16, ReplacedValsAgree
<1> QED BY <1>7, <1>11, <1>13, <1>17, ExpAgrees

\* A number.
LEMMA NumberAgrees ==
  ASSUME Compiling, NEW c \in Literals, Number(c), NEW m, m = Push(src, c), Records(m)
  PROVE  SimInv'
<1>1. /\ IsSource(src) /\ src.verdict = "legal" /\ status = "run" /\ src.vals \in Seq(Int32)
      /\ vals \in Seq(Results) /\ Len(vals) \in Nat
  BY CompilingFacts DEF Compiling
<1>2. c \in Int32
  BY I32Range, IRGenAssumption DEF Int32
<1>3. ConstObj(c) \in Results
  BY <1>2, ConstObjIsConst DEF Consts, Results, IsResult
<1>4. /\ IsSource(m) /\ m.scopes = src.scopes /\ m.vals = Append(src.vals, c)
      /\ m.rets = src.rets /\ m.verdict = "legal"
  BY <1>1, PushFacts
<1>5. m.vals \in Seq(Int32) /\ Replaced(src.vals, 0, c, m.vals)
  BY <1>1, <1>2, <1>4, AppendIsReplaced
<1>6. vals' = Append(vals, ConstObj(c)) /\ UNCHANGED <<stack, stmt, funcs>> /\ status' = "run"
  BY <1>1 DEF Number
<1>7. Replaced(vals, 0, ConstObj(c), vals')
  BY <1>1, <1>3, <1>6, AppendIsReplaced
<1>8. ValueIn(machine, ConstObj(c)) = c /\ 0 \in 0 .. Len(vals)
  BY <1>1 DEF ValueIn, ConstObj, Obj
<1> QED BY <1>4, <1>5, <1>6, <1>7, <1>8, QuietExpAgrees

\* The tables and the scopes know the same names.
LEMMA SameScopes ==
  ASSUME Compiling, open > 0, NEW n
  PROVE  /\ ScopesOf(src, n) = ConstScopes(stack, n) \cup PointerScopes(stack, n)
         /\ ScopesOf(src, n) \in SUBSET (1 .. Len(stack)) /\ Len(stack) \in Nat
         /\ DOMAIN stack = 1 .. Len(stack)
<1>1. ScopesAgree /\ src.scopes \in Seq(DeclScopes)
  BY CompilingFacts DEF Agree
<1>2. stack \in Seq(Contexts)
  BY InBlock DEF Compiling
<1>3. DOMAIN stack = 1 .. Len(stack) /\ Len(stack) \in Nat /\ DOMAIN src.scopes = 1 .. Len(stack)
  BY <1>1, <1>2, LenProperties DEF ScopesAgree
<1>4. \A i \in 1 .. Len(stack) :
        DOMAIN src.scopes[i] = DOMAIN stack[i].global_const_table
                                 \cup DOMAIN stack[i].global_pointer_table
  BY <1>1 DEF ScopesAgree, ScopeAgrees
<1> QED BY <1>3, <1>4 DEF ScopesOf, ConstScopes, PointerScopes

\* What a name means to the compiler and in the source.
LEMMA SameMeaning ==
  ASSUME Compiling, open > 0, NEW n,
         NEW obj, obj = FindHighestPriority(stack, n), NEW d, d = Meaning(src, n)
  PROVE  \/ obj.kind = "None"    /\ d = Decl("none", Undef) /\ ScopesOf(src, n) = {}
         \/ obj.kind = "Const"   /\ obj \in Consts   /\ d = Decl("const", obj.val)
                                 /\ Max(ScopesOf(src, n)) \in ConstScopes(stack, n)
                                 /\ obj = stack[Max(ScopesOf(src, n))].global_const_table[n]
         \/ obj.kind = "Pointer" /\ obj \in Pointers /\ CellHolds(machine.mem, obj, d)
                                 /\ Max(ScopesOf(src, n)) \in PointerScopes(stack, n)
                                 /\ obj = stack[Max(ScopesOf(src, n))].global_pointer_table[n]
<1> DEFINE S == ScopesOf(src, n)
           i == Max(S)
<1>1. /\ S = ConstScopes(stack, n) \cup PointerScopes(stack, n)
      /\ S \in SUBSET (1 .. Len(stack)) /\ Len(stack) \in Nat /\ DOMAIN stack = 1 .. Len(stack)
  BY SameScopes
<1>2. ScopesAgree
  BY CompilingFacts DEF Agree
<1>3. obj = IF S = {} THEN NoObj
            ELSE IF n \in DOMAIN stack[i].global_pointer_table
                 THEN stack[i].global_pointer_table[n] ELSE stack[i].global_const_table[n]
  BY <1>1 DEF FindHighestPriority
<1>4. d = IF S = {} THEN Decl("none", Undef) ELSE src.scopes[i][n]
  BY DEF Meaning
<1>5. CASE S = {}
  BY <1>3, <1>4, <1>5, NoObjFacts
<1>6. CASE S # {}
  <2>1. i \in S /\ i \in 1 .. Len(stack)
    <3> HIDE DEF S
    <3> QED BY <1>1, <1>6, MaxIsLargest
  <2> HIDE DEF S, i
  <2>2. ScopeAgrees(stack[i], src.scopes[i], machine.mem)
    BY <1>2, <2>1 DEF ScopesAgree
  <2>3. /\ stack[i].global_const_table \in TableSet(Consts)
        /\ stack[i].global_pointer_table \in TableSet(Pointers)
    <3>1. stack[i] \in ContextSet(1 .. Len(funcs), Consts, Pointers)
      BY <2>1, InBlock, ElementOfSeq DEF Contexts, Compiling
    <3> QED BY <3>1 DEF ContextSet
  <2>4. CASE n \in DOMAIN stack[i].global_pointer_table
    <3>1. obj = stack[i].global_pointer_table[n]
      BY <1>3, <1>6, <2>4
    <3>2. obj \in Pointers /\ obj.kind = "Pointer"
      BY <2>3, <2>4, <3>1 DEF TableSet, Pointers, IsPointer
    <3>3. CellHolds(machine.mem, obj, d)
      BY <1>4, <1>6, <2>2, <2>4, <3>1 DEF ScopeAgrees
    <3>4. i \in PointerScopes(stack, n)
      BY <1>1, <2>1, <2>4 DEF PointerScopes
    <3> QED BY <3>1, <3>2, <3>3, <3>4 DEF i, S
  <2>5. CASE n \notin DOMAIN stack[i].global_pointer_table
    <3>1. obj = stack[i].global_const_table[n]
      BY <1>3, <1>6, <2>5
    <3>2. i \in ConstScopes(stack, n) /\ n \in DOMAIN stack[i].global_const_table
      BY <1>1, <2>1, <2>5 DEF PointerScopes, ConstScopes
    <3>3. obj \in Consts /\ obj.kind = "Const"
      BY <2>3, <3>1, <3>2 DEF TableSet, Consts, IsConst
    <3>4. d = Decl("const", obj.val)
      BY <1>4, <1>6, <2>2, <3>1, <3>2 DEF ScopeAgrees
    <3> QED BY <3>1, <3>2, <3>3, <3>4 DEF i, S
  <2> QED BY <2>4, <2>5
<1> QED BY <1>5, <1>6
\* A name in an expression the program computes.
LEMMA LValVarAgrees ==
  ASSUME Compiling, NoInternalPanic', NEW n \in Names, LValVar(n),
         NEW m, m = Use(src, n), Records(m)
  PROVE  SimInv'
<1> DEFINE obj == FindHighestPriority(stack, n)
           d   == Meaning(src, n)
<1>1. /\ IsSource(src) /\ src.verdict = "legal" /\ status = "run" /\ src.vals \in Seq(Int32)
      /\ vals \in Seq(Results) /\ Len(vals) \in Nat /\ Len(src.vals) = Len(vals) /\ Inv
  BY CompilingFacts DEF Compiling
<1>2. open > 0 /\ UNCHANGED <<stack, stmt>> /\ InVarExp /\ 0 \in 0 .. Len(vals)
  BY <1>1, InExp DEF LValVar
<1>3. /\ IsSource(m) /\ m.scopes = src.scopes /\ m.rets = src.rets
      /\ m.vals = Append(src.vals, d.val)
      /\ m.verdict = IF d.kind = "none" THEN "undefined"
                     ELSE IF d = Decl("var", Undef) THEN "uninitialized" ELSE "legal"
  BY <1>1, UseFacts
<1>4. /\ src' = m
  BY DEF Records
<1>5. \/ /\ obj.kind = "Pointer" /\ ~obj.initialized
         /\ status' = "uninitialized"
      \/ /\ obj.kind = "Pointer" /\ obj.initialized
         /\ EmitValue("LOAD", <<FromParseResult(obj)>>, 0)
      \/ /\ obj.kind = "Const"
         /\ vals' = Append(vals, obj) /\ UNCHANGED <<funcs, status>>
      \/ /\ obj.kind = "None"
         /\ status' = "undefined"
  BY DEF LValVar
<1>6. \/ obj.kind = "None"    /\ d = Decl("none", Undef)
      \/ obj.kind = "Const"   /\ obj \in Consts   /\ d = Decl("const", obj.val)
      \/ obj.kind = "Pointer" /\ obj \in Pointers /\ CellHolds(machine.mem, obj, d)
  BY <1>2, SameMeaning
<1> HIDE DEF obj, d
<1>7. CASE obj.kind = "None"
  <2>1. status' = "undefined" /\ m.verdict = "undefined"
    BY <1>3, <1>5, <1>6, <1>7 DEF Decl
  <2> QED BY <1>3, <1>4, <2>1, Rejects
<1>8. CASE obj.kind = "Const"
  <2>1. m.verdict = "legal" /\ d.val = obj.val /\ obj \in Consts
    BY <1>3, <1>6, <1>8 DEF Decl
  <2>2. obj.val \in Int32 /\ obj \in Results /\ ValueIn(machine, obj) = obj.val
    BY <1>8, <2>1 DEF Consts, IsConst, Results, IsResult, ValueIn
  <2>3. vals' = Append(vals, obj) /\ UNCHANGED funcs /\ status' = "run"
    BY <1>1, <1>5, <1>8
  <2>4. m.vals \in Seq(Int32) /\ Replaced(src.vals, 0, obj.val, m.vals)
    BY <1>1, <1>3, <2>1, <2>2, AppendIsReplaced
  <2>5. Replaced(vals, 0, obj, vals')
    BY <1>1, <2>2, <2>3, AppendIsReplaced
  <2> QED BY <1>2, <1>3, <2>1, <2>2, <2>3, <2>4, <2>5, QuietExpAgrees
<1>9. CASE obj.kind = "Pointer" /\ ~obj.initialized
  <2>1. d = Decl("var", Undef)
    BY <1>6, <1>9 DEF CellHolds
  <2>2. status' = "uninitialized" /\ m.verdict = "uninitialized"
    BY <1>3, <1>5, <1>9, <2>1 DEF Decl
  <2> QED BY <1>3, <1>4, <2>2, Rejects
<1>10. CASE obj.kind = "Pointer" /\ obj.initialized
  <2>1. obj \in Pointers /\ d = Decl("var", machine.mem[obj.val]) /\ machine.mem[obj.val] \in Int32
    BY <1>6, <1>10 DEF CellHolds
  <2> DEFINE v == machine.mem[obj.val]
  <2>2. d.val = v /\ d.kind = "var" /\ d # Decl("var", Undef) /\ v \in Int32
    BY <2>1, UndefFacts DEF Decl
  <2> HIDE DEF v
  <2>3. m.verdict = "legal" /\ m.vals \in Seq(Int32) /\ Replaced(src.vals, 0, v, m.vals)
    BY <1>1, <1>3, <2>2, AppendIsReplaced
  <2>4. EmitValue("LOAD", <<FromParseResult(obj)>>, 0)
    BY <1>5, <1>10
  <2> DEFINE operands == <<FromParseResult(obj)>>
  <2>5. operands \in Seq(Operand) /\ v = Read(machine, operands[1])
    <3>1. Known(operands)
      BY <2>1, OtherOperands, KnownPair
    <3> QED BY <1>10, <3>1 DEF Known, Read, FromParseResult, v
  <2> HIDE DEF operands
  <2>6. EmitValue("LOAD", operands, 0) /\ "LOAD" \in Builder!Binary \cup {"LOAD"}
    BY <2>4 DEF operands
  <2> QED BY <1>2, <1>3, <2>2, <2>3, <2>5, <2>6, EmitValueAgrees
<1> QED BY <1>5, <1>7, <1>8, <1>9, <1>10

\* A name in a constant expression.
LEMMA LValConstAgrees ==
  ASSUME Compiling, NEW n \in Names, LValConst(n), NEW m, m = UseConst(src, n), Records(m)
  PROVE  SimInv'
<1> DEFINE obj   == FindHighestPriority(stack, n)
           const == GetLatestConst(stack, n)
           d     == Meaning(src, n)
           i     == Max(ScopesOf(src, n))
           C     == ConstScopes(stack, n)
<1>1. /\ IsSource(src) /\ src.verdict = "legal" /\ status = "run" /\ src.vals \in Seq(Int32)
      /\ vals \in Seq(Results) /\ Len(vals) \in Nat /\ Inv
  BY CompilingFacts DEF Compiling
<1>2. open > 0 /\ UNCHANGED <<stack, stmt, funcs>> /\ 0 \in 0 .. Len(vals)
  BY <1>1, InExp DEF LValConst
<1>3. /\ IsSource(m) /\ m.scopes = src.scopes /\ m.rets = src.rets
      /\ m.vals = Append(src.vals, d.val)
      /\ m.verdict = IF d.kind # "const" THEN "not_constant" ELSE "legal"
  BY <1>1, UseConstFacts
<1>4. src' = m
  BY DEF Records
<1>5. \/ const # NoObj /\ vals' = Append(vals, const) /\ status' = "run"
      \/ const = NoObj /\ status' = "not_constant"
  BY <1>1 DEF LValConst
<1>6. CASE d.kind # "const"
  BY <1>3, <1>4, <1>5, <1>6, Rejects, Overlooks
<1>7. CASE d.kind = "const"
  <2>1. /\ obj \in Consts /\ d = Decl("const", obj.val) /\ i \in C
        /\ obj = stack[i].global_const_table[n]
    BY <1>2, <1>7, SameMeaning DEF Decl, CellHolds
  <2>2. Max(C) = i
    <3>1. /\ C \subseteq ScopesOf(src, n) /\ ScopesOf(src, n) \in SUBSET (1 .. Len(stack))
          /\ Len(stack) \in Nat
      BY <1>2, SameScopes
    <3> HIDE DEF C
    <3>2. \A y \in ScopesOf(src, n) : i >= y
      BY <2>1, <3>1, MaxIsLargest
    <3>3. Max(C) \in C /\ Max(C) >= i /\ C \subseteq Nat
      <4>1. C \in SUBSET (1 .. Len(stack)) /\ C # {} /\ i \in C
        BY <2>1, <3>1
      <4> HIDE DEF i
      <4>2. Max(C) \in C /\ \A y \in C : Max(C) >= y
        BY <3>1, <4>1, MaxIsLargest
      <4> QED BY <3>1, <4>1, <4>2
    <3> HIDE DEF i
    <3>4. Max(C) \in Nat /\ i \in Nat /\ i >= Max(C)
      BY <2>1, <3>1, <3>2, <3>3
    <3> QED BY <3>3, <3>4
  <2>3. const = obj
    BY <2>1, <2>2 DEF GetLatestConst
  <2>4. obj.val \in Int32 /\ obj \in Results /\ ValueIn(machine, obj) = obj.val /\ obj # NoObj
    BY <2>1, NoObjFacts DEF Consts, IsConst, Results, IsResult, ValueIn
  <2>5. vals' = Append(vals, obj) /\ status' = "run" /\ m.verdict = "legal" /\ d.val = obj.val
    BY <1>3, <1>5, <1>7, <2>1, <2>3, <2>4 DEF Decl
  <2> HIDE DEF obj, d
  <2>6. m.vals \in Seq(Int32) /\ Replaced(src.vals, 0, obj.val, m.vals)
    BY <1>1, <1>3, <2>4, <2>5, AppendIsReplaced
  <2>7. Replaced(vals, 0, obj, vals')
    BY <1>1, <2>4, <2>5, AppendIsReplaced
  <2> QED BY <1>2, <1>3, <2>4, <2>5, <2>6, <2>7, QuietExpAgrees
<1> QED BY <1>6, <1>7

\* The operands of an operator: the last value, and the one before it.
LEMMA RightValue ==
  ASSUME Compiling, open > 0, vals # <<>>
  PROVE  /\ Last(src.vals) = src.vals[Len(vals)] /\ Last(src.vals) \in Int32
         /\ Right \in Results /\ KnownOperand(FromParseResult(Right)) /\ 1 \in 0 .. Len(vals)
         /\ Right.kind = "Const" \/ Right.kind = "InstId"
         /\ Read(machine, FromParseResult(Right)) = Last(src.vals)
         /\ ValueIn(machine, Right) = Last(src.vals)
<1>1. /\ src.vals \in Seq(Int32) /\ Len(src.vals) = Len(vals) /\ Len(vals) \in Nat
      /\ vals \in Seq(Results)
  BY CompilingFacts
<1>2. Len(vals) \in 1 .. Len(vals) /\ 1 \in 0 .. Len(vals)
  BY <1>1, EmptySeq
<1>3. Last(src.vals) = src.vals[Len(vals)]
  BY <1>1 DEF Last
<1>4. \A i \in 1 .. Len(vals) : ValueIn(machine, vals[i]) = src.vals[i]
  BY CompilingFacts DEF Agree, ValsAgree
<1> QED BY <1>2, <1>3, <1>4, HeldValue, ResultIsKnown DEF Right

\* The left operand of a binary operation reads as the source's.
LEMMA LeftValue ==
  ASSUME Compiling, open > 0, Len(vals) >= 2
  PROVE  /\ src.vals[Len(src.vals) - 1] \in Int32
         /\ Left \in Results /\ KnownOperand(FromParseResult(Left)) /\ 2 \in 0 .. Len(vals)
         /\ Read(machine, FromParseResult(Left)) = src.vals[Len(src.vals) - 1]
         /\ ValueIn(machine, Left) = src.vals[Len(src.vals) - 1]
         /\ vals # <<>>
<1>1. /\ src.vals \in Seq(Int32) /\ Len(src.vals) = Len(vals) /\ Len(vals) \in Nat
      /\ vals \in Seq(Results)
  BY CompilingFacts
<1>2. Len(vals) - 1 \in 1 .. Len(vals) /\ 2 \in 0 .. Len(vals) /\ vals # <<>>
  BY <1>1
<1>3. \A i \in 1 .. Len(vals) : ValueIn(machine, vals[i]) = src.vals[i]
  BY CompilingFacts DEF Agree, ValsAgree
<1> QED BY <1>1, <1>2, <1>3, HeldValue, ResultIsKnown DEF Left

\* An operator the program applies emits an instruction that computes it.
LEMMA OperatorAgrees ==
  ASSUME Compiling, NoInternalPanic', InVarExp, NEW opcode \in Builder!Binary,
         NEW a, NEW b, KnownOperand(a), KnownOperand(b),
         NEW k \in 0 .. Len(vals), EmitValue(opcode, <<a, b>>, k), UNCHANGED <<stack, stmt>>,
         NEW v \in Int32, v = Compute(opcode, BitwiseLogic, Read(machine, a), Read(machine, b)),
         NEW m, m = ReplaceLast(src, k, v), Records(m)
  PROVE  SimInv'
<1>1. /\ IsSource(src) /\ src.verdict = "legal" /\ src.vals \in Seq(Int32)
      /\ Len(src.vals) = Len(vals) /\ Len(vals) \in Nat
  BY CompilingFacts DEF Compiling
<1>2. /\ IsSource(m) /\ m.scopes = src.scopes /\ m.rets = src.rets /\ m.verdict = "legal"
      /\ m.vals = Append(SubSeq(src.vals, 1, Len(src.vals) - k), v)
  <2>1. m = ReplaceLast(src, k, v)
    OBVIOUS
  <2> QED BY ONLY <1>1, <2>1, ReplaceLastFacts
<1>3. m.vals \in Seq(Int32) /\ Replaced(src.vals, k, v, m.vals)
  <2>1. /\ Append(SubSeq(src.vals, 1, Len(src.vals) - k), v) \in Seq(Int32)
        /\ Replaced(src.vals, k, v, Append(SubSeq(src.vals, 1, Len(src.vals) - k), v))
    BY <1>1, ReplaceIsReplaced
  <2> QED BY <1>2, <2>1
<1> DEFINE operands == <<a, b>>
<1>4. Known(operands)
  BY KnownPair
<1>5. operands \in Seq(Operand) /\ operands[1] = a /\ operands[2] = b
  BY <1>4 DEF Known
<1>6. EmitValue(opcode, operands, k)
  OBVIOUS
<1> HIDE DEF operands
<1>7. "LOAD" \notin Builder!Binary
  BY DEF Builder!Binary, Builder!ValueOps
<1> QED BY <1>2, <1>3, <1>5, <1>6, <1>7, EmitValueAgrees

\* A unary operation in an expression means what it computes.
LEMMA UnaryVarAgrees ==
  ASSUME Compiling, NoInternalPanic', NEW op, UnaryVar(op),
         NEW m, m = Unary(src, op), Records(m)
  PROVE  SimInv'
<1> DEFINE x == Last(src.vals)
           v == UnaryValue(op, x)
           zero == FromParseResult(ConstObj(0))
           right == FromParseResult(Right)
<1>1. /\ IsSource(src) /\ src.verdict = "legal" /\ status = "run" /\ src.vals \in Seq(Int32)
      /\ vals \in Seq(Results) /\ Len(vals) \in Nat /\ Len(src.vals) = Len(vals) /\ Inv
  BY CompilingFacts DEF Compiling
<1>2. open > 0 /\ UNCHANGED <<stack, stmt>> /\ InVarExp /\ vals # <<>>
  BY <1>1, InExp DEF UnaryVar
<1>3. /\ x = src.vals[Len(vals)] /\ x \in Int32 /\ x \in Int
      /\ Right \in Results /\ KnownOperand(right) /\ 1 \in 0 .. Len(vals)
      /\ Read(machine, right) = x /\ ValueIn(machine, Right) = x
  BY <1>2, RightValue, UndefFacts
<1>4. m = ReplaceLast(src, 1, v)
  BY DEF Unary
<1>5. KnownOperand(zero) /\ Read(machine, zero) = 0
  BY OtherOperands DEF Read, FromParseResult, ConstObj, Obj
<1>6. \/ op = "Plus" /\ UNCHANGED <<funcs, vals, status>>
      \/ op = "Minus" /\ EmitValue("SUB", <<zero, right>>, 1)
      \/ op = "Not"   /\ EmitValue("EQ", <<zero, right>>, 1)
  BY DEF UnaryVar, UnaryCode
<1> HIDE DEF x, zero, right
<1>7. CASE op = "Plus"
  <2>1. v = x /\ UNCHANGED <<funcs, vals, status>>
    BY <1>6, <1>7 DEF UnaryValue
  <2>2. /\ IsSource(m) /\ m.scopes = src.scopes /\ m.rets = src.rets /\ m.verdict = "legal"
        /\ m.vals = Append(SubSeq(src.vals, 1, Len(src.vals) - 1), x)
    <3>1. m = ReplaceLast(src, 1, x)
      BY <1>4, <2>1
    <3> HIDE DEF v
    <3> QED BY <1>1, <3>1, ReplaceLastFacts
  <2>3. m.vals \in Seq(Int32) /\ Replaced(src.vals, 1, x, m.vals)
    BY <1>1, <1>3, <2>2, ReplaceIsReplaced
  <2>4. Replaced(vals, 1, Right, vals')
    BY <1>1, <2>1 DEF Replaced, Right
  <2> QED BY <1>1, <1>2, <1>3, <2>1, <2>2, <2>3, <2>4, QuietExpAgrees
<1>8. CASE op = "Minus"
  <2>1. v = Wrap(-x)
    BY <1>8 DEF UnaryValue
  <2>2. v \in Int32 /\ v = Compute("SUB", BitwiseLogic, 0, x)
    BY <1>3, <2>1, WrapInt32 DEF Compute
  <2>3. "SUB" \in Builder!Binary
    BY DEF Builder!Binary, Builder!ValueOps
  <2>4. EmitValue("SUB", <<zero, right>>, 1)
    BY <1>6, <1>8
  <2> HIDE DEF v
  <2> QED BY <1>2, <1>3, <1>4, <1>5, <2>2, <2>3, <2>4, OperatorAgrees
<1>9. CASE op = "Not"
  <2>1. v = Truth(x = 0)
    BY <1>9 DEF UnaryValue
  <2>2. v \in Int32 /\ v = Compute("EQ", BitwiseLogic, 0, x)
    BY <1>3, <2>1, TruthInt32 DEF Compute, Truth
  <2>3. "EQ" \in Builder!Binary
    BY DEF Builder!Binary, Builder!ValueOps
  <2>4. EmitValue("EQ", <<zero, right>>, 1)
    BY <1>6, <1>9
  <2> HIDE DEF v
  <2> QED BY <1>2, <1>3, <1>4, <1>5, <2>2, <2>3, <2>4, OperatorAgrees
<1> QED BY <1>6, <1>7, <1>8, <1>9

-----------------------------------------------------------------------------
(* Binary operators: what an opcode computes is what the operator means.   *)

\* The opcode of a binary operator.
Lowers(op, opcode) ==
  <<op, opcode>> \in
    {<<"Or", "OR">>, <<"And", "AND">>, <<"Eq", "EQ">>, <<"Ne", "NE">>,
     <<"Lt", "LT">>, <<"Gt", "GT">>, <<"Le", "LE">>, <<"Ge", "GE">>,
     <<"Mul", "MUL">>, <<"Div", "DIV">>, <<"Mod", "MOD">>,
     <<"Add", "ADD">>, <<"Sub", "SUB">>}

\* Truncated division gives integers.
LEMMA TruncIsInt ==
  ASSUME NEW l \in Int, NEW r \in Int, r # 0
  PROVE  TruncDiv(l, r) \in Int /\ TruncRem(l, r) \in Int
<1> DEFINE q == Abs(l) \div Abs(r)
<1>1. Abs(l) \in Nat /\ Abs(r) \in Nat \ {0}
  BY DEF Abs
<1>2. q \in Int
  BY <1>1, DivBounds
<1> HIDE DEF q
<1>3. TruncDiv(l, r) \in Int
  BY <1>2 DEF TruncDiv, q
<1> QED BY <1>3 DEF TruncRem

\* Division and remainder of the machine stay within an i32.
LEMMA DivRemInt32 ==
  ASSUME NEW l \in Int32, NEW r \in Int32
  PROVE  Div(l, r) \in Int32 /\ Rem(l, r) \in Int32
<1>1. l \in Int /\ r \in Int /\ -1 \in Int32
  BY I32Range DEF Int32
<1>2. CASE r = 0
  BY <1>1, <1>2 DEF Div, Rem
<1>3. CASE r # 0
  BY <1>1, <1>3, TruncIsInt, WrapInt32 DEF Div, Rem
<1> QED BY <1>2, <1>3

\* The instruction that lowers an operator computes its value.
LEMMA LoweringComputes ==
  ASSUME BitwiseLogic = FALSE, NEW l \in Int32, NEW r \in Int32,
         NEW op, NEW opcode, Lowers(op, opcode)
  PROVE  /\ opcode \in Builder!Binary
         /\ BinaryValue(op, l, r) = Compute(opcode, BitwiseLogic, l, r)
         /\ BinaryValue(op, l, r) \in Int32
<1>1. l \in Int /\ r \in Int
  BY UndefFacts
<1>2. opcode \in Builder!Binary
  BY DEF Lowers, Builder!Binary, Builder!ValueOps
<1> DEFINE v == BinaryValue(op, l, r)
           w == Compute(opcode, BitwiseLogic, l, r)
<1>3. ASSUME op = "Or", opcode = "OR" PROVE v = w /\ v \in Int32
  <2>1. v = Truth(l # 0 \/ r # 0) /\ w = Truth(l # 0 \/ r # 0)
    BY <1>3 DEF BinaryValue, Compute
  <2> HIDE DEF v, w
  <2> QED BY <2>1, I32Range DEF Truth, Int32
<1>4. ASSUME op = "And", opcode = "AND" PROVE v = w /\ v \in Int32
  <2>1. v = Truth(l # 0 /\ r # 0) /\ w = Truth(l # 0 /\ r # 0)
    BY <1>4 DEF BinaryValue, Compute
  <2> HIDE DEF v, w
  <2> QED BY <2>1, I32Range DEF Truth, Int32
<1>5. ASSUME op = "Eq", opcode = "EQ" PROVE v = w /\ v \in Int32
  <2>1. v = Truth(l = r) /\ w = Truth(l = r)
    BY <1>5 DEF BinaryValue, Compute
  <2> HIDE DEF v, w
  <2> QED BY <2>1, I32Range DEF Truth, Int32
<1>6. ASSUME op = "Ne", opcode = "NE" PROVE v = w /\ v \in Int32
  <2>1. v = Truth(l # r) /\ w = Truth(l # r)
    BY <1>6 DEF BinaryValue, Compute
  <2> HIDE DEF v, w
  <2> QED BY <2>1, I32Range DEF Truth, Int32
<1>7. ASSUME op = "Lt", opcode = "LT" PROVE v = w /\ v \in Int32
  <2>1. v = Truth(l < r) /\ w = Truth(l < r)
    BY <1>7 DEF BinaryValue, Compute
  <2> HIDE DEF v, w
  <2> QED BY <2>1, I32Range DEF Truth, Int32
<1>8. ASSUME op = "Gt", opcode = "GT" PROVE v = w /\ v \in Int32
  <2>1. v = Truth(l > r) /\ w = Truth(l > r)
    BY <1>8 DEF BinaryValue, Compute
  <2> HIDE DEF v, w
  <2> QED BY <2>1, I32Range DEF Truth, Int32
<1>9. ASSUME op = "Le", opcode = "LE" PROVE v = w /\ v \in Int32
  <2>1. v = Truth(l <= r) /\ w = Truth(l <= r)
    BY <1>9 DEF BinaryValue, Compute
  <2> HIDE DEF v, w
  <2> QED BY <2>1, I32Range DEF Truth, Int32
<1>10. ASSUME op = "Ge", opcode = "GE" PROVE v = w /\ v \in Int32
  <2>1. v = Truth(l >= r) /\ w = Truth(l >= r)
    BY <1>10 DEF BinaryValue, Compute
  <2> HIDE DEF v, w
  <2> QED BY <2>1, I32Range DEF Truth, Int32
<1>11. ASSUME op = "Mul", opcode = "MUL" PROVE v = w /\ v \in Int32
  <2>1. v = Wrap(l * r) /\ w = Wrap(l * r)
    BY <1>11 DEF BinaryValue, Compute
  <2>2. l * r \in Int
    BY <1>1
  <2> QED BY <2>1, <2>2, WrapInt32
<1>12. ASSUME op = "Add", opcode = "ADD" PROVE v = w /\ v \in Int32
  <2>1. v = Wrap(l + r) /\ w = Wrap(l + r)
    BY <1>12 DEF BinaryValue, Compute
  <2>2. l + r \in Int
    BY <1>1
  <2> QED BY <2>1, <2>2, WrapInt32
<1>13. ASSUME op = "Sub", opcode = "SUB" PROVE v = w /\ v \in Int32
  <2>1. v = Wrap(l - r) /\ w = Wrap(l - r)
    BY <1>13 DEF BinaryValue, Compute
  <2>2. l - r \in Int
    BY <1>1
  <2> QED BY <2>1, <2>2, WrapInt32
<1>14. ASSUME op = "Div", opcode = "DIV" PROVE v = w /\ v \in Int32
  <2>1. v = Div(l, r) /\ w = Div(l, r)
    BY <1>14 DEF BinaryValue, Compute
  <2> QED BY <2>1, DivRemInt32
<1>15. ASSUME op = "Mod", opcode = "MOD" PROVE v = w /\ v \in Int32
  <2>1. v = Rem(l, r) /\ w = Rem(l, r)
    BY <1>15 DEF BinaryValue, Compute
  <2> QED BY <2>1, DivRemInt32
<1>16. v = w /\ v \in Int32
  <2> HIDE DEF v, w
  <2> QED
    BY <1>3, <1>4, <1>5, <1>6, <1>7, <1>8, <1>9, <1>10, <1>11, <1>12, <1>13, <1>14, <1>15
       DEF Lowers
<1> QED BY <1>2, <1>16

\* A handler that lowers its operators computes what they mean.
LEMMA BinaryVarAgrees ==
  ASSUME BitwiseLogic = FALSE, Compiling, NoInternalPanic', NEW code, NEW op, BinaryVar(code, op),
         op \in DOMAIN code => Lowers(op, code[op]),
         NEW m, m = Binary(src, op), Records(m)
  PROVE  SimInv'
<1> DEFINE l == src.vals[Len(src.vals) - 1]
           r == Last(src.vals)
           v == BinaryValue(op, l, r)
           a == FromParseResult(Left)
           b == FromParseResult(Right)
           opcode == code[op]
<1>1. Inv /\ InVarExp /\ Len(vals) >= 2 /\ UNCHANGED <<stack, stmt>> /\ Lowers(op, opcode)
  BY DEF BinaryVar, Compiling
<1>2. open > 0
  BY <1>1, InExp
<1>3. /\ l \in Int32 /\ KnownOperand(a) /\ 2 \in 0 .. Len(vals)
      /\ Read(machine, a) = l /\ vals # <<>>
  BY <1>1, <1>2, LeftValue
<1>4. r \in Int32 /\ KnownOperand(b) /\ Read(machine, b) = r
  BY <1>2, <1>3, RightValue
<1>5. /\ opcode \in Builder!Binary /\ v \in Int32
      /\ v = Compute(opcode, BitwiseLogic, Read(machine, a), Read(machine, b))
  <2>1. v = BinaryValue(op, l, r)
    OBVIOUS
  <2> HIDE DEF l, r, v, a, b, opcode
  <2>2. /\ opcode \in Builder!Binary
        /\ BinaryValue(op, l, r) = Compute(opcode, BitwiseLogic, l, r)
        /\ BinaryValue(op, l, r) \in Int32
    <3>1. l \in Int32 /\ r \in Int32 /\ Lowers(op, opcode)
      BY <1>1, <1>3, <1>4
    <3>2. BitwiseLogic = FALSE
      OBVIOUS
    <3>3. ASSUME NEW x \in Int32, NEW y \in Int32, NEW q, Lowers(op, q)
          PROVE  /\ q \in Builder!Binary
                 /\ BinaryValue(op, x, y) = Compute(q, BitwiseLogic, x, y)
                 /\ BinaryValue(op, x, y) \in Int32
      BY <3>2, <3>3, LoweringComputes
    <3> QED BY <3>1, <3>3
  <2> QED BY <1>3, <1>4, <2>1, <2>2
<1>6. m = ReplaceLast(src, 2, v)
  BY DEF Binary
<1>7. EmitValue(opcode, <<a, b>>, 2)
  BY DEF BinaryVar
<1> HIDE DEF l, r, v, a, b, opcode
<1> QED BY <1>1, <1>3, <1>4, <1>5, <1>6, <1>7, OperatorAgrees

\* Every binary handler does.
LEMMA BinaryVarsAgree ==
  ASSUME BitwiseLogic = FALSE, Compiling, NoInternalPanic', NEW op,
         \/ LOrExpVar(op) \/ LAndExpVar(op) \/ EqExpVar(op)
         \/ RelExpVar(op) \/ MulExpVar(op)  \/ AddExpVar(op),
         NEW m, m = Binary(src, op), Records(m)
  PROVE  SimInv'
<1>1. CASE LOrExpVar(op)
  BY <1>1, BinaryVarAgrees DEF LOrExpVar, Lowers
<1>2. CASE LAndExpVar(op)
  BY <1>2, BinaryVarAgrees DEF LAndExpVar, Lowers
<1>3. CASE EqExpVar(op)
  <2> DEFINE code == [Eq |-> "EQ", Ne |-> "NE"]
  <2>1. BinaryVar(code, op)
    BY <1>3 DEF EqExpVar
  <2>2. op \in DOMAIN code => Lowers(op, code[op])
    BY DEF Lowers
  <2> HIDE DEF code
  <2> QED BY <2>1, <2>2, BinaryVarAgrees
<1>4. CASE RelExpVar(op)
  <2> DEFINE code == [Lt |-> "LT", Gt |-> "GT", Le |-> "LE", Ge |-> "GE"]
  <2>1. BinaryVar(code, op)
    BY <1>4 DEF RelExpVar
  <2>2. op \in DOMAIN code => Lowers(op, code[op])
    BY DEF Lowers
  <2> HIDE DEF code
  <2> QED BY <2>1, <2>2, BinaryVarAgrees
<1>5. CASE MulExpVar(op)
  <2> DEFINE code == [Mul |-> "MUL", Div |-> "DIV", Mod |-> "MOD"]
  <2>1. BinaryVar(code, op)
    BY <1>5 DEF MulExpVar
  <2>2. op \in DOMAIN code => Lowers(op, code[op])
    BY DEF Lowers
  <2> HIDE DEF code
  <2> QED BY <2>1, <2>2, BinaryVarAgrees
<1>6. CASE AddExpVar(op)
  <2> DEFINE code == [Add |-> "ADD", Sub |-> "SUB"]
  <2>1. BinaryVar(code, op)
    BY <1>6 DEF AddExpVar
  <2>2. op \in DOMAIN code => Lowers(op, code[op])
    BY DEF Lowers
  <2> HIDE DEF code
  <2> QED BY <2>1, <2>2, BinaryVarAgrees
<1> QED BY <1>1, <1>2, <1>3, <1>4, <1>5, <1>6

-----------------------------------------------------------------------------
(* Constant expressions: what the compiler computes.                       *)

\* A number below the modulus is its own remainder.
LEMMA ModSmall ==
  ASSUME NEW a \in Nat, NEW b \in Nat \ {0}, a < b
  PROVE  a % b = a
  OBVIOUS

\* An i32 does not change when it is wrapped.
LEMMA WrapSame ==
  ASSUME NEW n \in Int32
  PROVE  Wrap(n) = n
<1> DEFINE a == n - MinInt
<1>1. n \in Int /\ a \in Nat /\ a < Modulus /\ Modulus \in Nat \ {0} /\ a + MinInt = n
  BY I32Range DEF Int32
<1> HIDE DEF a
<1>2. a % Modulus = a
  BY <1>1, ModSmall
<1>3. Wrap(n) = (a % Modulus) + MinInt
  BY DEF Wrap, a
<1> QED BY <1>1, <1>2, <1>3

\* i32::MIN / -1 is the one quotient that has no representation.
LEMMA LargestQuotient ==
  ASSUME NEW r \in Int, r + 1 = 0
  PROVE  TruncDiv(MinInt, r) = MaxInt + 1 /\ MaxInt + 1 \notin Int32
<1>1. MinInt < 0 /\ r < 0 /\ MaxInt \in Int /\ -MinInt = MaxInt + 1 /\ -r = 1
  <2>1. r < 0 /\ -r = 1
    OBVIOUS
  <2>2. MaxInt \in Int /\ MinInt < 0
    BY I32Range
  <2>3. -MinInt = MaxInt + 1
    BY I32Range
  <2> QED BY <2>1, <2>2, <2>3
<1>2. Abs(MinInt) = MaxInt + 1 /\ Abs(r) = 1
  BY <1>1 DEF Abs
<1>3. (MaxInt + 1) \div 1 = MaxInt + 1
  BY <1>1
<1>4. MaxInt + 1 \notin Int32
  BY I32Range DEF Int32
<1>5. TruncDiv(MinInt, r) = Abs(MinInt) \div Abs(r)
  BY <1>1 DEF TruncDiv
<1> QED BY <1>2, <1>3, <1>4, <1>5

\* A handler's result and the fault it looks for are those of the source.
LEMMA ConstResultAgrees ==
  ASSUME Compiling, InConstExp, UNCHANGED <<stack, funcs, stmt>>,
         NEW k \in 0 .. Len(vals), NEW reason \in Rejections \cup {"run"}, NEW n,
         ConstResult(reason, n, k),
         NEW m, IsSource(m), Records(m), m.scopes = src.scopes, m.rets = src.rets,
         \/ reason = "const_not"
         \/ m.verdict = IF reason = "run" THEN "legal" ELSE reason,
         reason = "run" =>
           n \in Int32 /\ m.vals = Append(SubSeq(src.vals, 1, Len(src.vals) - k), n)
  PROVE  SimInv'
<1>1. src' = m /\ status' = reason
  BY DEF Records, ConstResult
<1>2. CASE reason # "run"
  <2>1. reason \notin {"run", "ok"}
    BY <1>2 DEF Rejections
  <2> QED BY <1>1, <1>2, <2>1, Rejects
<1>3. CASE reason = "run"
  <2>1. /\ src.vals \in Seq(Int32) /\ Len(src.vals) = Len(vals) /\ Len(vals) \in Nat
        /\ vals \in Seq(Results)
    BY CompilingFacts
  <2>2. n \in Int32 /\ m.vals = Append(SubSeq(src.vals, 1, Len(src.vals) - k), n)
        /\ vals' = ReplaceTop(k, ConstObj(n)) /\ m.verdict = "legal"
    BY <1>3 DEF ConstResult
  <2>3. m.vals \in Seq(Int32) /\ Replaced(src.vals, k, n, m.vals)
    BY <2>1, <2>2, ReplaceIsReplaced
  <2>4. ConstObj(n) \in Results /\ ValueIn(machine, ConstObj(n)) = n
    BY <2>2, ConstObjIsConst DEF Consts, Results, IsResult, ValueIn, ConstObj, Obj
  <2>5. Replaced(vals, k, ConstObj(n), vals')
    BY <2>1, <2>2, <2>4, ReplaceIsReplaced DEF ReplaceTop
  <2> QED BY <1>1, <1>3, <2>2, <2>3, <2>4, <2>5, QuietExpAgrees
<1> QED BY <1>2, <1>3

\* The operands are constants with the values of the source.
LEMMA ConstOperands ==
  ASSUME Compiling, InConstExp, vals # <<>>
  PROVE  /\ Right.kind = "Const" /\ Right.val = Last(src.vals) /\ Last(src.vals) \in Int32
         /\ 1 \in 0 .. Len(vals)
         /\ Len(vals) >= 2 => /\ Left.kind = "Const" /\ Left.val = src.vals[Len(src.vals) - 1]
                              /\ src.vals[Len(src.vals) - 1] \in Int32 /\ 2 \in 0 .. Len(vals)
<1>1. Inv /\ open > 0
  BY InExp DEF Compiling
<1>2. vals \in Seq(Consts) /\ Len(vals) \in Nat /\ \A c \in Consts : c.kind = "Const"
  BY <1>1, InConst
<1>3. Right.kind = "Const"
  <2>1. Len(vals) \in 1 .. Len(vals)
    BY <1>2, EmptySeq
  <2> QED BY <1>2, <2>1, ElementOfSeq DEF Right
<1>4. ASSUME Len(vals) >= 2 PROVE Left.kind = "Const"
  <2>1. Len(vals) - 1 \in 1 .. Len(vals)
    BY <1>2, <1>4
  <2> QED BY <1>2, <2>1, ElementOfSeq DEF Left
<1> QED BY <1>1, <1>3, <1>4, RightValue, LeftValue DEF ValueIn

\* A unary operation is folded to what it means, or rejected for its fault.
LEMMA UnaryConstAgrees ==
  ASSUME Compiling, NEW op \in UnaryOps, UnaryConst(op),
         NEW m, m = UnaryConstant(src, op), Records(m)
  PROVE  SimInv'
<1> DEFINE x == Last(src.vals)
<1>1. /\ InConstExp /\ vals # <<>> /\ UNCHANGED <<stack, funcs, stmt>>
      /\ IsSource(src) /\ src.verdict = "legal"
  BY CompilingFacts DEF UnaryConst, Compiling
<1>2. Right.kind = "Const" /\ Right.val = x /\ x \in Int32 /\ x \in Int /\ 1 \in 0 .. Len(vals)
  BY <1>1, ConstOperands, UndefFacts
<1>3. /\ IsSource(m) /\ m.scopes = src.scopes /\ m.rets = src.rets
      /\ m.vals = Unary(src, op).vals
      /\ m.verdict = IF op = "Minus" /\ OverflowChecks /\ -x \notin Int32
                     THEN "overflow" ELSE "legal"
  BY <1>1, UnaryConstantFacts
<1>4. Unary(src, op).vals = Append(SubSeq(src.vals, 1, Len(src.vals) - 1), UnaryValue(op, x))
  <2> DEFINE v == UnaryValue(op, x)
  <2>1. Unary(src, op) = ReplaceLast(src, 1, v)
    BY DEF Unary
  <2> HIDE DEF v
  <2>2. Unary(src, op).vals = Append(SubSeq(src.vals, 1, Len(src.vals) - 1), v)
    BY <1>1, <2>1, ReplaceLastFacts
  <2> QED BY <2>2 DEF v
<1>5. {"run", "overflow", "const_not"} \subseteq Rejections \cup {"run"}
  BY DEF Rejections
<1> HIDE DEF x
<1>6. CASE op = "Plus"
  <2>1. ConstResult("run", x, 1)
    BY <1>2, <1>6 DEF UnaryConst
  <2>2. UnaryValue(op, x) = x /\ m.verdict = "legal"
    BY <1>3, <1>6 DEF UnaryValue
  <2> QED BY <1>1, <1>2, <1>3, <1>4, <1>5, <2>1, <2>2, ConstResultAgrees
<1>7. CASE op = "Minus"
  <2> DEFINE v == Wrap(-x)
             reason == Checked(-x)
  <2>1. ConstResult(reason, v, 1)
    BY <1>2, <1>7 DEF UnaryConst
  <2>2. UnaryValue(op, x) = v
    BY <1>7 DEF UnaryValue
  <2>3. v \in Int32 /\ reason \in {"run", "overflow"}
        /\ m.verdict = IF reason = "run" THEN "legal" ELSE reason
    BY <1>2, <1>3, <1>7, WrapInt32 DEF Checked
  <2> HIDE DEF v, reason
  <2> QED BY <1>1, <1>2, <1>3, <1>4, <1>5, <2>1, <2>2, <2>3, ConstResultAgrees
<1>8. CASE op = "Not"
  <2>1. ConstResult("const_not", 0, 1)
    BY <1>2, <1>8 DEF UnaryConst
  <2> QED BY <1>1, <1>2, <1>3, <1>5, <2>1, ConstResultAgrees
<1> QED BY <1>6, <1>7, <1>8 DEF UnaryOps

\* A handler that folds to the value, or reports the fault, agrees with the source.
LEMMA BinaryConstAgrees ==
  ASSUME Compiling, NEW ops, NEW op, NEW reason \in Rejections \cup {"run"}, NEW n,
         BinaryConst(ops, op, reason, n),
         NEW l, l = Left.val, NEW r, r = Right.val,
         l \in Int32 /\ r \in Int32 /\ op \in ops =>
           /\ Fault(op, l, r) = IF reason = "run" THEN "legal" ELSE reason
           /\ reason = "run" => n = BinaryValue(op, l, r) /\ n \in Int32,
         NEW m, m = BinaryConstant(src, op), Records(m)
  PROVE  SimInv'
<1>1. /\ InConstExp /\ Len(vals) >= 2 /\ op \in ops /\ UNCHANGED <<stack, funcs, stmt>>
      /\ IsSource(src) /\ src.verdict = "legal" /\ vals # <<>>
  BY CompilingFacts, EmptySeq DEF BinaryConst, Compiling
<1>2. /\ Left.kind = "Const" /\ Right.kind = "Const" /\ 2 \in 0 .. Len(vals)
      /\ l = src.vals[Len(src.vals) - 1] /\ r = Last(src.vals) /\ l \in Int32 /\ r \in Int32
  BY <1>1, ConstOperands
<1>3. ConstResult(reason, n, 2)
  BY <1>2 DEF BinaryConst
<1>4. /\ IsSource(m) /\ m.scopes = src.scopes /\ m.rets = src.rets
      /\ m.vals = Binary(src, op).vals /\ m.verdict = Fault(op, l, r)
  BY <1>1, <1>2, BinaryConstantFacts
<1>5. Binary(src, op).vals
        = Append(SubSeq(src.vals, 1, Len(src.vals) - 2), BinaryValue(op, l, r))
  <2> DEFINE v == BinaryValue(op, l, r)
  <2>1. Binary(src, op) = ReplaceLast(src, 2, v)
    BY <1>2 DEF Binary
  <2> HIDE DEF v
  <2>2. Binary(src, op).vals = Append(SubSeq(src.vals, 1, Len(src.vals) - 2), v)
    BY <1>1, <2>1, ReplaceLastFacts
  <2> QED BY <2>2 DEF v
<1>6. /\ m.verdict = IF reason = "run" THEN "legal" ELSE reason
      /\ reason = "run" =>
           n \in Int32 /\ m.vals = Append(SubSeq(src.vals, 1, Len(src.vals) - 2), n)
  BY <1>1, <1>2, <1>4, <1>5
<1> QED BY <1>1, <1>2, <1>3, <1>4, <1>6, ConstResultAgrees

\* The logical operators and the comparisons have a value and no fault.
LEMMA LogicHasNoFault ==
  ASSUME NEW op \in {"Or", "And", "Eq", "Ne", "Lt", "Gt", "Le", "Ge"}, NEW l, NEW r
  PROVE  Fault(op, l, r) = "legal"
  BY DEF Fault, Overflows

\* The values of the logical and relational operators.
LEMMA LogicValue ==
  ASSUME NEW l \in Int32, NEW r \in Int32
  PROVE  /\ BinaryValue("Or", l, r)  = Truth(l # 0 \/ r # 0)
         /\ BinaryValue("And", l, r) = Truth(l # 0 /\ r # 0)
         /\ \A op \in {"Eq", "Ne"} :
              BinaryValue(op, l, r) = Truth(IF op = "Eq" THEN l = r ELSE l # r)
         /\ \A op \in {"Lt", "Gt", "Le", "Ge"} :
              BinaryValue(op, l, r) = Truth(CASE op = "Lt" -> l < r
                                              [] op = "Gt" -> l > r
                                              [] op = "Le" -> l <= r
                                              [] op = "Ge" -> l >= r)
         /\ \A op \in {"Or", "And", "Eq", "Ne", "Lt", "Gt", "Le", "Ge"} :
              BinaryValue(op, l, r) \in Int32
<1>1. l \in Int /\ r \in Int
  BY UndefFacts
<1>2. /\ BinaryValue("Or", l, r)  = Truth(l # 0 \/ r # 0)
      /\ BinaryValue("And", l, r) = Truth(l # 0 /\ r # 0)
      /\ BinaryValue("Eq", l, r)  = Truth(l = r)
      /\ BinaryValue("Ne", l, r)  = Truth(l # r)
      /\ BinaryValue("Lt", l, r)  = Truth(l < r)
      /\ BinaryValue("Gt", l, r)  = Truth(l > r)
      /\ BinaryValue("Le", l, r)  = Truth(l <= r)
      /\ BinaryValue("Ge", l, r)  = Truth(l >= r)
  BY DEF BinaryValue
<1>3. \A op \in {"Or", "And", "Eq", "Ne", "Lt", "Gt", "Le", "Ge"} :
        BinaryValue(op, l, r) \in Int32
  BY <1>1, <1>2, I32Range DEF Truth, Int32
<1>4. \A op \in {"Eq", "Ne"} :
              BinaryValue(op, l, r) = Truth(IF op = "Eq" THEN l = r ELSE l # r)
  BY <1>2 DEF Truth
<1>5. \A op \in {"Lt", "Gt", "Le", "Ge"} :
              BinaryValue(op, l, r) = Truth(CASE op = "Lt" -> l < r
                                              [] op = "Gt" -> l > r
                                              [] op = "Le" -> l <= r
                                              [] op = "Ge" -> l >= r)
  BY <1>1, <1>2 DEF Truth
<1> QED BY <1>2, <1>3, <1>4, <1>5

\* The logical and relational handlers fold to what the operators mean.
LEMMA LogicConstsAgree ==
  ASSUME Compiling, NEW op,
         LOrExpConst(op) \/ LAndExpConst(op) \/ EqExpConst(op) \/ RelExpConst(op),
         NEW m, m = BinaryConstant(src, op), Records(m)
  PROVE  SimInv'
<1> DEFINE l == Left.val
           r == Right.val
           Logic == {"Or", "And", "Eq", "Ne", "Lt", "Gt", "Le", "Ge"}
<1>1. ASSUME NEW ops \in SUBSET Logic, NEW n, BinaryConst(ops, op, "run", n),
             l \in Int32 /\ r \in Int32 /\ op \in ops => n = BinaryValue(op, l, r)
      PROVE  SimInv'
  <2>1. ASSUME l \in Int32 /\ r \in Int32 /\ op \in ops
        PROVE  Fault(op, l, r) = "legal" /\ n = BinaryValue(op, l, r) /\ n \in Int32
    <3>1. op \in Logic /\ n = BinaryValue(op, l, r)
      BY <1>1, <2>1
    <3> HIDE DEF l, r
    <3> QED BY <2>1, <3>1, LogicHasNoFault, LogicValue
  <2>2. l = Left.val /\ r = Right.val /\ "run" \in Rejections \cup {"run"}
    OBVIOUS
  <2> HIDE DEF l, r
  <2> QED BY <1>1, <2>1, <2>2, BinaryConstAgrees
<1>2. CASE LOrExpConst(op)
  <2> DEFINE n == Truth(l # 0 \/ r # 0)
  <2>1. BinaryConst({"Or"}, op, "run", n)
    BY <1>2 DEF LOrExpConst
  <2>2. l \in Int32 /\ r \in Int32 /\ op \in {"Or"} => n = BinaryValue(op, l, r)
    <3> HIDE DEF l, r
    <3> QED BY LogicValue
  <2> HIDE DEF n, l, r
  <2> QED BY <1>1, <2>1, <2>2
<1>3. CASE LAndExpConst(op)
  <2> DEFINE n == Truth(l # 0 /\ r # 0)
  <2>1. BinaryConst({"And"}, op, "run", n)
    BY <1>3 DEF LAndExpConst
  <2>2. l \in Int32 /\ r \in Int32 /\ op \in {"And"} => n = BinaryValue(op, l, r)
    <3> HIDE DEF l, r
    <3> QED BY LogicValue
  <2> HIDE DEF n, l, r
  <2> QED BY <1>1, <2>1, <2>2
<1>4. CASE EqExpConst(op)
  <2> DEFINE n == Truth(IF op = "Eq" THEN l = r ELSE l # r)
  <2>1. BinaryConst({"Eq", "Ne"}, op, "run", n)
    BY <1>4 DEF EqExpConst
  <2>2. l \in Int32 /\ r \in Int32 /\ op \in {"Eq", "Ne"} => n = BinaryValue(op, l, r)
    <3> HIDE DEF l, r
    <3> QED BY LogicValue
  <2> HIDE DEF n, l, r
  <2> QED BY <1>1, <2>1, <2>2
<1>5. CASE RelExpConst(op)
  <2> DEFINE n == Truth(CASE op = "Lt" -> l < r
                          [] op = "Gt" -> l > r
                          [] op = "Le" -> l <= r
                          [] op = "Ge" -> l >= r)
  <2>1. BinaryConst({"Lt", "Gt", "Le", "Ge"}, op, "run", n)
    BY <1>5 DEF RelExpConst
  <2>2. l \in Int32 /\ r \in Int32 /\ op \in {"Lt", "Gt", "Le", "Ge"} => n = BinaryValue(op, l, r)
    <3> HIDE DEF l, r
    <3> QED BY LogicValue
  <2> HIDE DEF n, l, r
  <2> QED BY <1>1, <2>1, <2>2
<1> QED BY <1>2, <1>3, <1>4, <1>5

\* Sums, differences and products overflow where the source says so.
LEMMA CheckedAgrees ==
  ASSUME NEW l \in Int32, NEW r \in Int32, NEW op \in {"Add", "Sub", "Mul"},
         NEW x, x = IF op = "Add" THEN l + r ELSE IF op = "Sub" THEN l - r ELSE l * r
  PROVE  /\ Fault(op, l, r) = IF Checked(x) = "run" THEN "legal" ELSE Checked(x)
         /\ Wrap(x) = BinaryValue(op, l, r) /\ Wrap(x) \in Int32
         /\ Checked(x) \in Rejections \cup {"run"}
<1>1. l \in Int /\ r \in Int /\ OverflowChecks \in BOOLEAN
  BY UndefFacts, I32Assumption
<1>2. x \in Int
  BY <1>1
<1>3. Overflows(op, l, r) = (OverflowChecks /\ x \notin Int32)
  BY <1>1 DEF Overflows
<1>4. Wrap(x) = BinaryValue(op, l, r)
  BY DEF BinaryValue
<1> QED BY <1>1, <1>2, <1>3, <1>4, WrapInt32 DEF Fault, Checked, Rejections

\* Quotients and remainders fail where the source says so.
LEMMA CheckedDivAgrees ==
  ASSUME NEW l \in Int32, NEW r \in Int32, NEW op \in {"Div", "Mod"},
         NEW reason, reason = CheckedDiv(l, r),
         NEW n, n = IF op = "Div" THEN TruncDiv(l, r) ELSE TruncRem(l, r)
  PROVE  /\ Fault(op, l, r) = IF reason = "run" THEN "legal" ELSE reason
         /\ reason = "run" => n = BinaryValue(op, l, r) /\ n \in Int32
         /\ reason \in Rejections \cup {"run"}
<1>1. l \in Int /\ r \in Int
  BY UndefFacts
<1>2. Overflows(op, l, r) = (r # 0 /\ TruncDiv(l, r) \notin Int32)
  BY DEF Overflows
<1>3. CASE r = 0
  <2>1. reason = "div_zero"
    BY <1>3 DEF CheckedDiv
  <2>2. Fault(op, l, r) = "div_zero"
    BY <1>3 DEF Fault
  <2> QED BY <2>1, <2>2 DEF Rejections
<1>4. CASE r # 0 /\ l = MinInt /\ r = -1
  <2>1. reason = "overflow"
    BY <1>4 DEF CheckedDiv
  <2>2. TruncDiv(l, r) \notin Int32
    <3>1. r + 1 = 0
      BY <1>4
    <3> QED BY <1>1, <1>4, <3>1, LargestQuotient
  <2>3. Fault(op, l, r) = "overflow"
    BY <1>2, <1>4, <2>2 DEF Fault
  <2> QED BY <2>1, <2>3 DEF Rejections
<1>5. CASE r # 0 /\ ~(l = MinInt /\ r = -1)
  <2>1. reason = "run"
    BY <1>5 DEF CheckedDiv
  <2>2. TruncDiv(l, r) \in Int32 /\ TruncRem(l, r) \in Int32
    BY <1>5, TruncDivInt32, TruncRemInt32
  <2>3. Fault(op, l, r) = "legal"
    BY <1>2, <1>5, <2>2 DEF Fault
  <2>4. Div(l, r) = TruncDiv(l, r) /\ Rem(l, r) = TruncRem(l, r)
    BY <1>5, <2>2, WrapSame DEF Div, Rem
  <2>5. BinaryValue(op, l, r) = IF op = "Div" THEN Div(l, r) ELSE Rem(l, r)
    BY DEF BinaryValue
  <2> QED BY <2>1, <2>2, <2>3, <2>4, <2>5
<1> QED BY <1>3, <1>4, <1>5

\* The arithmetic handlers fold to what the operators mean, or report the fault.
LEMMA ArithmeticConstsAgree ==
  ASSUME Compiling, NEW op, MulExpConst(op) \/ AddExpConst(op),
         NEW m, m = BinaryConstant(src, op), Records(m)
  PROVE  SimInv'
<1> DEFINE l == Left.val
           r == Right.val
<1>1. ASSUME NEW ops, NEW reason, NEW n, BinaryConst(ops, op, reason, n),
             l \in Int32 /\ r \in Int32 /\ op \in ops =>
               /\ Fault(op, l, r) = IF reason = "run" THEN "legal" ELSE reason
               /\ reason = "run" => n = BinaryValue(op, l, r) /\ n \in Int32
               /\ reason \in Rejections \cup {"run"}
      PROVE  SimInv'
  <2>1. reason \in Rejections \cup {"run"}
    <3>1. InConstExp /\ vals # <<>> /\ Len(vals) >= 2 /\ op \in ops
      BY <1>1, EmptySeq DEF BinaryConst
    <3>2. l \in Int32 /\ r \in Int32
      BY <3>1, ConstOperands
    <3> QED BY <1>1, <3>1, <3>2
  <2>2. l = Left.val /\ r = Right.val
    OBVIOUS
  <2> HIDE DEF l, r
  <2> QED BY <1>1, <2>1, <2>2, BinaryConstAgrees
<1>2. CASE AddExpConst(op)
  <2> DEFINE x == IF op = "Add" THEN l + r ELSE l - r
  <2>1. BinaryConst({"Add", "Sub"}, op, Checked(x), Wrap(x))
    BY <1>2 DEF AddExpConst
  <2>2. ASSUME l \in Int32, r \in Int32, op \in {"Add", "Sub"}
        PROVE  /\ Fault(op, l, r) = IF Checked(x) = "run" THEN "legal" ELSE Checked(x)
               /\ Checked(x) = "run" => Wrap(x) = BinaryValue(op, l, r) /\ Wrap(x) \in Int32
               /\ Checked(x) \in Rejections \cup {"run"}
    <3> HIDE DEF l, r
    <3>1. x = IF op = "Add" THEN l + r ELSE IF op = "Sub" THEN l - r ELSE l * r
      BY <2>2
    <3> HIDE DEF x
    <3> QED BY <2>2, <3>1, CheckedAgrees
  <2> HIDE DEF x, l, r
  <2> QED BY <1>1, <2>1, <2>2
<1>3. CASE MulExpConst(op)
  <2> DEFINE reason == IF op = "Mul" THEN Checked(l * r) ELSE CheckedDiv(l, r)
             n      == CASE op = "Mul" -> Wrap(l * r)
                         [] op = "Div" -> TruncDiv(l, r)
                         [] op = "Mod" -> TruncRem(l, r)
  <2>1. BinaryConst({"Mul", "Div", "Mod"}, op, reason, n)
    BY <1>3 DEF MulExpConst
  <2>2. ASSUME l \in Int32, r \in Int32, op \in {"Mul", "Div", "Mod"}
        PROVE  /\ Fault(op, l, r) = IF reason = "run" THEN "legal" ELSE reason
               /\ reason = "run" => n = BinaryValue(op, l, r) /\ n \in Int32
               /\ reason \in Rejections \cup {"run"}
    <3> HIDE DEF l, r
    <3>1. CASE op = "Mul"
      <4> DEFINE x == l * r
      <4>1. reason = Checked(x) /\ n = Wrap(x)
        BY <3>1
      <4>2. x = IF op = "Add" THEN l + r ELSE IF op = "Sub" THEN l - r ELSE l * r
        BY <3>1
      <4> HIDE DEF x, reason, n
      <4> QED BY <2>2, <3>1, <4>1, <4>2, CheckedAgrees
    <3>2. CASE op \in {"Div", "Mod"}
      <4>1. reason = CheckedDiv(l, r)
            /\ n = IF op = "Div" THEN TruncDiv(l, r) ELSE TruncRem(l, r)
        BY <3>2
      <4> HIDE DEF reason, n
      <4> QED BY <2>2, <3>2, <4>1, CheckedDivAgrees
    <3> QED BY <2>2, <3>1, <3>2
  <2> HIDE DEF reason, n, l, r
  <2> QED BY <1>1, <2>1, <2>2
<1> QED BY <1>2, <1>3

\* Every step within an expression agrees with the source.
LEMMA ExpsAgree ==
  ASSUME BitwiseLogic = FALSE, Compiling, NoInternalPanic', SimExps
  PROVE  SimInv'
<1>1. CASE \E c \in Literals : Number(c) /\ Records(Push(src, c))
  BY <1>1, NumberAgrees
<1>2. CASE \E n \in Names : \/ LValVar(n)   /\ Records(Use(src, n))
                            \/ LValConst(n) /\ Records(UseConst(src, n))
  BY <1>2, LValVarAgrees, LValConstAgrees
<1>3. CASE \E op \in Operators \cap UnaryOps :
             \/ UnaryVar(op)   /\ Records(Unary(src, op))
             \/ UnaryConst(op) /\ Records(UnaryConstant(src, op))
  BY <1>3, UnaryVarAgrees, UnaryConstAgrees
<1>4. ASSUME NEW op,
             \/ LOrExpVar(op) \/ LAndExpVar(op) \/ EqExpVar(op)
             \/ RelExpVar(op) \/ MulExpVar(op)  \/ AddExpVar(op),
             Records(Binary(src, op))
      PROVE  SimInv'
  BY <1>4, BinaryVarsAgree
<1>5. ASSUME NEW op,
             \/ LOrExpConst(op) \/ LAndExpConst(op) \/ EqExpConst(op) \/ RelExpConst(op)
             \/ MulExpConst(op) \/ AddExpConst(op),
             Records(BinaryConstant(src, op))
      PROVE  SimInv'
  BY <1>5, LogicConstsAgree, ArithmeticConstsAgree
<1> QED BY <1>1, <1>2, <1>3, <1>4, <1>5 DEF SimExps

-----------------------------------------------------------------------------
(* Items: declarations, statements, blocks.                                *)

\* An item that succeeds, or its part before the expression.
LEMMA ItemAgrees ==
  ASSUME Compiling, status' = "run", IsSource(src'), src'.verdict = "legal",
         src'.scopes \in Seq(DeclScopes), src'.vals = <<>>, vals' = <<>>, src'.rets \in Seq(Int),
         machine' \in Machines, MachineRuns', ScopesAgree', OwnPointers(stack)',
         StmtAgrees', RetsAgree'
  PROVE  SimInv'
<1>1. src'.vals \in Seq(Int32)
  BY EmptySeq
<1>2. src' \in SourceStates
  BY <1>1, SourceFields
<1>3. ValsAgree'
  BY EmptySeq DEF ValsAgree
<1>4. Agree'
  BY <1>2, <1>3 DEF Agree
<1> QED BY <1>4, GoesOn

\* Where an item begins nothing is held.
LEMMA NothingHeld == ASSUME Compiling, AtItem PROVE src.vals = <<>> /\ vals = <<>> /\ open > 0
<1>1. vals = <<>> /\ open > 0
  BY InItem DEF Compiling
<1>2. src.vals \in Seq(Int32) /\ Len(src.vals) = Len(vals)
  BY CompilingFacts
<1> QED BY <1>1, <1>2, EmptySeq

\* An item that changes neither table nor code.
LEMMA QuietItemAgrees ==
  ASSUME Compiling, UNCHANGED <<stack, funcs>>, status' = "run", vals' = <<>>,
         NEW m, Records(m), IsSource(m), m.verdict = "legal", m.vals = <<>>,
         m.scopes = src.scopes, m.rets = src.rets,
         stmt'.kind # "var", stmt'.kind = "assign" => ConstScopes(stack, stmt'.name) = {}
  PROVE  SimInv'
<1>1. src' = m /\ machine' = machine
  BY RecordsQuiet DEF Compiling
<1>2. Agree /\ src.scopes \in Seq(DeclScopes) /\ src.rets \in Seq(Int)
  BY CompilingFacts
<1>3. machine' \in Machines /\ MachineRuns' /\ ScopesAgree' /\ OwnPointers(stack)'
      /\ StmtAgrees' /\ RetsAgree'
  BY <1>1, <1>2 DEF Agree, MachineRuns, Top, ScopesAgree, OwnPointers, StmtAgrees, RetsAgree
<1> QED BY <1>1, <1>2, <1>3, ItemAgrees

\* The check of a declaration is that of the language.
LEMMA SameFreshness ==
  ASSUME Compiling, open > 0, NEW n
  PROVE  InCurrent(src, n) <=> Redeclares(n)
<1>1. ScopesAgree /\ src.scopes \in Seq(DeclScopes) /\ Len(src.scopes) = Len(stack)
  BY CompilingFacts DEF Agree, ScopesAgree
<1>2. stack \in Seq(Contexts) /\ stack # <<>> /\ Len(stack) \in 1 .. Len(stack)
      /\ DOMAIN stack = 1 .. Len(stack) /\ Len(stack) \in Nat
  <2>1. stack \in Seq(Contexts) /\ stack # <<>>
    BY InBlock DEF Compiling
  <2> QED BY <2>1, EmptySeq, LenProperties
<1>3. Last(src.scopes) = src.scopes[Len(stack)]
  BY <1>1 DEF Last
<1>4. DOMAIN src.scopes[Len(stack)] = DOMAIN stack[Len(stack)].global_const_table
                                        \cup DOMAIN stack[Len(stack)].global_pointer_table
  BY <1>1, <1>2 DEF ScopesAgree, ScopeAgrees
<1> QED BY <1>2, <1>3, <1>4
        DEF InCurrent, Redeclares, GetCurrentConst, GetCurrentPointer, ConstScopes, PointerScopes

\* A constant's name is checked before its expression.
LEMMA BeginConstDefAgrees ==
  ASSUME Compiling, NEW n \in Names, BeginConstDef(n),
         NEW m, m = CheckFresh(src, n), Records(m)
  PROVE  SimInv'
<1>1. IsSource(src) /\ src.verdict = "legal" /\ status = "run" /\ AtItem
  BY CompilingFacts DEF Compiling, BeginConstDef
<1>2. src.vals = <<>> /\ vals = <<>> /\ open > 0
  BY <1>1, NothingHeld
<1>3. /\ IsSource(m) /\ m.scopes = src.scopes /\ m.vals = src.vals /\ m.rets = src.rets
      /\ m.verdict = IF InCurrent(src, n) THEN "redeclared" ELSE "legal"
  BY <1>1, CheckFreshFacts
<1>4. InCurrent(src, n) <=> Redeclares(n)
  BY <1>2, SameFreshness
<1>5. CASE Redeclares(n)
  <2>1. src' = m /\ status' = "redeclared"
    BY <1>5 DEF Records, BeginConstDef
  <2> QED BY <1>3, <1>4, <1>5, <2>1, Rejects
<1>6. CASE ~Redeclares(n)
  <2>1. /\ stmt' = Suspended("const", n, 0) /\ status' = "run" /\ vals' = <<>>
        /\ UNCHANGED <<stack, funcs>>
    BY <1>1, <1>2, <1>6 DEF BeginConstDef
  <2>2. stmt'.kind = "const"
    BY <2>1 DEF Suspended
  <2> QED BY <1>2, <1>3, <1>4, <1>6, <2>1, <2>2, QuietItemAgrees
<1> QED BY <1>5, <1>6

\* A statement with an expression opens without code.
LEMMA BeginExpStmtAgrees ==
  ASSUME Compiling, NEW kind \in {"return", "raw"}, BeginExpStmt(kind), Records(src)
  PROVE  SimInv'
<1>1. IsSource(src) /\ src.verdict = "legal" /\ status = "run" /\ AtItem
  BY CompilingFacts DEF Compiling, BeginExpStmt
<1>2. src.vals = <<>> /\ vals = <<>>
  BY <1>1, NothingHeld
<1>3. /\ stmt'.kind = kind /\ status' = "run" /\ vals' = <<>> /\ UNCHANGED <<stack, funcs>>
  BY <1>1, <1>2 DEF BeginExpStmt, Suspended
<1> QED BY <1>1, <1>2, <1>3, QuietItemAgrees

\* An expression statement leaves nothing behind.
LEMMA EndRawExpAgrees ==
  ASSUME Compiling, EndRawExp, NEW m, m = Discard(src), Records(m)
  PROVE  SimInv'
<1>1. IsSource(src) /\ src.verdict = "legal" /\ status = "run"
  BY CompilingFacts DEF Compiling
<1>2. /\ IsSource(m) /\ m.scopes = src.scopes /\ m.rets = src.rets /\ m.vals = <<>>
      /\ m.verdict = "legal"
  BY <1>1, DiscardFacts
<1>3. stmt' = NoStmt /\ status' = "run" /\ vals' = <<>> /\ UNCHANGED <<stack, funcs>>
  BY <1>1 DEF EndRawExp
<1> QED BY <1>2, <1>3, NoStmtKind, QuietItemAgrees

\* A constant is looked for first, a variable after it.
LEMMA LatestFound ==
  ASSUME Compiling, open > 0, NEW n
  PROVE  /\ GetLatestConst(stack, n) = NoObj <=> ConstScopes(stack, n) = {}
         /\ GetLatestPointer(stack, n) = NoObj <=> PointerScopes(stack, n) = {}
<1>1. stack \in Seq(ContextSet(1 .. Len(funcs), Consts, Pointers))
  BY ContextSeq DEF Compiling
<1>2. \A c \in Consts : c # NoObj
  BY NoObjFacts DEF Consts, IsConst
<1>3. \A p \in Pointers : p # NoObj
  BY NoObjFacts DEF Pointers, IsPointer
<1>4. ConstScopes(stack, n) # {} => GetLatestConst(stack, n) \in Consts
  BY <1>1, LatestConst
<1>5. PointerScopes(stack, n) # {} => GetLatestPointer(stack, n) \in Pointers
  BY <1>1, LatestPointer
<1> QED BY <1>2, <1>3, <1>4, <1>5 DEF GetLatestConst, GetLatestPointer

\* An assignment finds a variable or is rejected.
LEMMA BeginAssignAgrees ==
  ASSUME Compiling, NEW n \in Names, BeginAssign(n),
         NEW m, m = CheckTarget(src, n), Records(m)
  PROVE  SimInv'
<1> DEFINE d == Meaning(src, n)
<1>1. IsSource(src) /\ src.verdict = "legal" /\ status = "run" /\ AtItem
  BY CompilingFacts DEF Compiling, BeginAssign
<1>2. src.vals = <<>> /\ vals = <<>> /\ open > 0
  BY <1>1, NothingHeld
<1>3. /\ IsSource(m) /\ m.scopes = src.scopes /\ m.vals = src.vals /\ m.rets = src.rets
      /\ m.verdict = IF d.kind = "const" THEN "assign_const"
                     ELSE IF d.kind = "none" THEN "undeclared" ELSE "legal"
  BY <1>1, CheckTargetFacts
<1>4. src' = m
  BY DEF Records
<1>5. \/ status' = "assign_const"
      \/ /\ ConstScopes(stack, n) = {} /\ PointerScopes(stack, n) = {}
         /\ status' = "undeclared"
      \/ /\ ConstScopes(stack, n) = {} /\ PointerScopes(stack, n) # {}
         /\ stmt'.kind = "assign" /\ stmt'.name = n /\ status' = "run"
  BY <1>1, <1>2, LatestFound DEF BeginAssign, Suspended
<1>6. CASE status' = "assign_const"
  BY <1>3, <1>4, <1>6, Rejects
<1>7. CASE /\ ConstScopes(stack, n) = {} /\ PointerScopes(stack, n) = {}
           /\ status' = "undeclared"
  <2>1. ScopesOf(src, n) = {}
    BY <1>2, <1>7, SameScopes
  <2>2. d.kind = "none"
    BY <2>1 DEF Meaning, Decl
  <2> QED BY <1>3, <1>4, <1>7, <2>2, Rejects
<1>8. CASE /\ ConstScopes(stack, n) = {} /\ PointerScopes(stack, n) # {}
           /\ stmt'.kind = "assign" /\ stmt'.name = n /\ status' = "run"
  <2>1. ScopesOf(src, n) # {}
    BY <1>2, <1>8, SameScopes
  <2>2. d.kind = "var"
    BY <1>2, <1>8, <2>1, SameMeaning DEF CellHolds, Decl
  <2>3. UNCHANGED <<stack, funcs>> /\ vals' = <<>> /\ m.verdict = "legal"
    BY <1>2, <1>3, <2>2 DEF BeginAssign
  <2> QED BY <1>2, <1>3, <1>8, <2>3, QuietItemAgrees
<1> QED BY <1>5, <1>6, <1>7, <1>8

-----------------------------------------------------------------------------
(* Declarations and assignments change one entry of one table.             *)

\* Inserting a pointer changes the innermost pointer table at n alone.
LEMMA InsertedPointer ==
  ASSUME NEW F, NEW consts, NEW pointers,
         NEW st \in Seq(ContextSet(F, consts, pointers)), st # <<>>,
         NEW n \in Names, NEW obj \in pointers, NEW t, t = InsertPointer(st, n, obj),
         NEW k, k = Len(st)
  PROVE  /\ Len(t) = k /\ k \in 1 .. k
         /\ \A i \in 1 .. k : i # k => t[i] = st[i]
         /\ t[k].global_const_table = st[k].global_const_table
         /\ DOMAIN t[k].global_pointer_table = DOMAIN st[k].global_pointer_table \cup {n}
         /\ \A m \in DOMAIN t[k].global_pointer_table :
              t[k].global_pointer_table[m] = IF m = n THEN obj ELSE st[k].global_pointer_table[m]
<1> DEFINE C  == ContextSet(F, consts, pointers)
           tb == Put(st[k].global_pointer_table, n, obj)
           c  == [st[k] EXCEPT !.global_pointer_table = tb]
<1>1. k \in Nat \ {0} /\ st[k] \in C /\ st \in Seq(C) /\ k \in 1 .. Len(st)
  BY LastAndFront, LenProperties
<1>2. st[k].global_pointer_table \in TableSet(pointers)
  BY <1>1 DEF ContextSet
<1>3. /\ tb \in TableSet(pointers)
      /\ DOMAIN tb = DOMAIN st[k].global_pointer_table \cup {n}
      /\ \A m \in DOMAIN tb : tb[m] = IF m = n THEN obj ELSE st[k].global_pointer_table[m]
  <2>1. tb \in TableSet(pointers)
    BY <1>2, PutIsTable
  <2> QED BY <2>1 DEF Put
<1> HIDE DEF tb
<1>4. c \in C /\ c.global_const_table = st[k].global_const_table /\ c.global_pointer_table = tb
  BY <1>1, <1>3 DEF ContextSet
<1>5. t = [st EXCEPT ![k] = c]
  BY DEF InsertPointer, tb
<1> HIDE DEF C, c
<1>6. Len(t) = k /\ \A i \in 1 .. k : t[i] = IF i = k THEN c ELSE st[i]
  BY <1>1, <1>4, <1>5, ExceptSeq
<1> QED BY <1>1, <1>3, <1>4, <1>6

\* Inserting a constant changes the innermost constant table at n alone.
LEMMA InsertedConst ==
  ASSUME NEW F, NEW consts, NEW pointers,
         NEW st \in Seq(ContextSet(F, consts, pointers)), st # <<>>,
         NEW n \in Names, NEW obj \in consts, NEW t, t = InsertConst(st, n, obj),
         NEW k, k = Len(st)
  PROVE  /\ Len(t) = k /\ k \in 1 .. k
         /\ \A i \in 1 .. k : i # k => t[i] = st[i]
         /\ t[k].global_pointer_table = st[k].global_pointer_table
         /\ DOMAIN t[k].global_const_table = DOMAIN st[k].global_const_table \cup {n}
         /\ \A m \in DOMAIN t[k].global_const_table :
              t[k].global_const_table[m] = IF m = n THEN obj ELSE st[k].global_const_table[m]
<1> DEFINE C  == ContextSet(F, consts, pointers)
           tb == Put(st[k].global_const_table, n, obj)
           c  == [st[k] EXCEPT !.global_const_table = tb]
<1>1. k \in Nat \ {0} /\ st[k] \in C /\ st \in Seq(C) /\ k \in 1 .. Len(st)
  BY LastAndFront, LenProperties
<1>2. st[k].global_const_table \in TableSet(consts)
  BY <1>1 DEF ContextSet
<1>3. /\ tb \in TableSet(consts)
      /\ DOMAIN tb = DOMAIN st[k].global_const_table \cup {n}
      /\ \A m \in DOMAIN tb : tb[m] = IF m = n THEN obj ELSE st[k].global_const_table[m]
  <2>1. tb \in TableSet(consts)
    BY <1>2, PutIsTable
  <2> QED BY <2>1 DEF Put
<1> HIDE DEF tb
<1>4. c \in C /\ c.global_pointer_table = st[k].global_pointer_table /\ c.global_const_table = tb
  BY <1>1, <1>3 DEF ContextSet
<1>5. t = [st EXCEPT ![k] = c]
  BY DEF InsertConst, tb
<1> HIDE DEF C, c
<1>6. Len(t) = k /\ \A i \in 1 .. k : t[i] = IF i = k THEN c ELSE st[i]
  BY <1>1, <1>4, <1>5, ExceptSeq
<1> QED BY <1>1, <1>3, <1>4, <1>6

\* The source's side of it.
LEMMA WithFacts ==
  ASSUME NEW scope \in DeclScopes, NEW n \in Names, NEW d \in Decls, NEW t, t = With(scope, n, d)
  PROVE  /\ t \in DeclScopes /\ DOMAIN t = DOMAIN scope \cup {n}
         /\ t[n] = d /\ \A m \in DOMAIN scope : m # n => t[m] = scope[m]
<1>1. PICK D \in SUBSET Names : scope \in [D -> Decls]
  BY DEF DeclScopes, TableSet
<1>2. t \in [D \cup {n} -> Decls]
  BY <1>1 DEF With
<1>3. D \cup {n} \in SUBSET Names
  OBVIOUS
<1> QED BY <1>1, <1>2, <1>3 DEF With, DeclScopes, TableSet

\* Declaring a name changes the innermost scope at n alone.
LEMMA DeclaredScopes ==
  ASSUME NEW s, s.scopes \in Seq(DeclScopes), NEW k, k = Len(s.scopes), k \in 1 .. k,
         NEW n \in Names, NEW d \in Decls, NEW t, t = Declared(s, n, d)
  PROVE  /\ t \in Seq(DeclScopes) /\ Len(t) = k
         /\ \A i \in 1 .. k : i # k => t[i] = s.scopes[i]
         /\ DOMAIN t[k] = DOMAIN s.scopes[k] \cup {n}
         /\ t[k][n] = d /\ \A m \in DOMAIN s.scopes[k] : m # n => t[k][m] = s.scopes[k][m]
<1> DEFINE sc  == s.scopes
           old == sc[k]
<1>1. sc \in Seq(DeclScopes) /\ k \in 1 .. Len(sc) /\ old \in DeclScopes
  BY ElementOfSeq
<1>2. PICK w : w = With(old, n, d)
  OBVIOUS
<1>3. t = [sc EXCEPT ![k] = w]
  BY <1>2 DEF Declared
<1> HIDE DEF old
<1>4. /\ w \in DeclScopes /\ DOMAIN w = DOMAIN old \cup {n}
      /\ w[n] = d /\ \A m \in DOMAIN old : m # n => w[m] = old[m]
  <2>1. w \in DeclScopes /\ DOMAIN w = DOMAIN old \cup {n}
    BY <1>1, <1>2, WithFacts
  <2>3. w[n] = d /\ \A m \in DOMAIN old : m # n => w[m] = old[m]
    BY <1>2 DEF With
  <2> QED BY <2>1, <2>3
<1> HIDE DEF sc
<1>5. t \in Seq(DeclScopes) /\ Len(t) = Len(sc)
      /\ \A i \in 1 .. Len(sc) : t[i] = IF i = k THEN w ELSE sc[i]
  BY <1>1, <1>3, <1>4, ExceptSeq
<1> QED BY <1>4, <1>5 DEF sc, old

\* What is known of the stack and the scopes in a block.
LEMMA BlockFacts ==
  ASSUME Compiling, open > 0
  PROVE  /\ stack \in Seq(ContextSet(1 .. Len(funcs), Consts, Pointers)) /\ stack # <<>>
         /\ Len(stack) \in 1 .. Len(stack) /\ Len(stack) \in Nat
         /\ src.scopes \in Seq(DeclScopes) /\ Len(src.scopes) = Len(stack)
         /\ DOMAIN stack = 1 .. Len(stack)
         /\ \A i \in 1 .. Len(stack) : ScopeAgrees(stack[i], src.scopes[i], machine.mem)
<1>1. stack \in Seq(ContextSet(1 .. Len(funcs), Consts, Pointers)) /\ stack # <<>>
  BY ContextSeq DEF Compiling
<1>2. Len(stack) \in 1 .. Len(stack) /\ Len(stack) \in Nat /\ DOMAIN stack = 1 .. Len(stack)
  BY <1>1, LastAndFront, LenProperties
<1> QED BY <1>1, <1>2, CompilingFacts DEF Agree, ScopesAgree

\* A variable's pointer keeps what it holds when the memory gains or changes
\* another one.
LEMMA DenotesKept ==
  ASSUME NEW mem, NEW mem2, NEW p, NEW d, CellHolds(mem, p, d),
         p.val \in DOMAIN mem2, mem2[p.val] = mem[p.val]
  PROVE  CellHolds(mem2, p, d)
  BY DEF CellHolds

\* A pointer of its own, inserted for a name the source declares, keeps the scopes tied.
LEMMA DeclarePointerAgrees ==
  ASSUME Compiling, open > 0, NEW n \in Names, ~Redeclares(n),
         NEW p \in Pointers, stack' = InsertPointer(stack, n, p), Unused(stack, p.val),
         NEW d \in Decls, src'.scopes = Declared(src, n, d), CellHolds(machine'.mem, p, d),
         DOMAIN machine.mem \subseteq DOMAIN machine'.mem,
         \A q \in DOMAIN machine.mem : q # p.val => machine'.mem[q] = machine.mem[q]
  PROVE  src'.scopes \in Seq(DeclScopes) /\ ScopesAgree' /\ OwnPointers(stack)'
<1> DEFINE k  == Len(stack)
           st == stack'
           sc == src'.scopes
<1>1. /\ stack \in Seq(ContextSet(1 .. Len(funcs), Consts, Pointers)) /\ stack # <<>>
      /\ k \in 1 .. k /\ k \in Nat /\ src.scopes \in Seq(DeclScopes) /\ Len(src.scopes) = k
      /\ \A i \in 1 .. k : ScopeAgrees(stack[i], src.scopes[i], machine.mem)
  BY BlockFacts
<1>2. /\ Len(st) = k
      /\ \A i \in 1 .. k : i # k => st[i] = stack[i]
      /\ st[k].global_const_table = stack[k].global_const_table
      /\ DOMAIN st[k].global_pointer_table = DOMAIN stack[k].global_pointer_table \cup {n}
      /\ \A m \in DOMAIN st[k].global_pointer_table :
           st[k].global_pointer_table[m] = IF m = n THEN p ELSE stack[k].global_pointer_table[m]
  BY <1>1, InsertedPointer
<1>3. /\ sc \in Seq(DeclScopes) /\ Len(sc) = k
      /\ \A i \in 1 .. k : i # k => sc[i] = src.scopes[i]
      /\ DOMAIN sc[k] = DOMAIN src.scopes[k] \cup {n}
      /\ sc[k][n] = d /\ \A m \in DOMAIN src.scopes[k] : m # n => sc[k][m] = src.scopes[k][m]
  BY <1>1, DeclaredScopes
<1>4. n \notin DOMAIN stack[k].global_const_table /\ n \notin DOMAIN stack[k].global_pointer_table
  BY <1>1, BlockFacts
     DEF Redeclares, GetCurrentConst, GetCurrentPointer, ConstScopes, PointerScopes
<1>5. OwnPointers(stack)
  BY CompilingFacts DEF Agree
<1> HIDE DEF k, st, sc
<1>6. \A i \in 1 .. k : \A m \in DOMAIN stack[i].global_pointer_table :
        stack[i].global_pointer_table[m].val # p.val
  BY DEF Unused, k
<1>7. ASSUME NEW i \in 1 .. k, NEW m \in DOMAIN stack[i].global_pointer_table
      PROVE  CellHolds(machine'.mem, stack[i].global_pointer_table[m], src.scopes[i][m])
  <2> DEFINE q == stack[i].global_pointer_table[m]
  <2>1. CellHolds(machine.mem, q, src.scopes[i][m]) /\ q.val # p.val
    BY <1>1, <1>6, <1>7 DEF ScopeAgrees
  <2>2. q.val \in DOMAIN machine.mem
    BY <2>1 DEF CellHolds
  <2>3. q.val \in DOMAIN machine'.mem /\ machine'.mem[q.val] = machine.mem[q.val]
    BY <2>1, <2>2
  <2> HIDE DEF q
  <2>4. CellHolds(machine'.mem, q, src.scopes[i][m])
    BY <2>1, <2>3, DenotesKept
  <2> QED BY <2>4 DEF q
<1>8. ASSUME NEW i \in 1 .. k
      PROVE  ScopeAgrees(st[i], sc[i], machine'.mem)
  <2>1. ScopeAgrees(stack[i], src.scopes[i], machine.mem)
    BY <1>1
  <2>2. CASE i # k
    <3>1. st[i] = stack[i] /\ sc[i] = src.scopes[i]
      BY <1>2, <1>3, <2>2
    <3> QED BY <1>7, <2>1, <3>1 DEF ScopeAgrees
  <2>3. CASE i = k
    <3>1. DOMAIN sc[k] = DOMAIN st[k].global_const_table \cup DOMAIN st[k].global_pointer_table
      BY <1>2, <1>3, <2>1, <2>3 DEF ScopeAgrees
    <3>2. ASSUME NEW m \in DOMAIN st[k].global_const_table
          PROVE  sc[k][m] = Decl("const", st[k].global_const_table[m].val)
      BY <1>2, <1>3, <1>4, <2>1, <2>3, <3>1, <3>2 DEF ScopeAgrees
    <3>3. ASSUME NEW m \in DOMAIN st[k].global_pointer_table
          PROVE  CellHolds(machine'.mem, st[k].global_pointer_table[m], sc[k][m])
      <4>1. m \in DOMAIN sc[k]
        BY <3>1, <3>3
      <4>2. CASE m = n
        BY <1>2, <1>3, <3>3, <4>1, <4>2
      <4>3. CASE m # n
        <5>1. m \in DOMAIN stack[k].global_pointer_table
          BY <1>2, <3>3, <4>3
        <5>2. st[k].global_pointer_table[m] = stack[k].global_pointer_table[m]
              /\ sc[k][m] = src.scopes[k][m]
          BY <1>2, <1>3, <3>3, <4>1, <4>3
        <5> QED BY <1>7, <2>3, <5>1, <5>2
      <4> QED BY <4>2, <4>3
    <3> QED BY <2>3, <3>1, <3>2, <3>3 DEF ScopeAgrees
  <2> QED BY <2>2, <2>3
<1>9. OwnPointers(st)
  <2>1. ASSUME NEW i \in 1 .. k, NEW j \in 1 .. k,
               NEW a \in DOMAIN st[i].global_pointer_table,
               NEW b \in DOMAIN st[j].global_pointer_table,
               st[i].global_pointer_table[a].val = st[j].global_pointer_table[b].val
        PROVE  i = j /\ a = b
    <3> DEFINE new(x, y) == x = k /\ y = n
    <3>1. \A x \in 1 .. k : \A y \in DOMAIN st[x].global_pointer_table :
            \/ new(x, y) /\ st[x].global_pointer_table[y].val = p.val
            \/ /\ ~new(x, y) /\ y \in DOMAIN stack[x].global_pointer_table
               /\ st[x].global_pointer_table[y] = stack[x].global_pointer_table[y]
      BY <1>2
    <3>2. CASE new(i, a) /\ new(j, b)
      BY <3>2
    <3>3. CASE new(i, a) /\ ~new(j, b)
      BY <1>6, <2>1, <3>1, <3>3
    <3>4. CASE ~new(i, a) /\ new(j, b)
      BY <1>6, <2>1, <3>1, <3>4
    <3>5. CASE ~new(i, a) /\ ~new(j, b)
      <4>1. /\ a \in DOMAIN stack[i].global_pointer_table
            /\ b \in DOMAIN stack[j].global_pointer_table
            /\ stack[i].global_pointer_table[a].val = stack[j].global_pointer_table[b].val
        BY <2>1, <3>1, <3>5
      <4> QED BY <1>5, <4>1 DEF OwnPointers, k
    <3> QED BY <3>2, <3>3, <3>4, <3>5
  <2> QED BY <1>2, <2>1 DEF OwnPointers
<1> QED BY <1>2, <1>3, <1>8, <1>9 DEF ScopesAgree, st, sc, k

\* The allocator's next pointer is nobody's.
LEMMA NextPtrUnused ==
  ASSUME Compiling, open > 0
  PROVE  Unused(stack, nextPtr)
<1>1. /\ Len(funcs) \in Nat \ {0} /\ Top.next_inst_id \in Nat /\ nextPtr \in Nat
  BY InBlock DEF Compiling, Inv, TypeInv
<1>2. TablesMatch /\ PointersApart
  BY DEF Compiling, CodeInv, ProgInv
<1> SUFFICES ASSUME NEW i \in 1 .. Len(stack), NEW n \in DOMAIN stack[i].global_pointer_table
             PROVE  stack[i].global_pointer_table[n].val # nextPtr
  BY DEF Unused
<1> DEFINE ptr == stack[i].global_pointer_table[n].val
<1>3. AllocIn(Top, Top.next_inst_id, ptr)
  BY <1>2 DEF TablesMatch, Allocated
<1> HIDE DEF ptr
<1>4. PICK id \in 0 .. Top.next_inst_id - 1 :
        Top.inst_map[id].opcode = "ALLOC" /\ Top.inst_map[id].ir_obj.val = ptr
  BY <1>3 DEF AllocIn
<1>5. IsAlloc(Len(funcs), id) /\ PointerOf(Len(funcs), id) = ptr /\ Len(funcs) \in 1 .. Len(funcs)
  BY <1>1, <1>4 DEF IsAlloc, PointerOf, Top
<1>6. ptr \in 0 .. nextPtr - 1
  BY <1>2, <1>4, <1>5 DEF PointersApart, Top
<1> QED BY <1>1, <1>6 DEF ptr

\* An instruction without a value: the machine has run it, the results are gone.
LEMMA RunsOn ==
  ASSUME Compiling, open > 0, Top'.next_inst_id = Top.next_inst_id + 1,
         NEW v \in Int, machine'.vals = Append(machine.vals, v)
  PROVE  MachineRuns'
<1>1. machine.vals \in Seq(Int) /\ Len(machine.vals) = Top.next_inst_id
  BY CompilingFacts, InBlock DEF Agree, MachineRuns, Compiling
<1>2. Len(machine'.vals) = Len(machine.vals) + 1
  BY <1>1, AppendProperties
<1> QED BY <1>1, <1>2 DEF MachineRuns

\* VarDef::parse allocates.
LEMMA AllocAgrees ==
  ASSUME Compiling, AtItem, NoInternalPanic', NEW initialized \in BOOLEAN, Alloc(initialized),
         NEW m, Records(m)
  PROVE  /\ src' = m /\ status' = "run" /\ Len(funcs') = Len(funcs)
         /\ machine' \in Machines /\ MachineRuns' /\ machine'.ret = machine.ret
         /\ DOMAIN machine'.mem = DOMAIN machine.mem \cup {nextPtr}
         /\ \A p \in DOMAIN machine'.mem :
              machine'.mem[p] = IF p = nextPtr THEN Undef ELSE machine.mem[p]
<1> DEFINE inst == Inst("Int", PointerObj(initialized, nextPtr), "ALLOC", <<BTypeOperand>>)
<1>1. Inv /\ status = "run" /\ open > 0 /\ nextPtr \in Nat
  BY InItem DEF Compiling
<1>2. inst \in InstData /\ inst.opcode = "ALLOC" /\ inst.ir_obj.val = nextPtr
  BY <1>1, AllocFits
<1>3. Emit(inst)
  BY DEF Alloc
<1> HIDE DEF inst
<1>4. /\ src' = m /\ machine' = Execute(machine, inst, BitwiseLogic)
      /\ status' = "run" /\ Len(funcs') = Len(funcs) /\ Top'.next_inst_id = Top.next_inst_id + 1
  BY <1>1, <1>2, <1>3, EmitExecutes
<1>5. machine \in Machines
  BY CompilingFacts
<1>6. /\ machine' \in Machines
      /\ machine'.vals = Append(machine.vals, Undef) /\ machine'.ret = machine.ret
      /\ DOMAIN machine'.mem = DOMAIN machine.mem \cup {nextPtr}
      /\ \A p \in DOMAIN machine'.mem :
           machine'.mem[p] = IF p = nextPtr THEN Undef ELSE machine.mem[p]
  BY <1>1, <1>2, <1>4, <1>5, ExecuteAlloc
<1>7. MachineRuns'
  BY <1>1, <1>4, <1>6, UndefFacts, RunsOn
<1> QED BY <1>4, <1>6, <1>7

\* A step that returns nothing keeps what the functions return.
LEMMA RetsKept ==
  ASSUME Compiling, Len(funcs') = Len(funcs), src'.rets = src.rets, machine'.ret = machine.ret
  PROVE  RetsAgree' /\ src'.rets \in Seq(Int)
  BY CompilingFacts DEF Agree, RetsAgree

\* A definition that fails its check.
LEMMA RedeclaredAgrees ==
  ASSUME Compiling, open > 0, NEW n, Redeclares(n), status' = "redeclared", IsSource(src'),
         src'.verdict = IF InCurrent(src, n) THEN "redeclared" ELSE "legal"
  PROVE  SimInv'
<1>1. src'.verdict = "redeclared"
  BY SameFreshness
<1> QED BY <1>1, Rejects

\* A variable's cell is allocated before its initial value is parsed.
LEMMA BeginVarDefAgrees ==
  ASSUME Compiling, NoInternalPanic', NEW n \in Names, BeginVarDef(n),
         NEW m, m = CheckFresh(src, n), Records(m)
  PROVE  SimInv'
<1>1. IsSource(src) /\ src.verdict = "legal" /\ status = "run" /\ AtItem
  BY CompilingFacts DEF Compiling, BeginVarDef
<1>2. src.vals = <<>> /\ vals = <<>> /\ open > 0
  BY <1>1, NothingHeld
<1>3. /\ IsSource(m) /\ m.scopes = src.scopes /\ m.vals = src.vals /\ m.rets = src.rets
      /\ m.verdict = IF InCurrent(src, n) THEN "redeclared" ELSE "legal"
  BY <1>1, CheckFreshFacts
<1>4. src' = m
  BY DEF Records
<1>5. CASE Redeclares(n)
  <2>1. status' = "redeclared"
    BY <1>5 DEF BeginVarDef
  <2> QED BY <1>2, <1>3, <1>4, <1>5, <2>1, RedeclaredAgrees
<1>6. CASE ~Redeclares(n)
  <2>1. Alloc(TRUE) /\ stmt' = Suspended("var", n, nextPtr) /\ vals' = <<>> /\ stack' = stack
    BY <1>2, <1>6 DEF BeginVarDef
  <2>2. /\ status' = "run" /\ Len(funcs') = Len(funcs)
        /\ machine' \in Machines /\ MachineRuns' /\ machine'.ret = machine.ret
        /\ DOMAIN machine'.mem = DOMAIN machine.mem \cup {nextPtr}
        /\ \A p \in DOMAIN machine'.mem :
             machine'.mem[p] = IF p = nextPtr THEN Undef ELSE machine.mem[p]
    BY <1>1, <2>1, AllocAgrees
  <2>3. src'.verdict = "legal"
    BY <1>2, <1>3, <1>4, <1>6, SameFreshness
  <2>4. Unused(stack, nextPtr)
    BY <1>2, NextPtrUnused
  <2>5. src.scopes \in Seq(DeclScopes) /\ Len(src.scopes) = Len(stack)
        /\ \A i \in 1 .. Len(stack) : ScopeAgrees(stack[i], src.scopes[i], machine.mem)
    BY <1>2, BlockFacts
  <2>6. ASSUME NEW i \in 1 .. Len(stack)
        PROVE  ScopeAgrees(stack[i], src.scopes[i], machine'.mem)
    <3>1. ScopeAgrees(stack[i], src.scopes[i], machine.mem)
      BY <2>5
    <3>2. ASSUME NEW a \in DOMAIN stack[i].global_pointer_table
          PROVE  CellHolds(machine'.mem, stack[i].global_pointer_table[a], src.scopes[i][a])
      <4> DEFINE q == stack[i].global_pointer_table[a]
      <4>1. CellHolds(machine.mem, q, src.scopes[i][a]) /\ q.val # nextPtr
        BY <2>4, <3>1 DEF ScopeAgrees, Unused
      <4>2. q.val \in DOMAIN machine.mem
        BY <4>1 DEF CellHolds
      <4>3. q.val \in DOMAIN machine'.mem /\ machine'.mem[q.val] = machine.mem[q.val]
        BY <2>2, <4>1, <4>2
      <4> HIDE DEF q
      <4>4. CellHolds(machine'.mem, q, src.scopes[i][a])
        BY <4>1, <4>3, DenotesKept
      <4> QED BY <4>4 DEF q
    <3> QED BY <3>1, <3>2 DEF ScopeAgrees
  <2>7. ScopesAgree'
    BY <1>3, <1>4, <2>1, <2>5, <2>6 DEF ScopesAgree
  <2>8. OwnPointers(stack)'
    BY <2>1, CompilingFacts DEF Agree, OwnPointers
  <2>9. StmtAgrees'
    <3>1. stmt'.kind = "var" /\ stmt'.pointer = nextPtr
      BY <2>1 DEF Suspended
    <3>2. Unused(stack', stmt'.pointer)
      BY <2>1, <2>4, <3>1 DEF Unused
    <3> QED BY <2>2, <3>1, <3>2 DEF StmtAgrees
  <2>10. RetsAgree' /\ src'.rets \in Seq(Int)
    BY <1>3, <1>4, <2>2, RetsKept
  <2>11. src'.scopes \in Seq(DeclScopes) /\ src'.vals = <<>> /\ IsSource(src')
    BY <1>2, <1>3, <1>4, <2>5
  <2> QED BY <2>1, <2>2, <2>3, <2>7, <2>8, <2>9, <2>10, <2>11, ItemAgrees
<1> QED BY <1>5, <1>6

\* A variable without an initial value has an undefined cell.
LEMMA VarDefOnlyAgrees ==
  ASSUME Compiling, NoInternalPanic', NEW n \in Names, VarDefOnly(n),
         NEW m, m = Declare(CheckFresh(src, n), n, "var", Undef), Records(m)
  PROVE  SimInv'
<1> DEFINE d == Decl("var", Undef)
           p == PointerObj(FALSE, nextPtr)
<1>1. IsSource(src) /\ src.verdict = "legal" /\ status = "run" /\ AtItem
  BY CompilingFacts DEF Compiling, VarDefOnly
<1>2. src.vals = <<>> /\ vals = <<>> /\ open > 0
  BY <1>1, NothingHeld
<1>3. /\ IsSource(m) /\ m.scopes = Declared(src, n, d) /\ m.vals = <<>> /\ m.rets = src.rets
      /\ m.verdict = IF InCurrent(src, n) THEN "redeclared" ELSE "legal"
  BY <1>1, DeclareFreshFacts
<1>4. src' = m
  BY DEF Records
<1>5. CASE Redeclares(n)
  <2>1. status' = "redeclared"
    BY <1>5 DEF VarDefOnly
  <2> QED BY <1>2, <1>3, <1>4, <1>5, <2>1, RedeclaredAgrees
<1>6. CASE ~Redeclares(n)
  <2>1. Alloc(FALSE) /\ stmt' = stmt /\ vals' = <<>> /\ stack' = InsertPointer(stack, n, p)
    BY <1>2, <1>6 DEF VarDefOnly
  <2>2. /\ status' = "run" /\ Len(funcs') = Len(funcs)
        /\ machine' \in Machines /\ MachineRuns' /\ machine'.ret = machine.ret
        /\ DOMAIN machine'.mem = DOMAIN machine.mem \cup {nextPtr}
        /\ \A q \in DOMAIN machine'.mem :
             machine'.mem[q] = IF q = nextPtr THEN Undef ELSE machine.mem[q]
    BY <1>1, <2>1, AllocAgrees
  <2>3. src'.verdict = "legal"
    BY <1>2, <1>3, <1>4, <1>6, SameFreshness
  <2>4. p \in Pointers /\ p.val = nextPtr /\ p.initialized = FALSE
    <3>1. nextPtr \in Nat
      BY <1>1, InItem DEF Compiling
    <3>2. p \in Pointers
      BY <3>1, PointerObjIsPointer
    <3> QED BY <3>2 DEF PointerObj
  <2>5. d \in Decls /\ CellHolds(machine'.mem, p, d)
    BY <2>2, <2>4, UndefFacts DEF Decls, Decl, CellHolds
  <2>6. Unused(stack, p.val)
    BY <1>2, <2>4, NextPtrUnused
  <2>7. /\ DOMAIN machine.mem \subseteq DOMAIN machine'.mem
        /\ \A q \in DOMAIN machine.mem : q # p.val => machine'.mem[q] = machine.mem[q]
    BY <2>2, <2>4
  <2> HIDE DEF d, p
  <2>8. src'.scopes \in Seq(DeclScopes) /\ ScopesAgree' /\ OwnPointers(stack)'
    BY <1>2, <1>3, <1>4, <1>6, <2>1, <2>4, <2>5, <2>6, <2>7, DeclarePointerAgrees
  <2>9. StmtAgrees'
    BY <1>1, <2>1 DEF StmtAgrees, AtItem
  <2>10. RetsAgree' /\ src'.rets \in Seq(Int)
    BY <1>3, <1>4, <2>2, RetsKept
  <2> QED BY <1>3, <1>4, <2>1, <2>2, <2>3, <2>8, <2>9, <2>10, ItemAgrees
<1> QED BY <1>5, <1>6

-----------------------------------------------------------------------------
(* The ends of declarations and statements.                                *)

\* A constant the source declares, inserted, keeps the scopes tied.
LEMMA DeclareConstAgrees ==
  ASSUME Compiling, open > 0, NEW n \in Names, ~Redeclares(n),
         NEW c \in Consts, stack' = InsertConst(stack, n, c), machine' = machine,
         NEW d, d = Decl("const", c.val), src'.scopes = Declared(src, n, d)
  PROVE  src'.scopes \in Seq(DeclScopes) /\ ScopesAgree' /\ OwnPointers(stack)'
<1> DEFINE k  == Len(stack)
           st == stack'
           sc == src'.scopes
<1>1. /\ stack \in Seq(ContextSet(1 .. Len(funcs), Consts, Pointers)) /\ stack # <<>>
      /\ k \in 1 .. k /\ k \in Nat /\ src.scopes \in Seq(DeclScopes) /\ Len(src.scopes) = k
      /\ \A i \in 1 .. k : ScopeAgrees(stack[i], src.scopes[i], machine.mem)
  BY BlockFacts
<1>2. /\ Len(st) = k
      /\ \A i \in 1 .. k : i # k => st[i] = stack[i]
      /\ st[k].global_pointer_table = stack[k].global_pointer_table
      /\ DOMAIN st[k].global_const_table = DOMAIN stack[k].global_const_table \cup {n}
      /\ \A m \in DOMAIN st[k].global_const_table :
           st[k].global_const_table[m] = IF m = n THEN c ELSE stack[k].global_const_table[m]
  BY <1>1, InsertedConst
<1>3. d \in Decls
  <2>1. c.val \in Int
    BY UndefFacts DEF Consts, IsConst
  <2> QED BY <2>1 DEF Decls, Decl
<1>4. /\ sc \in Seq(DeclScopes) /\ Len(sc) = k
      /\ \A i \in 1 .. k : i # k => sc[i] = src.scopes[i]
      /\ DOMAIN sc[k] = DOMAIN src.scopes[k] \cup {n}
      /\ sc[k][n] = d /\ \A m \in DOMAIN src.scopes[k] : m # n => sc[k][m] = src.scopes[k][m]
  BY <1>1, <1>3, DeclaredScopes
<1>5. n \notin DOMAIN stack[k].global_const_table /\ n \notin DOMAIN stack[k].global_pointer_table
  BY <1>1, BlockFacts
     DEF Redeclares, GetCurrentConst, GetCurrentPointer, ConstScopes, PointerScopes
<1>6. OwnPointers(stack)
  BY CompilingFacts DEF Agree
<1> HIDE DEF k, st, sc
<1>7. ASSUME NEW i \in 1 .. k
      PROVE  ScopeAgrees(st[i], sc[i], machine.mem)
  <2>1. ScopeAgrees(stack[i], src.scopes[i], machine.mem)
    BY <1>1
  <2>2. CASE i # k
    BY <1>2, <1>4, <2>1, <2>2
  <2>3. CASE i = k
    <3>1. DOMAIN sc[k] = DOMAIN st[k].global_const_table \cup DOMAIN st[k].global_pointer_table
      BY <1>2, <1>4, <2>1, <2>3 DEF ScopeAgrees
    <3>2. ASSUME NEW m \in DOMAIN st[k].global_const_table
          PROVE  sc[k][m] = Decl("const", st[k].global_const_table[m].val)
      <4>1. CASE m = n
        BY <1>2, <1>4, <3>2, <4>1
      <4>2. CASE m # n
        <5>1. m \in DOMAIN stack[k].global_const_table
          BY <1>2, <3>2, <4>2
        <5>2. m \in DOMAIN src.scopes[k]
              /\ src.scopes[k][m] = Decl("const", stack[k].global_const_table[m].val)
          BY <2>1, <2>3, <5>1 DEF ScopeAgrees
        <5> QED BY <1>2, <1>4, <3>2, <4>2, <5>2
      <4> QED BY <4>1, <4>2
    <3>3. ASSUME NEW m \in DOMAIN st[k].global_pointer_table
          PROVE  CellHolds(machine.mem, st[k].global_pointer_table[m], sc[k][m])
      <4>1. m \in DOMAIN stack[k].global_pointer_table /\ m # n
        BY <1>2, <1>5, <3>3
      <4>2. m \in DOMAIN src.scopes[k]
            /\ CellHolds(machine.mem, stack[k].global_pointer_table[m], src.scopes[k][m])
        BY <2>1, <2>3, <4>1 DEF ScopeAgrees
      <4> QED BY <1>2, <1>4, <4>1, <4>2
    <3> QED BY <2>3, <3>1, <3>2, <3>3 DEF ScopeAgrees
  <2> QED BY <2>2, <2>3
<1>8. OwnPointers(st)
  <2>1. \A i \in 1 .. k : st[i].global_pointer_table = stack[i].global_pointer_table
    BY <1>2
  <2> QED BY <1>2, <1>6, <2>1 DEF OwnPointers, k
<1> QED BY <1>2, <1>4, <1>7, <1>8 DEF ScopesAgree, st, sc, k

\* A constant is bound to the value of its expression.
LEMMA EndConstDefAgrees ==
  ASSUME Compiling, EndConstDef,
         NEW m, m = Declare(src, stmt.name, "const", src.vals[1]), Records(m)
  PROVE  SimInv'
<1> DEFINE d == Decl("const", src.vals[1])
<1>1. Complete("const") /\ stack' = InsertConst(stack, stmt.name, vals[1])
      /\ stmt' = NoStmt /\ vals' = <<>> /\ UNCHANGED <<funcs, status>>
  BY DEF EndConstDef
<1>2. /\ Inv /\ status = "run" /\ open > 0 /\ stmt.kind = "const" /\ vals[1] \in Results
      /\ stmt.name \in Names /\ ~Redeclares(stmt.name) /\ Len(vals) = 1
  BY <1>1, InComplete DEF Compiling, Complete, Inv, SuspendedCanResume
<1>3. vals[1] \in Consts /\ vals[1].kind = "Const"
  BY <1>2 DEF Results, Consts, IsResult, IsConst
<1>4. vals[1].val = src.vals[1]
  <2>1. 1 \in 1 .. Len(vals)
    BY <1>2
  <2>2. Read(machine, FromParseResult(vals[1])) = src.vals[1]
    BY <1>2, <2>1, HeldValue
  <2> QED BY <1>3, <2>2 DEF Read, FromParseResult
<1>5. IsSource(src) /\ src.verdict = "legal"
  BY CompilingFacts DEF Compiling
<1>6. /\ IsSource(m) /\ m.vals = <<>> /\ m.rets = src.rets /\ m.verdict = "legal"
      /\ m.scopes = Declared(src, stmt.name, d)
  BY <1>5, DeclareFacts
<1>7. src' = m /\ machine' = machine
  BY <1>1, <1>2, RecordsQuiet
<1>8. d = Decl("const", vals[1].val)
  BY <1>4
<1> HIDE DEF d
<1>9. src'.scopes \in Seq(DeclScopes) /\ ScopesAgree' /\ OwnPointers(stack)'
  BY <1>1, <1>2, <1>3, <1>6, <1>7, <1>8, DeclareConstAgrees
<1>10. machine' \in Machines /\ MachineRuns' /\ src'.rets \in Seq(Int) /\ RetsAgree'
  BY <1>1, <1>6, <1>7, CompilingFacts DEF Agree, MachineRuns, Top, RetsAgree
<1>11. StmtAgrees'
  BY <1>1, NoStmtKind DEF StmtAgrees
<1> QED BY <1>1, <1>2, <1>6, <1>7, <1>9, <1>10, <1>11, ItemAgrees

\* The STORE of the initial value, and the declaration that follows it.
LEMMA EndVarDefAgrees ==
  ASSUME Compiling, NoInternalPanic', EndVarDef,
         NEW m, m = Declare(src, stmt.name, "var", src.vals[1]), Records(m)
  PROVE  SimInv'
<1> DEFINE inst == Inst("Void", NoObj, "STORE",
                        <<FromParseResult(vals[1]), PointerOperand(stmt.pointer)>>)
           v == src.vals[1]
           d == Decl("var", v)
           p == PointerObj(TRUE, stmt.pointer)
<1>1. /\ Complete("var") /\ stack' = InsertPointer(stack, stmt.name, p)
      /\ stmt' = NoStmt /\ vals' = <<>>
  BY DEF EndVarDef
<1>2. /\ Inv /\ CodeInv /\ status = "run" /\ open > 0 /\ stmt.kind = "var" /\ vals[1] \in Results
      /\ stmt.name \in Names /\ ~Redeclares(stmt.name) /\ Len(vals) = 1 /\ stmt.pointer \in Nat
  BY <1>1, InComplete DEF Compiling, Complete, Inv, SuspendedCanResume, TypeInv, Stmt
<1>3. /\ vals[1].kind \in {"Const", "InstId"} /\ v \in Int32
      /\ Read(machine, FromParseResult(vals[1])) = v
  <2>1. 1 \in 1 .. Len(vals)
    BY <1>2
  <2> QED BY <1>2, <2>1, HeldValue
<1>4. Emit(inst)
  BY <1>3 DEF EndVarDef
<1>5. inst \in InstData /\ inst.opcode = "STORE" /\ inst.operands[2].val = stmt.pointer
  BY <1>1, <1>2, StoreFits DEF CodeInv, StmtMatches
<1>6. inst.operands[1] = FromParseResult(vals[1])
  BY DEF Inst
<1>7. /\ IsSource(m) /\ m.vals = <<>> /\ m.rets = src.rets /\ m.verdict = "legal"
      /\ m.scopes = Declared(src, stmt.name, d)
  BY CompilingFacts, DeclareFacts DEF Compiling
<1> HIDE DEF inst, d, v, p
<1>8. /\ src' = m /\ machine' = Execute(machine, inst, BitwiseLogic)
      /\ status' = "run" /\ Len(funcs') = Len(funcs) /\ Top'.next_inst_id = Top.next_inst_id + 1
  BY <1>2, <1>4, <1>5, EmitExecutes
<1>9. machine \in Machines /\ Agree /\ v \in Int
  BY <1>3, CompilingFacts, UndefFacts
<1>10. /\ machine' \in Machines
       /\ machine'.vals = Append(machine.vals, Undef) /\ machine'.ret = machine.ret
       /\ DOMAIN machine'.mem = DOMAIN machine.mem
       /\ \A q \in DOMAIN machine.mem :
            machine'.mem[q] = IF q = stmt.pointer THEN v ELSE machine.mem[q]
  BY <1>3, <1>5, <1>6, <1>8, <1>9, ExecuteStore
<1>11. stmt.pointer \in DOMAIN machine.mem /\ Unused(stack, stmt.pointer)
  BY <1>2, <1>9 DEF Agree, StmtAgrees
<1>12. p \in Pointers /\ p.val = stmt.pointer /\ p.initialized = TRUE
  <2>1. p \in Pointers
    BY <1>2, PointerObjIsPointer DEF p
  <2> QED BY <2>1 DEF PointerObj, p
<1>13. d \in Decls /\ CellHolds(machine'.mem, p, d)
  BY <1>3, <1>9, <1>10, <1>11, <1>12 DEF Decls, Decl, CellHolds, d
<1>14. src'.scopes \in Seq(DeclScopes) /\ ScopesAgree' /\ OwnPointers(stack)'
  BY <1>1, <1>2, <1>7, <1>8, <1>10, <1>11, <1>12, <1>13, DeclarePointerAgrees
<1>15. MachineRuns'
  BY <1>2, <1>8, <1>10, UndefFacts, RunsOn
<1>16. RetsAgree' /\ src'.rets \in Seq(Int)
  BY <1>7, <1>8, <1>10, RetsKept
<1>17. StmtAgrees'
  BY <1>1, NoStmtKind DEF StmtAgrees
<1> QED BY <1>1, <1>7, <1>8, <1>10, <1>14, <1>15, <1>16, <1>17, ItemAgrees

\* A return executes a RET of the value of its expression.
LEMMA EndReturnAgrees ==
  ASSUME Compiling, NoInternalPanic', EndReturn, NEW m, m = Return(src), Records(m)
  PROVE  SimInv'
<1> DEFINE inst == Inst("Void", NoObj, "RET", <<FromParseResult(vals[1])>>)
           v == src.vals[1]
           k == Len(funcs)
<1>1. Complete("return") /\ Emit(inst) /\ stack' = stack /\ stmt' = NoStmt /\ vals' = <<>>
  BY DEF EndReturn
<1>2. /\ Inv /\ CodeInv /\ status = "run" /\ open > 0 /\ Len(vals) = 1
  BY <1>1, InComplete DEF Compiling, Complete
<1>3. v \in Int32 /\ Read(machine, FromParseResult(vals[1])) = v
  <2>1. 1 \in 1 .. Len(vals)
    BY <1>2
  <2> QED BY <1>2, <2>1, HeldValue
<1>4. inst \in InstData /\ inst.opcode = "RET"
  BY <1>1, <1>2, RetFits
<1>5. inst.operands[1] = FromParseResult(vals[1])
  BY DEF Inst
<1>6. /\ IsSource(m) /\ m.scopes = src.scopes /\ m.vals = <<>> /\ m.verdict = "legal"
      /\ m.rets = [src.rets EXCEPT ![Len(src.rets)] = IF @ = Undef THEN v ELSE @]
  BY CompilingFacts, ReturnFacts DEF Compiling
<1> HIDE DEF inst, v
<1>7. /\ src' = m /\ machine' = Execute(machine, inst, BitwiseLogic) /\ k \in Nat \ {0}
      /\ status' = "run" /\ Len(funcs') = Len(funcs) /\ Top'.next_inst_id = Top.next_inst_id + 1
  BY <1>1, <1>2, <1>4, EmitExecutes
<1>8. machine \in Machines /\ Agree /\ v \in Int
  BY <1>3, CompilingFacts, UndefFacts
<1>9. /\ machine' \in Machines
      /\ machine'.vals = Append(machine.vals, Undef) /\ machine'.mem = machine.mem
      /\ machine'.ret = IF machine.ret = Undef THEN v ELSE machine.ret
  BY <1>3, <1>4, <1>5, <1>7, <1>8, ExecuteRet
<1>10. src.rets \in Seq(Int) /\ Len(src.rets) = k /\ machine.ret = src.rets[k]
       /\ src.scopes \in Seq(DeclScopes)
  BY <1>7, <1>8, CompilingFacts DEF Agree, RetsAgree
<1>11. src'.rets \in Seq(Int) /\ RetsAgree'
  <2> DEFINE w == IF src.rets[k] = Undef THEN v ELSE src.rets[k]
  <2>1. k \in 1 .. Len(src.rets)
    BY <1>7, <1>10
  <2>2. w \in Int
    BY <1>8, <1>10, <2>1, ElementOfSeq
  <2>3. src'.rets = [src.rets EXCEPT ![k] = w]
    BY <1>6, <1>7, <1>10
  <2>4. machine'.ret = w
    BY <1>9, <1>10
  <2> HIDE DEF w
  <2>5. src'.rets \in Seq(Int) /\ Len(src'.rets) = k /\ src'.rets[k] = w
    BY <1>10, <2>1, <2>2, <2>3, ExceptSeq
  <2> QED BY <1>7, <2>4, <2>5 DEF RetsAgree
<1>12. MachineRuns'
  BY <1>2, <1>7, <1>9, UndefFacts, RunsOn
<1>13. ScopesAgree' /\ OwnPointers(stack)'
  BY <1>1, <1>6, <1>7, <1>8, <1>9 DEF Agree, ScopesAgree, OwnPointers
<1>14. StmtAgrees'
  BY <1>1, NoStmtKind DEF StmtAgrees
<1> QED BY <1>1, <1>6, <1>7, <1>9, <1>10, <1>11, <1>12, <1>13, <1>14, ItemAgrees

-----------------------------------------------------------------------------
(* Assignments: one flag, one declaration and one cell of memory change.   *)

\* t is st with the pointer of n in context k marked.
Marked(st, n, k, t) ==
  /\ k \in 1 .. Len(st) /\ n \in DOMAIN st[k].global_pointer_table
  /\ GetLatestPointer(st, n) = st[k].global_pointer_table[n] /\ Len(t) = Len(st)
  /\ \A i \in 1 .. Len(st) :
       /\ t[i].global_const_table = st[i].global_const_table
       /\ DOMAIN t[i].global_pointer_table = DOMAIN st[i].global_pointer_table
       /\ \A m \in DOMAIN st[i].global_pointer_table :
            /\ t[i].global_pointer_table[m].val = st[i].global_pointer_table[m].val
            /\ i # k \/ m # n =>
                 t[i].global_pointer_table[m] = st[i].global_pointer_table[m]
  /\ t[k].global_pointer_table[n].initialized = TRUE

\* Marking a pointer initialized changes that flag alone.
LEMMA MarkedPointer ==
  ASSUME NEW F, NEW consts, NEW st \in Seq(ContextSet(F, consts, Pointers)), NEW n,
         PointerScopes(st, n) # {},
         NEW t, t = SetPointerInitialized(st, n), NEW k, k = Max(PointerScopes(st, n))
  PROVE  Marked(st, n, k, t)
<1> DEFINE C  == ContextSet(F, consts, Pointers)
           p  == st[k].global_pointer_table
           e  == [p[n] EXCEPT !.initialized = TRUE]
           tb == [p EXCEPT ![n] = e]
           c  == [st[k] EXCEPT !.global_pointer_table = tb]
<1>1. k \in PointerScopes(st, n) /\ k \in 1 .. Len(st) /\ st[k] \in C /\ st \in Seq(C)
  BY LatestScope DEF PointerScopes
<1>2. n \in DOMAIN p /\ p \in TableSet(Pointers)
  BY <1>1 DEF PointerScopes, ContextSet
<1>3. GetLatestPointer(st, n) = p[n]
  BY DEF GetLatestPointer
<1>4. PICK D \in SUBSET Names : p \in [D -> Pointers]
  BY <1>2 DEF TableSet
<1>5. e.val = p[n].val /\ e.initialized = TRUE /\ e \in Pointers
  <2>1. p[n] \in Pointers /\ p[n] \in IRObj
    BY <1>2, <1>4 DEF Pointers
  <2> HIDE DEF p
  <2> QED BY <2>1 DEF IRObj, Pointers, IsPointer
<1> HIDE DEF e
<1>6. /\ DOMAIN tb = DOMAIN p /\ tb[n] = e /\ tb \in TableSet(Pointers)
      /\ \A m \in DOMAIN p : m # n => tb[m] = p[m]
  <2> HIDE DEF p
  <2>1. tb \in [D -> Pointers] /\ DOMAIN p = D
    BY <1>2, <1>4, <1>5
  <2>2. tb[n] = e /\ \A m \in DOMAIN p : m # n => tb[m] = p[m]
    BY <1>2, <1>4, <2>1
  <2> QED BY <2>1, <2>2 DEF TableSet
<1> HIDE DEF tb
<1>7. c \in C /\ c.global_pointer_table = tb /\ c.global_const_table = st[k].global_const_table
  BY <1>1, <1>6 DEF ContextSet
<1>8. t = [st EXCEPT ![k] = c]
  BY DEF SetPointerInitialized, tb, e
<1> HIDE DEF C, c
<1>9. Len(t) = Len(st) /\ \A i \in 1 .. Len(st) : t[i] = IF i = k THEN c ELSE st[i]
  BY <1>1, <1>7, <1>8, ExceptSeq
<1>10. ASSUME NEW i \in 1 .. Len(st)
       PROVE  /\ t[i].global_const_table = st[i].global_const_table
              /\ DOMAIN t[i].global_pointer_table = DOMAIN st[i].global_pointer_table
              /\ \A m \in DOMAIN st[i].global_pointer_table :
                   /\ t[i].global_pointer_table[m].val = st[i].global_pointer_table[m].val
                   /\ i # k \/ m # n =>
                        t[i].global_pointer_table[m] = st[i].global_pointer_table[m]
  <2>1. CASE i # k
    BY <1>9, <2>1
  <2>2. CASE i = k
    <3>1. t[i] = c /\ st[i].global_pointer_table = p
      BY <1>9, <2>2
    <3> HIDE DEF p
    <3>2. \A m \in DOMAIN p : tb[m].val = p[m].val
      BY <1>5, <1>6
    <3> QED BY <1>6, <1>7, <2>2, <3>1, <3>2
  <2> QED BY <2>1, <2>2
<1>11. t[k].global_pointer_table[n].initialized = TRUE
  BY <1>1, <1>5, <1>6, <1>7, <1>9
<1> QED BY <1>1, <1>2, <1>3, <1>9, <1>10, <1>11 DEF Marked

\* An assignment changes the value of the definition it finds alone.
LEMMA AssignedScopes ==
  ASSUME NEW s, s.scopes \in Seq(DeclScopes), NEW n, NEW k, k = Max(ScopesOf(s, n)),
         k \in 1 .. Len(s.scopes), n \in DOMAIN s.scopes[k], s.scopes[k][n].kind = "var",
         NEW v \in Int, v = s.vals[1], NEW t, t = Assigned(s, n)
  PROVE  /\ t \in Seq(DeclScopes) /\ Len(t) = Len(s.scopes)
         /\ \A i \in 1 .. Len(s.scopes) :
              /\ DOMAIN t[i] = DOMAIN s.scopes[i]
              /\ \A m \in DOMAIN s.scopes[i] : i # k \/ m # n => t[i][m] = s.scopes[i][m]
         /\ t[k][n] = Decl("var", v)
<1> DEFINE sc  == s.scopes
           old == sc[k]
           e   == [old[n] EXCEPT !.val = v]
           new == [old EXCEPT ![n] = e]
<1>1. t = [sc EXCEPT ![k] = new]
  BY DEF Assigned
<1>2. sc \in Seq(DeclScopes) /\ k \in 1 .. Len(sc) /\ old \in DeclScopes /\ n \in DOMAIN old
      /\ old[n].kind = "var"
  BY ElementOfSeq
<1> HIDE DEF old
<1>3. PICK D \in SUBSET Names : old \in [D -> Decls]
  BY <1>2 DEF DeclScopes, TableSet
<1>4. e = Decl("var", v) /\ e \in Decls
  <2>1. old[n] \in Decls
    BY <1>2, <1>3
  <2>2. e \in Decls /\ e.kind = "var" /\ e.val = v
    BY <1>2, <2>1 DEF Decls
  <2> HIDE DEF e
  <2> QED BY <2>2 DEF Decl, Decls
<1> HIDE DEF e
<1>5. /\ new \in [D -> Decls] /\ DOMAIN new = DOMAIN old /\ new[n] = e
      /\ \A m \in DOMAIN old : m # n => new[m] = old[m]
  BY <1>2, <1>3, <1>4
<1>6. new \in DeclScopes
  BY <1>5 DEF DeclScopes, TableSet
<1> HIDE DEF new, sc
<1>7. t \in Seq(DeclScopes) /\ Len(t) = Len(sc)
      /\ \A i \in 1 .. Len(sc) : t[i] = IF i = k THEN new ELSE sc[i]
  BY <1>1, <1>2, <1>6, ExceptSeq
<1> QED BY <1>2, <1>4, <1>5, <1>7 DEF sc, old

\* The variable the compiler stores to is the one the source means, and no
\* other variable is stored in its place.
LEMMA AssignAgrees ==
  ASSUME Compiling, open > 0, NEW n \in Names, PointerScopes(stack, n) # {},
         ConstScopes(stack, n) = {}, stack' = SetPointerInitialized(stack, n),
         NEW ptr, ptr = GetLatestPointer(stack, n).val,
         NEW v \in Int32, v = src.vals[1], src'.scopes = Assigned(src, n),
         DOMAIN machine'.mem = DOMAIN machine.mem,
         \A q \in DOMAIN machine.mem :
           machine'.mem[q] = IF q = ptr THEN v ELSE machine.mem[q]
  PROVE  src'.scopes \in Seq(DeclScopes) /\ ScopesAgree' /\ OwnPointers(stack)'
<1> DEFINE k  == Max(PointerScopes(stack, n))
           l  == Len(stack)
           st == stack'
           sc == src'.scopes
<1>1. /\ stack \in Seq(ContextSet(1 .. Len(funcs), Consts, Pointers)) /\ stack # <<>>
      /\ l \in Nat /\ src.scopes \in Seq(DeclScopes) /\ Len(src.scopes) = l
      /\ \A i \in 1 .. l : ScopeAgrees(stack[i], src.scopes[i], machine.mem)
      /\ DOMAIN stack = 1 .. l
  BY BlockFacts
<1>2. /\ k \in 1 .. l /\ n \in DOMAIN stack[k].global_pointer_table
      /\ GetLatestPointer(stack, n) = stack[k].global_pointer_table[n] /\ Len(st) = l
      /\ \A i \in 1 .. l :
           /\ st[i].global_const_table = stack[i].global_const_table
           /\ DOMAIN st[i].global_pointer_table = DOMAIN stack[i].global_pointer_table
           /\ \A m \in DOMAIN stack[i].global_pointer_table :
                /\ st[i].global_pointer_table[m].val = stack[i].global_pointer_table[m].val
                /\ i # k \/ m # n =>
                     st[i].global_pointer_table[m] = stack[i].global_pointer_table[m]
      /\ st[k].global_pointer_table[n].initialized = TRUE
  <2>2. k = Max(PointerScopes(stack, n)) /\ st = SetPointerInitialized(stack, n)
    OBVIOUS
  <2>3. stack \in Seq(ContextSet(1 .. Len(funcs), Consts, Pointers))
    BY <1>1
  <2> HIDE DEF k, st, l
  <2>4. Marked(stack, n, k, st)
    BY <2>2, <2>3, MarkedPointer
  <2> QED BY <2>4 DEF Marked, l
<1>3. k = Max(ScopesOf(src, n))
  BY SameScopes
<1>4. OwnPointers(stack)
  BY CompilingFacts DEF Agree
<1>5. \A i \in 1 .. l : n \notin DOMAIN stack[i].global_const_table
  BY <1>1 DEF ConstScopes
<1> HIDE DEF k, st, sc
<1>6. ptr = stack[k].global_pointer_table[n].val
  BY <1>2
<1>7. ptr \in DOMAIN machine.mem /\ n \in DOMAIN src.scopes[k] /\ src.scopes[k][n].kind = "var"
  <2> DEFINE q == stack[k].global_pointer_table[n]
  <2>1. ScopeAgrees(stack[k], src.scopes[k], machine.mem)
    BY <1>1, <1>2
  <2>2. CellHolds(machine.mem, q, src.scopes[k][n]) /\ n \in DOMAIN src.scopes[k] /\ q.val = ptr
    BY <1>2, <1>6, <2>1 DEF ScopeAgrees
  <2> HIDE DEF q
  <2> QED BY <2>2 DEF CellHolds, Decl
<1>8. /\ sc \in Seq(DeclScopes) /\ Len(sc) = l
      /\ \A i \in 1 .. l :
           /\ DOMAIN sc[i] = DOMAIN src.scopes[i]
           /\ \A m \in DOMAIN src.scopes[i] : i # k \/ m # n => sc[i][m] = src.scopes[i][m]
      /\ sc[k][n] = Decl("var", v)
  <2>1. v \in Int /\ sc = Assigned(src, n)
    BY UndefFacts DEF sc
  <2> QED BY <1>1, <1>2, <1>3, <1>7, <2>1, AssignedScopes
<1>9. \A i \in 1 .. l : \A m \in DOMAIN stack[i].global_pointer_table :
        stack[i].global_pointer_table[m].val = ptr => i = k /\ m = n
  BY <1>2, <1>4, <1>6 DEF OwnPointers
<1>10. ASSUME NEW i \in 1 .. l, NEW m \in DOMAIN stack[i].global_pointer_table
       PROVE  CellHolds(machine'.mem, st[i].global_pointer_table[m], sc[i][m])
  <2>1. CellHolds(machine.mem, stack[i].global_pointer_table[m], src.scopes[i][m])
        /\ m \in DOMAIN src.scopes[i]
    BY <1>1 DEF ScopeAgrees
  <2>2. CASE i = k /\ m = n
    <3>1. st[i].global_pointer_table[m].val = ptr
          /\ st[i].global_pointer_table[m].initialized = TRUE
      BY <1>2, <1>6, <2>2
    <3>2. machine'.mem[ptr] = v /\ ptr \in DOMAIN machine'.mem
      BY <1>7
    <3> QED BY <1>8, <2>2, <3>1, <3>2 DEF CellHolds
  <2>3. CASE i # k \/ m # n
    <3> DEFINE q == stack[i].global_pointer_table[m]
    <3>1. st[i].global_pointer_table[m] = q /\ sc[i][m] = src.scopes[i][m]
      BY <1>2, <1>8, <2>1, <2>3
    <3>2. q.val # ptr /\ q.val \in DOMAIN machine.mem
      BY <1>9, <2>1, <2>3 DEF CellHolds
    <3>3. q.val \in DOMAIN machine'.mem /\ machine'.mem[q.val] = machine.mem[q.val]
      BY <3>2
    <3> HIDE DEF q
    <3>4. CellHolds(machine'.mem, q, src.scopes[i][m])
      BY <2>1, <3>3, DenotesKept DEF q
    <3> QED BY <3>1, <3>4
  <2> QED BY <2>2, <2>3
<1>11. ASSUME NEW i \in 1 .. l
       PROVE  ScopeAgrees(st[i], sc[i], machine'.mem)
  <2>1. ScopeAgrees(stack[i], src.scopes[i], machine.mem)
    BY <1>1
  <2>2. DOMAIN sc[i] = DOMAIN st[i].global_const_table \cup DOMAIN st[i].global_pointer_table
    BY <1>2, <1>8, <2>1 DEF ScopeAgrees
  <2>3. ASSUME NEW m \in DOMAIN st[i].global_const_table
        PROVE  sc[i][m] = Decl("const", st[i].global_const_table[m].val)
    <3>1. m \in DOMAIN stack[i].global_const_table /\ m # n
      BY <1>2, <1>5, <2>3
    <3>2. m \in DOMAIN src.scopes[i]
          /\ src.scopes[i][m] = Decl("const", stack[i].global_const_table[m].val)
      BY <2>1, <3>1 DEF ScopeAgrees
    <3> QED BY <1>2, <1>8, <3>1, <3>2
  <2>4. \A m \in DOMAIN st[i].global_pointer_table :
          CellHolds(machine'.mem, st[i].global_pointer_table[m], sc[i][m])
    BY <1>2, <1>10
  <2> QED BY <2>2, <2>3, <2>4 DEF ScopeAgrees
<1>12. OwnPointers(st)
  <2>1. ASSUME NEW i \in 1 .. l, NEW j \in 1 .. l,
               NEW a \in DOMAIN st[i].global_pointer_table,
               NEW b \in DOMAIN st[j].global_pointer_table,
               st[i].global_pointer_table[a].val = st[j].global_pointer_table[b].val
        PROVE  i = j /\ a = b
    <3>1. /\ a \in DOMAIN stack[i].global_pointer_table
          /\ b \in DOMAIN stack[j].global_pointer_table
          /\ stack[i].global_pointer_table[a].val = stack[j].global_pointer_table[b].val
      BY <1>2, <2>1
    <3> QED BY <1>4, <3>1 DEF OwnPointers
  <2> QED BY <1>2, <2>1 DEF OwnPointers
<1> QED BY <1>2, <1>8, <1>11, <1>12 DEF ScopesAgree, st, sc

\* The STORE of an assignment goes to the variable the source means.
LEMMA EndAssignAgrees ==
  ASSUME Compiling, NoInternalPanic', EndAssign,
         NEW m, m = Assign(src, stmt.name), Records(m)
  PROVE  SimInv'
<1> DEFINE inst == Inst("Void", NoObj, "STORE",
                        <<FromParseResult(vals[1]), PointerOperand(stmt.pointer)>>)
           n == stmt.name
           v == src.vals[1]
<1>1. Complete("assign") /\ stack' = SetPointerInitialized(stack, n) /\ Emit(inst)
      /\ stmt' = NoStmt /\ vals' = <<>>
  BY DEF EndAssign
<1>2. /\ Inv /\ CodeInv /\ status = "run" /\ open > 0 /\ stmt.kind = "assign"
      /\ n \in Names /\ PointerScopes(stack, n) # {} /\ Len(vals) = 1
  BY <1>1, InComplete DEF Compiling, Complete, Inv, SuspendedCanResume
<1>3. v \in Int32 /\ Read(machine, FromParseResult(vals[1])) = v
  <2>1. 1 \in 1 .. Len(vals)
    BY <1>2
  <2> QED BY <1>2, <2>1, HeldValue
<1>4. stmt.pointer = GetLatestPointer(stack, n).val
  BY <1>2 DEF CodeInv, StmtMatches
<1>5. Allocated(Top, stmt.pointer)
  <2> DEFINE k == Max(PointerScopes(stack, n))
  <2>1. k \in PointerScopes(stack, n) /\ k \in 1 .. Len(stack)
    BY <1>2, ContextSeq, LatestScope DEF PointerScopes
  <2>2. n \in DOMAIN stack[k].global_pointer_table
        /\ stmt.pointer = stack[k].global_pointer_table[n].val
    BY <1>2, <1>4, <2>1 DEF PointerScopes, GetLatestPointer
  <2> HIDE DEF k
  <2> QED BY <1>2, <2>1, <2>2 DEF CodeInv, TablesMatch
<1>6. inst \in InstData /\ inst.opcode = "STORE" /\ inst.operands[2].val = stmt.pointer
  BY <1>1, <1>2, <1>5, StoreFits
<1>7. inst.operands[1] = FromParseResult(vals[1])
  BY DEF Inst
<1>8. /\ IsSource(m) /\ m.vals = <<>> /\ m.rets = src.rets /\ m.verdict = "legal"
      /\ m.scopes = Assigned(src, n)
  BY CompilingFacts, AssignFacts DEF Compiling
<1> HIDE DEF inst, v
<1>9. /\ src' = m /\ machine' = Execute(machine, inst, BitwiseLogic)
      /\ status' = "run" /\ Len(funcs') = Len(funcs) /\ Top'.next_inst_id = Top.next_inst_id + 1
  BY <1>1, <1>2, <1>6, EmitExecutes
<1>10. machine \in Machines /\ Agree /\ v \in Int
  BY <1>3, CompilingFacts, UndefFacts
<1>11. /\ machine' \in Machines
       /\ machine'.vals = Append(machine.vals, Undef) /\ machine'.ret = machine.ret
       /\ DOMAIN machine'.mem = DOMAIN machine.mem
       /\ \A q \in DOMAIN machine.mem :
            machine'.mem[q] = IF q = stmt.pointer THEN v ELSE machine.mem[q]
  BY <1>3, <1>6, <1>7, <1>9, <1>10, ExecuteStore
<1>12. ConstScopes(stack, n) = {}
  BY <1>2, <1>10 DEF Agree, StmtAgrees
<1>13. src'.scopes \in Seq(DeclScopes) /\ ScopesAgree' /\ OwnPointers(stack)'
  <2>1. v = src.vals[1] /\ src'.scopes = Assigned(src, n)
    BY <1>8, <1>9 DEF v
  <2> HIDE DEF n
  <2> QED BY <1>1, <1>2, <1>3, <1>4, <1>11, <1>12, <2>1, AssignAgrees
<1>14. MachineRuns'
  BY <1>2, <1>9, <1>11, UndefFacts, RunsOn
<1>15. RetsAgree' /\ src'.rets \in Seq(Int)
  BY <1>8, <1>9, <1>11, RetsKept
<1>16. StmtAgrees'
  BY <1>1, NoStmtKind DEF StmtAgrees
<1> QED BY <1>1, <1>8, <1>9, <1>11, <1>13, <1>14, <1>15, <1>16, ItemAgrees

-----------------------------------------------------------------------------
(* Blocks and functions.                                                   *)

\* The scope without names is a scope.
LEMMA NoNamesFacts == NoNames \in DeclScopes /\ DOMAIN NoNames = {}
<1>1. NoNames \in [{} -> Decls] /\ DOMAIN NoNames = {}
  BY DEF NoNames
<1> QED BY <1>1 DEF DeclScopes, TableSet

\* A new machine is a machine.
LEMMA NewMachineFacts ==
  NewMachine \in Machines /\ Len(NewMachine.vals) = 0 /\ NewMachine.ret = Undef
<1>1. <<>> \in Seq(Int) /\ Len(<<>>) = 0
  BY EmptySeq
<1>2. <<>> \in [{} -> Int]
  OBVIOUS
<1>3. <<>> \in Memories
  BY <1>2 DEF Memories
<1> QED BY <1>1, <1>3, UndefFacts DEF NewMachine, Machines

\* A block opens a scope on both sides.
LEMMA BeginBlockAgrees ==
  ASSUME Compiling, BeginBlock, NEW m, m = Enter(src), Records(m)
  PROVE  SimInv'
<1> DEFINE c == NewContext(Last(stack).func, TRUE)
           l == Len(stack)
<1>1. /\ AtItem /\ stack' = EnterBlockScope(stack) /\ UNCHANGED <<funcs, stmt, vals>>
      /\ status' = IF stack # <<>> /\ Last(stack).ir_block THEN "run" ELSE "internal"
  BY DEF BeginBlock
<1>2. /\ Inv /\ Agree /\ IsSource(src) /\ src.verdict = "legal" /\ stmt.kind = "none"
      /\ open > 0 /\ vals = <<>> /\ src.vals = <<>>
  BY <1>1, CompilingFacts, NothingHeld DEF Compiling, AtItem
<1>3. /\ stack # <<>> /\ stack \in Seq(ContextSet(1 .. Len(funcs), Consts, Pointers))
      /\ Last(stack).ir_block = TRUE
  BY <1>1, <1>2, InItem, InBlock DEF Contexts
<1>4. stack' = Append(stack, c) /\ c \in Contexts /\ stack \in Seq(Contexts)
  BY <1>1, <1>3, EnterBlockScopeNested DEF Contexts
<1>5. DOMAIN c.global_pointer_table = {} /\ DOMAIN c.global_const_table = {}
  BY EmptyTableIsTable DEF NewContext
<1>6. /\ IsSource(m) /\ m.scopes = Append(src.scopes, NoNames)
      /\ m.rets = src.rets /\ m.vals = <<>> /\ m.verdict = "legal"
  BY <1>2, EnterFacts
<1>7. src' = m /\ machine' = machine
  BY <1>1, <1>2, RecordsQuiet
<1>8. /\ src.scopes \in Seq(DeclScopes) /\ Len(src.scopes) = l /\ l \in Nat
      /\ \A i \in 1 .. l : ScopeAgrees(stack[i], src.scopes[i], machine.mem)
  BY <1>2, BlockFacts
<1> HIDE DEF c
<1>9. /\ Len(stack') = l + 1 /\ \A i \in 1 .. l : stack'[i] = stack[i]
      /\ stack'[l + 1] = c
  BY <1>4, <1>8, AppendProperties
<1>10. /\ src'.scopes \in Seq(DeclScopes) /\ Len(src'.scopes) = l + 1
       /\ \A i \in 1 .. l : src'.scopes[i] = src.scopes[i]
       /\ src'.scopes[l + 1] = NoNames
  <2>1. NoNames \in DeclScopes
    BY NoNamesFacts
  <2>2. src'.scopes = Append(src.scopes, NoNames)
    BY <1>6, <1>7
  <2>3. /\ Append(src.scopes, NoNames) \in Seq(DeclScopes)
        /\ Len(Append(src.scopes, NoNames)) = Len(src.scopes) + 1
        /\ \A i \in 1 .. Len(src.scopes) : Append(src.scopes, NoNames)[i] = src.scopes[i]
        /\ Append(src.scopes, NoNames)[Len(src.scopes) + 1] = NoNames
    BY <1>8, <2>1, AppendProperties
  <2> QED BY <1>8, <2>2, <2>3
<1> HIDE DEF l
<1>11. ASSUME NEW i \in 1 .. l + 1
       PROVE  ScopeAgrees(stack'[i], src'.scopes[i], machine'.mem)
  <2>1. CASE i \in 1 .. l
    BY <1>7, <1>8, <1>9, <1>10, <2>1
  <2>2. CASE i = l + 1
    BY <1>5, <1>9, <1>10, <2>2, NoNamesFacts DEF ScopeAgrees
  <2> QED BY <1>8, <2>1, <2>2
<1>12. ScopesAgree'
  BY <1>9, <1>10, <1>11 DEF ScopesAgree
<1>13. OwnPointers(stack)'
  <2>1. OwnPointers(stack)
    BY <1>2 DEF Agree
  <2>2. ASSUME NEW i \in 1 .. l + 1, NEW n \in DOMAIN stack'[i].global_pointer_table
        PROVE  i \in 1 .. l /\ stack'[i] = stack[i]
    BY <1>5, <1>8, <1>9, <2>2
  <2> QED BY <1>9, <2>1, <2>2 DEF OwnPointers, l
<1>14. /\ machine' \in Machines /\ MachineRuns' /\ src'.rets \in Seq(Int) /\ RetsAgree'
       /\ StmtAgrees' /\ status' = "run"
  BY <1>1, <1>2, <1>3, <1>6, <1>7, CompilingFacts
     DEF Agree, MachineRuns, Top, RetsAgree, StmtAgrees
<1> QED BY <1>1, <1>2, <1>6, <1>7, <1>10, <1>12, <1>13, <1>14, ItemAgrees

\* A block closes a scope on both sides.
LEMMA EndBlockAgrees ==
  ASSUME Compiling, EndBlock, NEW m, m = Leave(src), Records(m)
  PROVE  SimInv'
<1> DEFINE l == Len(stack)
<1>1. /\ AtItem /\ stack' = ExitScope(stack) /\ UNCHANGED <<funcs, stmt, vals, status>>
  BY DEF EndBlock
<1>2. /\ Inv /\ Agree /\ IsSource(src) /\ src.verdict = "legal" /\ stmt.kind = "none"
      /\ open > 0 /\ vals = <<>> /\ src.vals = <<>> /\ status = "run"
  BY <1>1, CompilingFacts, NothingHeld DEF Compiling, AtItem
<1>3. /\ IsSource(m) /\ m.scopes = Front(src.scopes)
      /\ m.rets = src.rets /\ m.vals = <<>> /\ m.verdict = "legal"
  BY <1>2, LeaveFacts
<1>4. src' = m /\ machine' = machine
  BY <1>1, <1>2, RecordsQuiet
<1>5. /\ stack \in Seq(ContextSet(1 .. Len(funcs), Consts, Pointers)) /\ stack # <<>>
      /\ l \in 1 .. l /\ l \in Nat
      /\ src.scopes \in Seq(DeclScopes) /\ Len(src.scopes) = l
      /\ \A i \in 1 .. l : ScopeAgrees(stack[i], src.scopes[i], machine.mem)
  BY <1>2, BlockFacts
<1>6. stack' = Front(stack) /\ src.scopes # <<>>
  BY <1>1, <1>5, EmptySeq DEF ExitScope
<1>7. Len(stack') = l - 1 /\ \A i \in 1 .. l - 1 : stack'[i] = stack[i]
  BY <1>5, <1>6, LastAndFront
<1>8. /\ src'.scopes \in Seq(DeclScopes) /\ Len(src'.scopes) = l - 1
      /\ \A i \in 1 .. l - 1 : src'.scopes[i] = src.scopes[i]
  <2>1. src'.scopes = Front(src.scopes)
    BY <1>3, <1>4
  <2>2. /\ Front(src.scopes) \in Seq(DeclScopes)
        /\ Len(Front(src.scopes)) = Len(src.scopes) - 1
        /\ \A i \in 1 .. Len(src.scopes) - 1 : Front(src.scopes)[i] = src.scopes[i]
    BY <1>5, <1>6, LastAndFront
  <2> QED BY <1>5, <2>1, <2>2
<1>9. OwnPointers(stack)
  BY <1>2 DEF Agree
<1>10. ScopesAgree' /\ OwnPointers(stack)'
  BY <1>4, <1>5, <1>7, <1>8, <1>9 DEF ScopesAgree, OwnPointers
<1>11. /\ machine' \in Machines /\ MachineRuns' /\ src'.rets \in Seq(Int) /\ RetsAgree'
       /\ StmtAgrees' /\ status' = "run"
  BY <1>1, <1>2, <1>3, <1>4, CompilingFacts
     DEF Agree, MachineRuns, Top, RetsAgree, StmtAgrees
<1> QED BY <1>1, <1>2, <1>3, <1>4, <1>8, <1>10, <1>11, ItemAgrees

\* A function begins with an empty machine.
LEMMA BeginFuncAgrees ==
  ASSUME Compiling, BeginFunc, NEW m, m = EnterFunction(src), Records(m)
  PROVE  SimInv'
<1> DEFINE k == Len(funcs) + 1
<1>1. /\ AtTop /\ funcs' = Append(funcs, NewFunc)
      /\ stack' = EnterBlockScope(EnterFuncScope(stack, k))
      /\ UNCHANGED <<stmt, vals, status>>
  BY DEF BeginFunc
<1>2. /\ Inv /\ Agree /\ IsSource(src) /\ src.verdict = "legal" /\ src.rets \in Seq(Int)
      /\ src.vals \in Seq(Int32) /\ Len(src.vals) = Len(vals)
  BY CompilingFacts DEF Compiling
<1>3. /\ status = "run" /\ stack = <<>> /\ vals = <<>> /\ stmt.kind = "none"
      /\ funcs \in Seq(FuncSet) /\ Len(funcs) \in Nat
  BY <1>1, <1>2, InTop
<1>4. src.vals = <<>>
  BY <1>2, <1>3, EmptySeq
<1>5. /\ IsSource(m) /\ m.scopes = <<NoNames>> /\ m.rets = Append(src.rets, Undef)
      /\ m.vals = <<>> /\ m.verdict = "legal"
  BY <1>2, <1>4, EnterFunctionFacts
<1>6. funcs' \in Seq(FuncSet) /\ Len(funcs') = k /\ funcs'[k] = NewFunc /\ k \in Nat \ {0}
  BY <1>1, <1>3, NewFuncIsFunc, AppendProperties
<1>7. src' = m /\ machine' = NewMachine
  <2>1. Len(funcs') > Len(funcs)
    BY <1>3, <1>6
  <2> QED BY <2>1 DEF Records
<1>8. /\ Len(stack') = 1
      /\ DOMAIN stack'[1].global_const_table = {}
      /\ DOMAIN stack'[1].global_pointer_table = {}
  <2>1. k \in 1 .. k
    BY <1>6
  <2>2. stack' = EnterBlockScope(EnterFuncScope(<<>>, k))
    BY <1>1, <1>3
  <2> HIDE DEF k
  <2> QED BY <2>1, <2>2, EnterBlockScopeFirst
<1>9. src'.scopes \in Seq(DeclScopes) /\ Len(src'.scopes) = 1 /\ src'.scopes[1] = NoNames
  <2>1. src'.scopes = <<NoNames>>
    BY <1>5, <1>7
  <2>2. <<NoNames>> \in Seq(DeclScopes) /\ Len(<<NoNames>>) = 1 /\ <<NoNames>>[1] = NoNames
    BY NoNamesFacts
  <2> QED BY <2>1, <2>2
<1>10. ScopesAgree' /\ OwnPointers(stack)'
  BY <1>8, <1>9, NoNamesFacts DEF ScopesAgree, ScopeAgrees, OwnPointers
<1>11. src'.rets \in Seq(Int) /\ RetsAgree'
  <2>1. Len(src.rets) = Len(funcs)
    BY <1>2 DEF Agree, RetsAgree
  <2>2. src'.rets \in Seq(Int) /\ Len(src'.rets) = k /\ src'.rets[k] = Undef
    <3>1. src'.rets = Append(src.rets, Undef)
      BY <1>5, <1>7
    <3>2. Undef \in Int /\ src.rets \in Seq(Int)
      BY <1>2, UndefFacts
    <3>3. /\ Append(src.rets, Undef) \in Seq(Int)
          /\ Len(Append(src.rets, Undef)) = Len(src.rets) + 1
          /\ Append(src.rets, Undef)[Len(src.rets) + 1] = Undef
      BY <3>2, AppendProperties
    <3> QED BY <2>1, <3>1, <3>3
  <2> QED BY <1>6, <1>7, <2>2, NewMachineFacts DEF RetsAgree
<1>12. machine' \in Machines /\ MachineRuns'
  BY <1>6, <1>7, NewMachineFacts DEF MachineRuns, Top, NewFunc
<1>13. StmtAgrees'
  BY <1>1, <1>3 DEF StmtAgrees
<1> QED BY <1>1, <1>3, <1>5, <1>7, <1>9, <1>10, <1>11, <1>12, <1>13, ItemAgrees

\* A function that ends leaves no scope on either side.
LEMMA EndFuncAgrees ==
  ASSUME Compiling, Inv', EndFunc, NEW m, m = Leave(src), Records(m)
  PROVE  SimInv'
<1> DEFINE k == Len(funcs)
<1>1. AtItem /\ open = 1 /\ open' = 0 /\ UNCHANGED <<stmt, vals>>
  BY DEF EndFunc
<1>2. /\ Inv /\ CodeInv /\ Agree /\ IsSource(src) /\ src.verdict = "legal" /\ stmt.kind = "none"
      /\ open > 0 /\ vals = <<>> /\ src.vals = <<>>
  BY <1>1, CompilingFacts, NothingHeld DEF Compiling, AtItem
<1>3. status' = "run" /\ Len(funcs') = k /\ k \in Nat
      /\ \A i \in 1 .. k : SameParts(funcs[i], funcs'[i])
  BY <1>2, EndFuncKeeps
<1>4. k \in Nat \ {0} /\ Len(stack) = 1
  BY <1>1, <1>2, InItem, InBlock
<1>5. funcs'[k].next_inst_id = funcs[k].next_inst_id
  BY <1>3, <1>4 DEF SameParts
<1>6. src' = m /\ machine' = machine
  BY <1>3, <1>5 DEF Records
<1>7. /\ IsSource(m) /\ m.scopes = Front(src.scopes)
      /\ m.rets = src.rets /\ m.vals = <<>> /\ m.verdict = "legal"
  BY <1>2, LeaveFacts
<1>8. Len(stack') = 0
  BY <1>1, <1>3 DEF Inv, ScopesBalanced
<1>9. src'.scopes \in Seq(DeclScopes) /\ Len(src'.scopes) = 0
  <2>1. src.scopes \in Seq(DeclScopes) /\ Len(src.scopes) = 1
    BY <1>2, <1>4, BlockFacts
  <2>2. src.scopes # <<>>
    BY <2>1, EmptySeq
  <2> QED BY <1>6, <1>7, <2>1, <2>2, LastAndFront
<1>10. ScopesAgree' /\ OwnPointers(stack)'
  BY <1>8, <1>9 DEF ScopesAgree, OwnPointers
<1>11. machine' \in Machines /\ MachineRuns' /\ src'.rets \in Seq(Int) /\ RetsAgree' /\ StmtAgrees'
  BY <1>1, <1>2, <1>3, <1>4, <1>5, <1>6, <1>7, CompilingFacts
     DEF Agree, MachineRuns, Top, RetsAgree, StmtAgrees
<1> QED BY <1>1, <1>2, <1>3, <1>6, <1>7, <1>9, <1>10, <1>11, ItemAgrees

-----------------------------------------------------------------------------
(* The whole.                                                              *)

\* The compiler begins with the invariant.
LEMMA SimInitInv == SimInit => SimInv
<1> SUFFICES ASSUME SimInit PROVE SimInv
  OBVIOUS
<1>1. /\ status = "run" /\ stack = <<>> /\ funcs = <<>> /\ vals = <<>> /\ stmt = NoStmt
      /\ src = SrcInit /\ machine = NewMachine
  BY DEF SimInit, Init
<1>2. /\ IsSource(src) /\ src.scopes = <<>> /\ src.vals = <<>> /\ src.rets = <<>>
      /\ src.verdict = "legal"
  BY <1>1 DEF SrcInit, IsSource
<1>3. src.scopes \in Seq(DeclScopes) /\ src.vals \in Seq(Int32) /\ src.rets \in Seq(Int)
  BY <1>2, EmptySeq
<1>4. src \in SourceStates
  BY <1>2, <1>3, SourceFields
<1>5. Len(stack) = 0 /\ Len(funcs) = 0 /\ Len(vals) = 0 /\ Len(src.scopes) = 0
      /\ Len(src.vals) = 0 /\ Len(src.rets) = 0
  BY <1>1, <1>2, EmptySeq
<1>6. Agree
  BY <1>1, <1>4, <1>5, NewMachineFacts, NoStmtKind
     DEF Agree, MachineRuns, ScopesAgree, OwnPointers, StmtAgrees, ValsAgree, RetsAgree
<1> QED BY <1>1, <1>2, <1>6 DEF SimInv, FaultsRejected, RejectionsJustified, Rejections

\* The compiler with its source and machine takes the compiler's steps.
LEMMA SimStepIsStep == SimNext => Next
<1>1. SimFunctions => Functions
  BY DEF SimFunctions, Functions
<1>2. SimItems => Items
  BY DEF SimItems, Items
<1>3. SimExps => Exps
  BY DEF SimExps, Exps
<1> QED BY <1>1, <1>2, <1>3 DEF SimNext, Next

\* Every step between functions keeps the invariant.
LEMMA FunctionsAgree ==
  ASSUME Compiling, Inv', SimFunctions
  PROVE  SimInv'
<1>1. CASE BeginFunc /\ Records(EnterFunction(src))
  BY <1>1, BeginFuncAgrees
<1>2. CASE EndFunc /\ Records(Leave(src))
  BY <1>2, EndFuncAgrees
<1>3. CASE Finish /\ Records(src)
  <2>1. src' = src /\ status' = "ok"
    BY <1>3 DEF Records, Finish
  <2> QED BY <2>1, CompilingFacts
          DEF Compiling, SimInv, FaultsRejected, RejectionsJustified, Rejections
<1> QED BY <1>1, <1>2, <1>3 DEF SimFunctions

\* Every step of a statement or a definition keeps the invariant.
LEMMA ItemsAgree ==
  ASSUME Compiling, NoInternalPanic', SimItems
  PROVE  SimInv'
<1>1. CASE (BeginBlock /\ Records(Enter(src))) \/ (EndBlock /\ Records(Leave(src)))
  BY <1>1, BeginBlockAgrees, EndBlockAgrees
<1>2. ASSUME NEW n \in Names,
             \/ BeginConstDef(n) /\ Records(CheckFresh(src, n))
             \/ BeginVarDef(n)   /\ Records(CheckFresh(src, n))
             \/ VarDefOnly(n)    /\ Records(Declare(CheckFresh(src, n), n, "var", Undef))
             \/ BeginAssign(n)   /\ Records(CheckTarget(src, n))
      PROVE  SimInv'
  BY <1>2, BeginConstDefAgrees, BeginVarDefAgrees, VarDefOnlyAgrees, BeginAssignAgrees
<1>3. CASE \E kind \in {"return", "raw"} : BeginExpStmt(kind) /\ Records(src)
  BY <1>3, BeginExpStmtAgrees
<1>4. CASE \/ EndConstDef /\ Records(Declare(src, stmt.name, "const", src.vals[1]))
           \/ EndVarDef   /\ Records(Declare(src, stmt.name, "var", src.vals[1]))
           \/ EndAssign   /\ Records(Assign(src, stmt.name))
           \/ EndReturn   /\ Records(Return(src))
           \/ EndRawExp   /\ Records(Discard(src))
  BY <1>4, EndConstDefAgrees, EndVarDefAgrees, EndAssignAgrees, EndReturnAgrees, EndRawExpAgrees
<1> QED BY <1>1, <1>2, <1>3, <1>4 DEF SimItems

\* So does every step, and a step that changes nothing.
LEMMA SimStep ==
  ASSUME BitwiseLogic = FALSE, Inv, Inv', CodeInv, SimInv, [SimNext]_simvars
  PROVE  SimInv'
<1>1. CASE UNCHANGED simvars
  <2>1. UNCHANGED <<stack, funcs, stmt, vals, status, src, machine>>
    BY <1>1 DEF simvars
  <2>2. IsSource(src)' /\ FaultsRejected' /\ RejectionsJustified'
    BY <2>1 DEF SimInv, FaultsRejected, RejectionsJustified
  <2>3. Agree => Agree'
    BY <2>1 DEF Agree, MachineRuns, Top, ScopesAgree, OwnPointers, StmtAgrees, Unused,
                ValsAgree, RetsAgree
  <2> QED BY <2>1, <2>2, <2>3 DEF SimInv
<1>2. CASE SimNext
  <2>1. status = "run" /\ IsSource(src) /\ src.verdict \in {"legal", "not_constant"}
    BY <1>2, SimStepIsStep, NextRuns DEF SimInv, FaultsRejected
  <2>2. CASE src.verdict = "not_constant"
    <3>1. IsSource(src') /\ src'.verdict = "not_constant"
      BY <1>2, <2>1, <2>2, FaultStays DEF KeepsFault
    <3> QED BY <3>1 DEF SimInv, FaultsRejected, RejectionsJustified
  <2>3. CASE src.verdict = "legal"
    <3>1. Compiling /\ NoInternalPanic'
      BY <2>1, <2>3 DEF Compiling, Inv
    <3> QED BY <1>2, <3>1, FunctionsAgree, ItemsAgree, ExpsAgree DEF SimNext
  <2> QED BY <2>1, <2>2, <2>3
<1> QED BY <1>1, <1>2

\* The machine's memory is the source's variables, all the way.
THEOREM SimInvIsInvariant ==
  ASSUME BitwiseLogic = FALSE
  PROVE  SimSpec => [](Inv /\ CodeInv /\ SimInv)
<1>1. SimInit => Inv /\ CodeInv /\ SimInv
  BY InitInv, CodeInit, SimInitInv DEF SimInit
<1>2. Inv /\ CodeInv /\ SimInv /\ [SimNext]_simvars => (Inv /\ CodeInv /\ SimInv)'
  <2> SUFFICES ASSUME Inv, CodeInv, SimInv, [SimNext]_simvars
               PROVE  Inv' /\ CodeInv' /\ SimInv'
    OBVIOUS
  <2>1. [Next]_vars
    BY SimStepIsStep DEF simvars, vars
  <2>2. Inv' /\ CodeInv'
    BY <2>1, InvStep, CodeStep
  <2> QED BY <2>2, SimStep
<1> QED BY <1>1, <1>2, PTL DEF SimSpec

\* Whatever legal program is compiled, the code has computed what the source
\* means at every point: the results that are held, every constant and every
\* variable of every open scope, and the value that is returned.
THEOREM CodeKeepsMeaning ==
  ASSUME BitwiseLogic = FALSE
  PROVE  SimSpec => []CodeMeansSource
<1>1. Inv /\ CodeInv /\ SimInv => CodeMeansSource
  BY SimInvMeans
<1> QED BY <1>1, SimInvIsInvariant, PTL

\* A fault of the source does not go unnoticed, but for a name in a constant
\* expression that is no constant.
THEOREM NoFaultOverlooked ==
  ASSUME BitwiseLogic = FALSE
  PROVE  SimSpec => []FaultsRejected
<1>1. Inv /\ CodeInv /\ SimInv => FaultsRejected
  BY DEF SimInv
<1> QED BY <1>1, SimInvIsInvariant, PTL

\* A program is rejected for a fault it has.
THEOREM NoFaultInvented ==
  ASSUME BitwiseLogic = FALSE
  PROVE  SimSpec => []RejectionsJustified
<1>1. Inv /\ CodeInv /\ SimInv => RejectionsJustified
  BY DEF SimInv
<1> QED BY <1>1, SimInvIsInvariant, PTL
=============================================================================
