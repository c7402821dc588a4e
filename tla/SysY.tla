-------------------------------- MODULE SysY --------------------------------
(***************************************************************************)
(* The source language: what a SysY program of the grammar in              *)
(* src/src/sysy.lalrpop means, and which programs are legal, without any   *)
(* of the compiler's tables, pointers or instructions.  Programs have no   *)
(* branches, so a program is interpreted as it is read.                    *)
(*                                                                         *)
(* Scopes are lexical: a name means its innermost declaration, and the     *)
(* scope of a declaration begins after its initial value (the compiler's   *)
(* order; C would begin it before).  Arithmetic is that of 32-bit two's    *)
(* complement numbers, && and || give truth values, and division by zero   *)
(* gives what RISC-V gives; in a constant expression division by zero and  *)
(* overflow make the program illegal.                                      *)
(***************************************************************************)
EXTENDS KoopaExec, SequencesExt

Decl(kind, val) == [kind |-> kind, val |-> val]

\* The interpreter: the open scopes, innermost last, each from names to
\* declarations; the values of finished sub-expressions; what each function
\* returned; and the first fault of the program, if any.
SrcInit == [scopes |-> <<>>, vals |-> <<>>, rets |-> <<>>, verdict |-> "legal"]

NoNames == [n \in {} |-> Decl("var", Undef)]

EnterFunction(s) == [s EXCEPT !.scopes = <<NoNames>>, !.rets = Append(@, Undef)]
Enter(s)         == [s EXCEPT !.scopes = Append(@, NoNames)]
Leave(s)         == [s EXCEPT !.scopes = Front(@)]

\* Only the first fault counts.
Judge(s, fault, bad) ==
  [s EXCEPT !.verdict = IF @ = "legal" /\ bad THEN fault ELSE @]

InCurrent(s, n) == n \in DOMAIN Last(s.scopes)
ScopesOf(s, n)  == {i \in DOMAIN s.scopes : n \in DOMAIN s.scopes[i]}
Meaning(s, n)   == IF ScopesOf(s, n) = {} THEN Decl("none", Undef)
                   ELSE s.scopes[Max(ScopesOf(s, n))][n]

\* A declaration about to be read, and one that has been.
CheckFresh(s, n) == Judge(s, "redeclared", InCurrent(s, n))
Declare(s, n, kind, val) ==
  [s EXCEPT !.vals = <<>>,
            !.scopes[Len(s.scopes)] =
               [m \in DOMAIN @ \cup {n} |-> IF m = n THEN Decl(kind, val) ELSE @[m]]]

\* The target of an assignment, and the assignment.
CheckTarget(s, n) ==
  Judge(Judge(s, "assign_const", Meaning(s, n).kind = "const"),
        "undeclared", Meaning(s, n).kind = "none")
Assign(s, n) ==
  [s EXCEPT !.vals = <<>>, !.scopes[Max(ScopesOf(s, n))][n].val = s.vals[1]]

Return(s)  ==
  [s EXCEPT !.vals = <<>>, !.rets[Len(s.rets)] = IF @ = Undef THEN s.vals[1] ELSE @]
Discard(s) == [s EXCEPT !.vals = <<>>]

Push(s, v) == [s EXCEPT !.vals = Append(@, v)]

\* A name in an expression the program computes, in a constant expression.
Use(s, n) ==
  Push(Judge(Judge(s, "undefined", Meaning(s, n).kind = "none"),
             "uninitialized", Meaning(s, n) = Decl("var", Undef)),
       Meaning(s, n).val)
UseConst(s, n) ==
  Push(Judge(s, "not_constant", Meaning(s, n).kind # "const"), Meaning(s, n).val)

UnaryValue(op, v) ==
  CASE op = "Plus" -> v [] op = "Minus" -> Wrap(-v) [] op = "Not" -> Truth(v = 0)

BinaryValue(op, l, r) ==
  CASE op = "Or"  -> Truth(l # 0 \/ r # 0)
    [] op = "And" -> Truth(l # 0 /\ r # 0)
    [] op = "Eq"  -> Truth(l = r)
    [] op = "Ne"  -> Truth(l # r)
    [] op = "Lt"  -> Truth(l < r)
    [] op = "Gt"  -> Truth(l > r)
    [] op = "Le"  -> Truth(l <= r)
    [] op = "Ge"  -> Truth(l >= r)
    [] op = "Mul" -> Wrap(l * r)
    [] op = "Div" -> Div(l, r)
    [] op = "Mod" -> Rem(l, r)
    [] op = "Add" -> Wrap(l + r)
    [] op = "Sub" -> Wrap(l - r)

\* The result has no 32-bit representation; l % r needs that of l / r.  In a
\* release build only a division that overflows is an error.
Overflows(op, l, r) ==
  CASE op = "Add"             -> OverflowChecks /\ l + r \notin Int32
    [] op = "Sub"             -> OverflowChecks /\ l - r \notin Int32
    [] op = "Mul"             -> OverflowChecks /\ l * r \notin Int32
    [] op \in {"Div", "Mod"}  -> r # 0 /\ TruncDiv(l, r) \notin Int32
    [] OTHER                  -> FALSE

ReplaceLast(s, k, v) ==
  [s EXCEPT !.vals = Append(SubSeq(@, 1, Len(@) - k), v)]

\* An operator applied to the last value or the last two.
Unary(s, op)  == ReplaceLast(s, 1, UnaryValue(op, Last(s.vals)))
Binary(s, op) ==
  ReplaceLast(s, 2, BinaryValue(op, s.vals[Len(s.vals) - 1], Last(s.vals)))

\* The same in a constant expression.
UnaryConstant(s, op) ==
  Judge(Unary(s, op), "overflow",
        op = "Minus" /\ OverflowChecks /\ -Last(s.vals) \notin Int32)
BinaryConstant(s, op) ==
  LET l == s.vals[Len(s.vals) - 1]
      r == Last(s.vals)
  IN Judge(Judge(Binary(s, op), "div_zero", op \in {"Div", "Mod"} /\ r = 0),
           "overflow", Overflows(op, l, r))
=============================================================================
