------------------------------ MODULE Grammar ------------------------------
(***************************************************************************)
(* The grammar of src/src/sysy.lalrpop: what its productions derive from a *)
(* sequence of tokens.  lalrpop generates an LR(1) parser that accepts a   *)
(* sequence exactly if it has a derivation.  The tree is given by the      *)
(* order in which the handlers of src/src/ast visit it: a derivation is    *)
(* the sequence of their visits, named after the actions of IRGen.         *)
(***************************************************************************)
EXTENDS Lexer

\* A handler's visit: the operator, or the identifier or number it reads.
Visit(handler, op, token) == [handler |-> handler, op |-> op, token |-> token]
Visits(handler)           == {<<Visit(handler, "none", NoToken)>>}
VisitsOf(handler, token)  == {<<Visit(handler, "none", token)>>}

\* All of X before all of Y (nothing, if Y is empty, whatever X is).
X ** Y == IF Y = {} THEN {} ELSE {x \o y : x \in X, y \in Y}

\* The operators of each level, and the level below it.
BinaryLevel ==
  [LOrExp  |-> [below |-> "LAndExp",  ops |-> {"||"}],
   LAndExp |-> [below |-> "EqExp",    ops |-> {"&&"}],
   EqExp   |-> [below |-> "RelExp",   ops |-> {"==", "!="}],
   RelExp  |-> [below |-> "AddExp",   ops |-> {"<", "<=", ">", ">="}],
   AddExp  |-> [below |-> "MulExp",   ops |-> {"+", "-"}],
   MulExp  |-> [below |-> "UnaryExp", ops |-> {"*", "/", "%"}]]
BinaryOp(sign) ==
  CASE sign = "||" -> "Or"  [] sign = "&&" -> "And" [] sign = "==" -> "Eq"  [] sign = "!=" -> "Ne"
    [] sign = "<"  -> "Lt"  [] sign = "<=" -> "Le"  [] sign = ">"  -> "Gt"  [] sign = ">=" -> "Ge"
    [] sign = "+"  -> "Add" [] sign = "-"  -> "Sub" [] sign = "*"  -> "Mul" [] sign = "/"  -> "Div"
    [] sign = "%"  -> "Mod"
UnarySigns == {"+", "-", "!"}
UnaryOp(sign) ==
  CASE sign = "+" -> "Plus" [] sign = "-" -> "Minus" [] sign = "!" -> "Not"
BType == {"int", "void"}

\* The places an operator can be at, and the two sides; a level is left
\* recursive.  Slip: right recursive.
Sides_Right(nt, i, k, j) == [left  |-> <<BinaryLevel[nt].below, i, k - 1>>,
                             right |-> <<nt, k + 1, j>>]
Sides(nt, i, k, j) == [left  |-> <<nt, i, k - 1>>,
                       right |-> <<BinaryLevel[nt].below, k + 1, j>>]

Is(tokens, k, kinds) == k \in DOMAIN tokens /\ tokens[k].kind \in kinds
Places(tokens, i, j, kinds) == {k \in i .. j : Is(tokens, k, kinds)}

-----------------------------------------------------------------------------
\* What a nonterminal of expressions derives from the tokens i .. j, where D
\* is what they derive from fewer tokens, and the ones below it from these.
ExpNonTerminals == {"Exp", "UnaryExp", "PrimaryExp"} \cup DOMAIN BinaryLevel
Expression(D, tokens, nt, i, j) ==
  CASE nt = "Exp" -> D[<<"LOrExp", i, j>>]
    [] nt \in DOMAIN BinaryLevel ->
         D[<<BinaryLevel[nt].below, i, j>>] \cup
         UNION {D[Sides(nt, i, k, j).left] ** D[Sides(nt, i, k, j).right]
                  ** {<<Visit(nt, BinaryOp(tokens[k].kind), NoToken)>>} :
                  k \in Places(tokens, i + 1, j - 1, BinaryLevel[nt].ops)}
    [] nt = "UnaryExp" ->
         D[<<"PrimaryExp", i, j>>] \cup
         (IF i < j /\ Is(tokens, i, UnarySigns)
          THEN D[<<"UnaryExp", i + 1, j>>]
                 ** {<<Visit("UnaryExp", UnaryOp(tokens[i].kind), NoToken)>>}
          ELSE {})
    [] nt = "PrimaryExp" ->
         IF i = j /\ Is(tokens, i, {"ident"}) THEN VisitsOf("LVal", tokens[i])
         ELSE IF i = j /\ Is(tokens, i, {"number"}) THEN VisitsOf("Number", tokens[i])
         ELSE IF i < j /\ Is(tokens, i, {"("}) /\ Is(tokens, j, {")"}) THEN D[<<"Exp", i + 1, j - 1>>]
         ELSE {}

Expressions(tokens) ==
  LET D[s \in ExpNonTerminals \X (1 .. Len(tokens) + 1) \X (0 .. Len(tokens))] ==
        Expression(D, tokens, s[1], s[2], s[3])
  IN D

-----------------------------------------------------------------------------
NonTerminals ==
  {"CompUnit", "FuncDef", "Block", "BlockItems", "BlockItem", "Stmt", "Decl",
   "ConstDefs", "ConstDef", "VarDefs", "VarDef"}

\* Slip: the definitions after the first are not pushed.
Definitions_FirstOnly(first, others) == IF others = {} THEN {} ELSE first

\* A list of definitions, the first of which ends before a comma.
Definitions(first, others) == first ** others

\* What the other nonterminals derive from the tokens i .. j, where D is what
\* they derive from parts of these, and E what the expressions derive: a list
\* of each, ended by one of ends, and a list separated by commas.
Repeated(D, tokens, nt, each, ends, i, j) ==
  IF i > j THEN {<<>>}
  ELSE UNION {D[<<each, i, k>>] ** D[<<nt, k + 1, j>>] : k \in Places(tokens, i, j, ends)}
Separated(D, tokens, nt, each, i, j) ==
  D[<<each, i, j>>] \cup
  UNION {Definitions(D[<<each, i, k - 1>>], D[<<nt, k + 1, j>>]) : k \in Places(tokens, i, j, {","})}

\* A name that gets a value.
Valued(E, tokens, begin, end, i, j) ==
  IF Is(tokens, i, {"ident"}) /\ Is(tokens, i + 1, {"="})
  THEN VisitsOf(begin, tokens[i]) ** E[<<"Exp", i + 2, j>>] ** Visits(end)
  ELSE {}

Stmt(D, E, tokens, i, j) ==
  (Visits("BeginBlock") ** D[<<"Block", i, j>>] ** Visits("EndBlock"))
  \cup
  (IF ~Is(tokens, j, {";"}) THEN {}
   ELSE IF i = j THEN {<<>>}
   ELSE (Visits("BeginRaw") ** E[<<"Exp", i, j - 1>>] ** Visits("EndRawExp"))
        \cup (IF Is(tokens, i, {"return"})
              THEN Visits("BeginReturn") ** E[<<"Exp", i + 1, j - 1>>] ** Visits("EndReturn")
              ELSE {})
        \cup Valued(E, tokens, "BeginAssign", "EndAssign", i, j - 1))

Decl(D, tokens, i, j) ==
  IF ~Is(tokens, j, {";"}) THEN {}
  ELSE (IF Is(tokens, i, {"const"}) /\ Is(tokens, i + 1, BType) THEN D[<<"ConstDefs", i + 2, j - 1>>] ELSE {})
       \cup (IF Is(tokens, i, BType) THEN D[<<"VarDefs", i + 1, j - 1>>] ELSE {})

Production(D, E, tokens, nt, i, j) ==
  CASE nt = "CompUnit" -> Repeated(D, tokens, "CompUnit", "FuncDef", {"}"}, i, j)
    [] nt = "FuncDef" ->
         IF /\ Is(tokens, i, BType) /\ Is(tokens, i + 1, {"ident"})
            /\ Is(tokens, i + 2, {"("}) /\ Is(tokens, i + 3, {")"})
         THEN VisitsOf("BeginFunc", tokens[i + 1]) ** D[<<"Block", i + 4, j>>] ** Visits("EndFunc")
         ELSE {}
    [] nt = "Block" ->
         IF i < j /\ Is(tokens, i, {"{"}) /\ Is(tokens, j, {"}"}) THEN D[<<"BlockItems", i + 1, j - 1>>] ELSE {}
    [] nt = "BlockItems" -> Repeated(D, tokens, "BlockItems", "BlockItem", {";", "}"}, i, j)
    [] nt = "BlockItem"  -> D[<<"Stmt", i, j>>] \cup D[<<"Decl", i, j>>]
    [] nt = "Stmt"       -> Stmt(D, E, tokens, i, j)
    [] nt = "Decl"       -> Decl(D, tokens, i, j)
    [] nt = "ConstDefs"  -> Separated(D, tokens, "ConstDefs", "ConstDef", i, j)
    [] nt = "ConstDef"   -> Valued(E, tokens, "BeginConstDef", "EndConstDef", i, j)
    [] nt = "VarDefs"    -> Separated(D, tokens, "VarDefs", "VarDef", i, j)
    [] nt = "VarDef" ->
         (IF i = j /\ Is(tokens, i, {"ident"}) THEN VisitsOf("VarDefOnly", tokens[i]) ELSE {})
         \cup Valued(E, tokens, "BeginVarDef", "EndVarDef", i, j)

Derivations(tokens) ==
  LET D[s \in NonTerminals \X (1 .. Len(tokens) + 1) \X (0 .. Len(tokens))] ==
        Production(D, Expressions(tokens), tokens, s[1], s[2], s[3])
  IN D[<<"CompUnit", 1, Len(tokens)>>]
=============================================================================
