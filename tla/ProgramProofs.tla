--------------------------- MODULE ProgramProofs ---------------------------
(***************************************************************************)
(* The programs of a source text, for every text of any length: proof that *)
(* ProgramsReadBack is an invariant of Syntax.                             *)
(*                                                                         *)
(* A definition, a line and a block end where they must, so a program has  *)
(* one derivation at most.  By induction on what the productions refer to, *)
(* every derivation can be written: the writer's steps put the tokens of   *)
(* each part where the productions look for them, wherever the part occurs *)
(* in a longer program, and leave the words of what was read.              *)
(***************************************************************************)
EXTENDS SyntaxProofs

-----------------------------------------------------------------------------
(* The productions of programs.                                            *)

\* X is what the expressions of t derive; D what the nonterminals do, and
\* where they weigh less than w.
Produces(D, X, t) ==
  \A nt \in NonTerminals, i \in 1 .. Len(t) + 1, j \in 0 .. Len(t) :
    D[<<nt, i, j>>] = Production(D, X, t, nt, i, j)
ProducesBelow(D, X, t, w) ==
  \A nt \in NonTerminals, i \in 1 .. Len(t) + 1, j \in 0 .. Len(t) :
    Weight(nt, i, j) < w => D[<<nt, i, j>>] = Production(D, X, t, nt, i, j)
ProgramSpans(t) == NonTerminals \X (1 .. Len(t) + 1) \X (0 .. Len(t))

LEMMA ProgramRanks ==
  /\ \A nt \in NonTerminals : Rank[nt] \in 0 .. 8
  /\ Rank["ConstDef"] = 0 /\ Rank["VarDef"] = 0 /\ Rank["ConstDefs"] = 1 /\ Rank["VarDefs"] = 1
  /\ Rank["Decl"] = 2 /\ Rank["Block"] = 3 /\ Rank["Stmt"] = 4 /\ Rank["BlockItem"] = 5
  /\ Rank["BlockItems"] = 6 /\ Rank["FuncDef"] = 7 /\ Rank["CompUnit"] = 8
<1>1. /\ Rank["ConstDef"] = 0 /\ Rank["VarDef"] = 0 /\ Rank["ConstDefs"] = 1 /\ Rank["VarDefs"] = 1
      /\ Rank["Decl"] = 2 /\ Rank["Block"] = 3 /\ Rank["Stmt"] = 4 /\ Rank["BlockItem"] = 5
      /\ Rank["BlockItems"] = 6 /\ Rank["FuncDef"] = 7 /\ Rank["CompUnit"] = 8
  BY DEF Rank
<1> QED BY <1>1 DEF NonTerminals

\* The parts of a list.
LEMMA ListSpans ==
  ASSUME NEW n \in Nat, NEW nt, NEW each, Rank[nt] \in 0 .. 8, Rank[each] \in 0 .. 8,
         Rank[each] < Rank[nt], NEW i \in 1 .. n + 1, NEW j \in 0 .. n
  PROVE  /\ Weight(each, i, j) < Weight(nt, i, j)
         /\ \A k \in i .. j :
              /\ k \in 1 .. n /\ k \in 0 .. n /\ k - 1 \in 0 .. n /\ k + 1 \in 1 .. n + 1
              /\ Weight(each, i, k) < Weight(nt, i, j) /\ Weight(each, i, k - 1) < Weight(nt, i, j)
              /\ Weight(nt, k + 1, j) < Weight(nt, i, j)
<1>1. i \in Int /\ j \in Int
  OBVIOUS
<1>2. Weight(each, i, j) < Weight(nt, i, j)
  BY <1>1, LowerRank
<1>3. ASSUME NEW k \in i .. j
      PROVE  /\ k \in 1 .. n /\ k \in 0 .. n /\ k - 1 \in 0 .. n /\ k + 1 \in 1 .. n + 1
             /\ Weight(each, i, k) < Weight(nt, i, j) /\ Weight(each, i, k - 1) < Weight(nt, i, j)
             /\ Weight(nt, k + 1, j) < Weight(nt, i, j)
  <2>1. /\ k \in 1 .. n /\ k \in 0 .. n /\ k - 1 \in 0 .. n /\ k + 1 \in 1 .. n + 1
        /\ k \in Int /\ k - 1 \in Int /\ k + 1 \in Int
    BY <1>1
  <2>2. Size(i, k - 1) < Size(i, j) /\ Size(k + 1, j) < Size(i, j)
        /\ (Size(i, k) < Size(i, j) \/ Size(i, k) = Size(i, j))
    BY <1>1, <2>1 DEF Size
  <2>3. Weight(each, i, k) < Weight(nt, i, j)
    BY <1>1, <2>1, <2>2, LighterBy
  <2>4. Weight(each, i, k - 1) < Weight(nt, i, j)
    BY <1>1, <2>1, <2>2, LighterBy
  <2>5. Weight(nt, k + 1, j) < Weight(nt, i, j)
    BY <1>1, <2>1, <2>2, LighterBy
  <2> QED BY <2>1, <2>3, <2>4, <2>5
<1> QED BY <1>2, <1>3

LEMMA ShorterSpan ==
  ASSUME NEW n \in Nat, NEW nt, NEW m, Rank[nt] \in 0 .. 8, Rank[m] \in 0 .. 8, Rank[m] < Rank[nt],
         NEW i \in 1 .. n + 1, NEW j \in 0 .. n, NEW p \in 1 .. n + 1, NEW q \in 0 .. n, i <= p, q <= j
  PROVE  Weight(m, p, q) < Weight(nt, i, j)
<1>1. i \in Int /\ j \in Int /\ p \in Int /\ q \in Int
  OBVIOUS
<1>2. Size(p, q) < Size(i, j) \/ Size(p, q) = Size(i, j)
  BY <1>1 DEF Size
<1> QED BY <1>1, <1>2, LighterBy

LEMMA InsideBlock ==
  ASSUME NEW n \in Nat, NEW i \in 1 .. n + 1, NEW j \in 0 .. n, i < j
  PROVE  i + 1 \in 1 .. n + 1 /\ j - 1 \in 0 .. n /\ Weight("BlockItems", i + 1, j - 1) < Weight("Block", i, j)
<1>1. i \in Int /\ j \in Int /\ i + 1 \in Int /\ j - 1 \in Int /\ i + 1 \in 1 .. n + 1 /\ j - 1 \in 0 .. n
  OBVIOUS
<1>2. Size(i + 1, j - 1) < Size(i, j)
  BY <1>1 DEF Size
<1> QED BY <1>1, <1>2, LighterBy, ProgramRanks

Item(D, nt, each, i, j, k)  == D[<<each, i, k>>] ** D[<<nt, k + 1, j>>]
Split(D, nt, each, i, j, k) == D[<<each, i, k - 1>>] ** D[<<nt, k + 1, j>>]
AllItems(D, nt, each, i, j, P)  == UNION {Item(D, nt, each, i, j, k) : k \in P}
AllSplits(D, nt, each, i, j, P) == UNION {Split(D, nt, each, i, j, k) : k \in P}

LEMMA RepeatedIs ==
  ASSUME NEW D, NEW t, NEW nt, NEW each, NEW ends, NEW i \in Int, NEW j \in Int
  PROVE  Repeated(D, t, nt, each, ends, i, j) =
           IF i > j THEN {<<>>} ELSE AllItems(D, nt, each, i, j, Places(t, i, j, ends))
  BY DEF Repeated, Item, AllItems

LEMMA SeparatedIs ==
  ASSUME NEW D, NEW t, NEW nt, NEW each, NEW i \in Int, NEW j \in Int
  PROVE  Separated(D, t, nt, each, i, j) =
           D[<<each, i, j>>] \cup AllSplits(D, nt, each, i, j, Places(t, i, j, {","}))
  BY DEF Separated, Split, Definitions, AllSplits

\* D and E derive the same from spans that weigh less than w.
SameBelow(D, E, n, w) ==
  \A m \in NonTerminals, p \in 1 .. n + 1, q \in 0 .. n :
    Weight(m, p, q) < w => D[<<m, p, q>>] = E[<<m, p, q>>]

LEMMA ListsSame ==
  ASSUME NEW t, NEW n \in Nat, NEW nt \in NonTerminals, NEW each \in NonTerminals,
         Rank[each] < Rank[nt], NEW i \in 1 .. n + 1, NEW j \in 0 .. n, NEW ends, NEW D, NEW E,
         SameBelow(D, E, n, Weight(nt, i, j))
  PROVE  /\ Repeated(D, t, nt, each, ends, i, j) = Repeated(E, t, nt, each, ends, i, j)
         /\ Separated(D, t, nt, each, i, j) = Separated(E, t, nt, each, i, j)
<1>0. /\ Weight(each, i, j) < Weight(nt, i, j)
      /\ \A k \in i .. j :
           /\ k \in 1 .. n /\ k \in 0 .. n /\ k - 1 \in 0 .. n /\ k + 1 \in 1 .. n + 1
           /\ Weight(each, i, k) < Weight(nt, i, j) /\ Weight(each, i, k - 1) < Weight(nt, i, j)
           /\ Weight(nt, k + 1, j) < Weight(nt, i, j)
  BY ProgramRanks, ListSpans
<1>1. ASSUME NEW k \in i .. j
      PROVE  Item(D, nt, each, i, j, k) = Item(E, nt, each, i, j, k)
             /\ Split(D, nt, each, i, j, k) = Split(E, nt, each, i, j, k)
  <2>1. D[<<each, i, k>>] = E[<<each, i, k>>] /\ D[<<each, i, k - 1>>] = E[<<each, i, k - 1>>]
        /\ D[<<nt, k + 1, j>>] = E[<<nt, k + 1, j>>]
    BY <1>0 DEF SameBelow
  <2> QED BY <2>1 DEF Item, Split
<1>2. \A K : Places(t, i, j, K) \subseteq i .. j
  BY DEF Places
<1> i \in Int /\ j \in Int
  OBVIOUS
<1>3. ASSUME NEW P, P \subseteq i .. j
      PROVE  AllItems(D, nt, each, i, j, P) = AllItems(E, nt, each, i, j, P)
             /\ AllSplits(D, nt, each, i, j, P) = AllSplits(E, nt, each, i, j, P)
  <2>1. \A k \in P : Item(D, nt, each, i, j, k) = Item(E, nt, each, i, j, k)
                     /\ Split(D, nt, each, i, j, k) = Split(E, nt, each, i, j, k)
    BY <1>1, <1>3
  <2>2. {Item(D, nt, each, i, j, k) : k \in P} = {Item(E, nt, each, i, j, k) : k \in P}
    BY <2>1
  <2>3. {Split(D, nt, each, i, j, k) : k \in P} = {Split(E, nt, each, i, j, k) : k \in P}
    BY <2>1
  <2> QED BY <2>2, <2>3 DEF AllItems, AllSplits
<1>4. D[<<each, i, j>>] = E[<<each, i, j>>]
  BY <1>0 DEF SameBelow
<1>5. Repeated(D, t, nt, each, ends, i, j) = Repeated(E, t, nt, each, ends, i, j)
  <2>1. AllItems(D, nt, each, i, j, Places(t, i, j, ends)) = AllItems(E, nt, each, i, j, Places(t, i, j, ends))
    BY <1>2, <1>3
  <2>2. Repeated(D, t, nt, each, ends, i, j) =
          IF i > j THEN {<<>>} ELSE AllItems(D, nt, each, i, j, Places(t, i, j, ends))
    BY RepeatedIs
  <2>3. Repeated(E, t, nt, each, ends, i, j) =
          IF i > j THEN {<<>>} ELSE AllItems(E, nt, each, i, j, Places(t, i, j, ends))
    BY RepeatedIs
  <2> QED BY <2>1, <2>2, <2>3
<1>6. Separated(D, t, nt, each, i, j) = Separated(E, t, nt, each, i, j)
  <2>1. AllSplits(D, nt, each, i, j, Places(t, i, j, {","})) = AllSplits(E, nt, each, i, j, Places(t, i, j, {","}))
    BY <1>2, <1>3
  <2>2. Separated(D, t, nt, each, i, j) =
          D[<<each, i, j>>] \cup AllSplits(D, nt, each, i, j, Places(t, i, j, {","}))
    BY SeparatedIs, Zenon
  <2>3. Separated(E, t, nt, each, i, j) =
          E[<<each, i, j>>] \cup AllSplits(E, nt, each, i, j, Places(t, i, j, {","}))
    BY SeparatedIs, Zenon
  <2> QED BY <1>4, <2>1, <2>2, <2>3
<1> QED BY <1>5, <1>6

LEMMA ProductionSame ==
  ASSUME NEW t, Len(t) \in Nat, DOMAIN t = 1 .. Len(t), NEW nt \in NonTerminals,
         NEW i \in 1 .. Len(t) + 1, NEW j \in 0 .. Len(t), NEW X, NEW D, NEW E,
         SameBelow(D, E, Len(t), Weight(nt, i, j))
  PROVE  Production(D, X, t, nt, i, j) = Production(E, X, t, nt, i, j)
<1> DEFINE N == Len(t)
<1>ij. i \in Int /\ j \in Int
  OBVIOUS
<1>0. \A k : k \in DOMAIN t => k \in 1 .. N
  OBVIOUS
<1>1. ASSUME NEW m \in NonTerminals, Rank[m] < Rank[nt], NEW p \in 1 .. N + 1, NEW q \in 0 .. N, i <= p, q <= j
      PROVE  D[<<m, p, q>>] = E[<<m, p, q>>]
  <2>1. Rank[m] \in 0 .. 8 /\ Rank[nt] \in 0 .. 8
    BY ProgramRanks
  <2>2. Weight(m, p, q) < Weight(nt, i, j)
    BY <1>1, <2>1, ShorterSpan
  <2> QED BY <2>2 DEF SameBelow
<1>2. ASSUME NEW each \in NonTerminals, Rank[each] < Rank[nt], NEW ends
      PROVE  /\ Repeated(D, t, nt, each, ends, i, j) = Repeated(E, t, nt, each, ends, i, j)
             /\ Separated(D, t, nt, each, i, j) = Separated(E, t, nt, each, i, j)
  BY <1>2, ListsSame
<1>3. {"CompUnit", "FuncDef", "Block", "BlockItems", "BlockItem", "Stmt", "Decl",
       "ConstDefs", "ConstDef", "VarDefs", "VarDef"} = NonTerminals
  BY DEF NonTerminals
<1>4. i <= i /\ j <= j /\ j \in Int /\ i \in Int
  OBVIOUS
<1>5. CASE nt = "CompUnit"
  <2>1. Rank["FuncDef"] < Rank[nt] /\ "FuncDef" \in NonTerminals
    BY <1>3, <1>5, ProgramRanks
  <2>2. Repeated(D, t, "CompUnit", "FuncDef", {"}"}, i, j) = Repeated(E, t, "CompUnit", "FuncDef", {"}"}, i, j)
    BY <1>2, <1>5, <2>1
  <2>3. Production(D, X, t, "CompUnit", i, j) = Repeated(D, t, "CompUnit", "FuncDef", {"}"}, i, j)
    BY DEF Production
  <2>4. Production(E, X, t, "CompUnit", i, j) = Repeated(E, t, "CompUnit", "FuncDef", {"}"}, i, j)
    BY DEF Production
  <2> QED BY <1>5, <2>2, <2>3, <2>4
<1>6. CASE nt = "BlockItems"
  <2>1. Rank["BlockItem"] < Rank[nt] /\ "BlockItem" \in NonTerminals
    BY <1>3, <1>6, ProgramRanks
  <2>2. Repeated(D, t, "BlockItems", "BlockItem", {";", "}"}, i, j) = Repeated(E, t, "BlockItems", "BlockItem", {";", "}"}, i, j)
    BY <1>2, <1>6, <2>1
  <2>3. Production(D, X, t, "BlockItems", i, j) = Repeated(D, t, "BlockItems", "BlockItem", {";", "}"}, i, j)
    BY DEF Production
  <2>4. Production(E, X, t, "BlockItems", i, j) = Repeated(E, t, "BlockItems", "BlockItem", {";", "}"}, i, j)
    BY DEF Production
  <2> QED BY <1>6, <2>2, <2>3, <2>4
<1>7. CASE nt = "ConstDefs"
  <2>1. Rank["ConstDef"] < Rank[nt] /\ "ConstDef" \in NonTerminals
    BY <1>3, <1>7, ProgramRanks
  <2>2. Separated(D, t, "ConstDefs", "ConstDef", i, j) = Separated(E, t, "ConstDefs", "ConstDef", i, j)
    BY <1>2, <1>7, <2>1
  <2>3. Production(D, X, t, "ConstDefs", i, j) = Separated(D, t, "ConstDefs", "ConstDef", i, j)
    BY DEF Production
  <2>4. Production(E, X, t, "ConstDefs", i, j) = Separated(E, t, "ConstDefs", "ConstDef", i, j)
    BY DEF Production
  <2> QED BY <1>7, <2>2, <2>3, <2>4
<1>8. CASE nt = "VarDefs"
  <2>1. Rank["VarDef"] < Rank[nt] /\ "VarDef" \in NonTerminals
    BY <1>3, <1>8, ProgramRanks
  <2>2. Separated(D, t, "VarDefs", "VarDef", i, j) = Separated(E, t, "VarDefs", "VarDef", i, j)
    BY <1>2, <1>8, <2>1
  <2>3. Production(D, X, t, "VarDefs", i, j) = Separated(D, t, "VarDefs", "VarDef", i, j)
    BY DEF Production
  <2>4. Production(E, X, t, "VarDefs", i, j) = Separated(E, t, "VarDefs", "VarDef", i, j)
    BY DEF Production
  <2> QED BY <1>8, <2>2, <2>3, <2>4
<1>9. CASE nt = "FuncDef"
  <2>1. Rank["Block"] < Rank[nt] /\ "Block" \in NonTerminals
    BY <1>3, <1>9, ProgramRanks
  <2>2. ASSUME Is(t, i + 3, {")"}) PROVE D[<<"Block", i + 4, j>>] = E[<<"Block", i + 4, j>>]
    <3>1. i + 4 \in 1 .. N + 1 /\ i <= i + 4
      BY <1>0, <2>2 DEF Is
    <3> QED BY <1>1, <1>4, <2>1, <3>1
  <2> DEFINE d == D[<<"Block", i + 4, j>>]
             e == E[<<"Block", i + 4, j>>]
  <2>3. Production(D, X, t, "FuncDef", i, j) =
          IF Is(t, i, BType) /\ Is(t, i + 1, {"ident"}) /\ Is(t, i + 2, {"("}) /\ Is(t, i + 3, {")"})
          THEN VisitsOf("BeginFunc", t[i + 1]) ** d ** Visits("EndFunc") ELSE {}
    BY DEF Production
  <2>4. Production(E, X, t, "FuncDef", i, j) =
          IF Is(t, i, BType) /\ Is(t, i + 1, {"ident"}) /\ Is(t, i + 2, {"("}) /\ Is(t, i + 3, {")"})
          THEN VisitsOf("BeginFunc", t[i + 1]) ** e ** Visits("EndFunc") ELSE {}
    BY DEF Production
  <2> HIDE DEF d, e
  <2>5. Is(t, i + 3, {")"}) => d = e
    BY <2>2 DEF d, e
  <2> QED BY <1>9, <2>3, <2>4, <2>5, Zenon
<1>10. CASE nt = "Block"
  <2>1. i < j => D[<<"BlockItems", i + 1, j - 1>>] = E[<<"BlockItems", i + 1, j - 1>>]
    <3>1. i < j => /\ i + 1 \in 1 .. N + 1 /\ j - 1 \in 0 .. N
                   /\ Weight("BlockItems", i + 1, j - 1) < Weight("Block", i, j)
      BY InsideBlock
    <3> QED BY <1>3, <1>10, <3>1 DEF SameBelow
  <2>2. Production(D, X, t, "Block", i, j) =
          IF i < j /\ Is(t, i, {"{"}) /\ Is(t, j, {"}"}) THEN D[<<"BlockItems", i + 1, j - 1>>] ELSE {}
    BY DEF Production
  <2>3. Production(E, X, t, "Block", i, j) =
          IF i < j /\ Is(t, i, {"{"}) /\ Is(t, j, {"}"}) THEN E[<<"BlockItems", i + 1, j - 1>>] ELSE {}
    BY DEF Production
  <2> QED BY <1>10, <2>1, <2>2, <2>3, Zenon
<1>11. CASE nt = "BlockItem"
  <2>1. Rank["Stmt"] < Rank[nt] /\ Rank["Decl"] < Rank[nt] /\ "Stmt" \in NonTerminals /\ "Decl" \in NonTerminals
    BY <1>3, <1>11, ProgramRanks
  <2>2. D[<<"Stmt", i, j>>] = E[<<"Stmt", i, j>>] /\ D[<<"Decl", i, j>>] = E[<<"Decl", i, j>>]
    BY <1>1, <1>4, <2>1
  <2>3. Production(D, X, t, "BlockItem", i, j) = D[<<"Stmt", i, j>>] \cup D[<<"Decl", i, j>>]
    BY DEF Production
  <2>4. Production(E, X, t, "BlockItem", i, j) = E[<<"Stmt", i, j>>] \cup E[<<"Decl", i, j>>]
    BY DEF Production
  <2> QED BY <1>11, <2>2, <2>3, <2>4, Zenon
<1>12. CASE nt = "Stmt"
  <2>1. Rank["Block"] < Rank[nt] /\ "Block" \in NonTerminals
    BY <1>3, <1>12, ProgramRanks
  <2>2. D[<<"Block", i, j>>] = E[<<"Block", i, j>>]
    BY <1>1, <1>4, <2>1
  <2>3. Stmt(D, X, t, i, j) = Stmt(E, X, t, i, j)
    BY <2>2 DEF Stmt
  <2>4. Production(D, X, t, "Stmt", i, j) = Stmt(D, X, t, i, j)
    BY DEF Production
  <2>5. Production(E, X, t, "Stmt", i, j) = Stmt(E, X, t, i, j)
    BY DEF Production
  <2> QED BY <1>12, <2>3, <2>4, <2>5
<1>13. CASE nt = "Decl"
  <2>1. Rank["ConstDefs"] < Rank[nt] /\ Rank["VarDefs"] < Rank[nt]
        /\ "ConstDefs" \in NonTerminals /\ "VarDefs" \in NonTerminals
    BY <1>3, <1>13, ProgramRanks
  <2>2. ASSUME Is(t, j, {";"}), Is(t, i + 1, BType)
        PROVE  D[<<"ConstDefs", i + 2, j - 1>>] = E[<<"ConstDefs", i + 2, j - 1>>]
    <3>1. i + 2 \in 1 .. N + 1 /\ i <= i + 2 /\ j - 1 \in 0 .. N /\ j - 1 <= j
      <4>1. i + 1 \in 1 .. N /\ j \in 1 .. N
        BY <2>2 DEF Is
      <4> QED BY <4>1
    <3> QED BY <1>1, <2>1, <3>1
  <2>3. ASSUME Is(t, j, {";"}), Is(t, i, BType)
        PROVE  D[<<"VarDefs", i + 1, j - 1>>] = E[<<"VarDefs", i + 1, j - 1>>]
    <3>1. i + 1 \in 1 .. N + 1 /\ i <= i + 1 /\ j - 1 \in 0 .. N /\ j - 1 <= j
      <4>1. i \in 1 .. N /\ j \in 1 .. N
        BY <2>3 DEF Is
      <4> QED BY <4>1
    <3> QED BY <1>1, <2>1, <3>1
  <2>4. Decl(D, t, i, j) = Decl(E, t, i, j)
    BY <2>2, <2>3 DEF Decl
  <2>5. Production(D, X, t, "Decl", i, j) = Decl(D, t, i, j)
    BY DEF Production
  <2>6. Production(E, X, t, "Decl", i, j) = Decl(E, t, i, j)
    BY DEF Production
  <2> QED BY <1>13, <2>4, <2>5, <2>6
<1>14. CASE nt = "ConstDef"
  BY <1>14 DEF Production
<1>15. CASE nt = "VarDef"
  BY <1>15 DEF Production
<1> QED BY <1>3, <1>5, <1>6, <1>7, <1>8, <1>9, <1>10, <1>11, <1>12, <1>13, <1>14, <1>15

LEMMA SpansOf ==
  ASSUME NEW t, NEW s \in ProgramSpans(t)
  PROVE  /\ s[1] \in NonTerminals /\ s[2] \in 1 .. Len(t) + 1 /\ s[3] \in 0 .. Len(t)
         /\ s = <<s[1], s[2], s[3]>>
  BY DEF ProgramSpans

LEMMA ProducesExists ==
  ASSUME NEW t, Len(t) \in Nat, DOMAIN t = 1 .. Len(t), NEW X
  PROVE  \E D : ProducesBelow(D, X, t, 9 * Len(t) + 9)
<1> DEFINE N == Len(t)
           M == 9 * N + 9
           S == {w \in 0 .. M : \E D : ProducesBelow(D, X, t, w)}
<1>1. N \in Nat /\ M \in Nat
  OBVIOUS
<1>2. 0 \in S
  <2>1. 0 \in 0 .. M
    BY <1>1
  <2>2. ASSUME NEW nt \in NonTerminals, NEW i \in 1 .. N + 1, NEW j \in 0 .. N
        PROVE  ~(Weight(nt, i, j) < 0)
    <3>1. Weight(nt, i, j) \in 0 .. 9 * N + 8
      BY <1>1, WeightFacts, ProgramRanks
    <3> QED BY <3>1
  <2>3. ProducesBelow({}, X, t, 0)
    BY <2>2 DEF ProducesBelow
  <2> QED BY <2>1, <2>3
<1>3. ASSUME NEW w \in 0 .. M - 1, w \in S PROVE w + 1 \in S
  <2>1. PICK D : ProducesBelow(D, X, t, w)
    BY <1>3
  <2> DEFINE E == [s \in ProgramSpans(t) |-> IF Weight(s[1], s[2], s[3]) = w
                                      THEN Production(D, X, t, s[1], s[2], s[3]) ELSE D[s]]
  <2>2. ASSUME NEW nt \in NonTerminals, NEW i \in 1 .. N + 1, NEW j \in 0 .. N
        PROVE  E[<<nt, i, j>>] = IF Weight(nt, i, j) = w THEN Production(D, X, t, nt, i, j) ELSE D[<<nt, i, j>>]
    <3> DEFINE s == <<nt, i, j>>
    <3>1. s \in ProgramSpans(t) /\ s[1] = nt /\ s[2] = i /\ s[3] = j
      BY DEF ProgramSpans
    <3> HIDE DEF s
    <3>2. E[s] = IF Weight(nt, i, j) = w THEN Production(D, X, t, nt, i, j) ELSE D[s]
      BY <3>1
    <3> QED BY <3>2 DEF s
  <2> HIDE DEF E
  <2>3. ASSUME NEW nt \in NonTerminals, NEW i \in 1 .. N + 1, NEW j \in 0 .. N, Weight(nt, i, j) < w + 1
        PROVE  E[<<nt, i, j>>] = Production(E, X, t, nt, i, j)
    <3>1. Weight(nt, i, j) \in 0 .. 9 * N + 8 /\ w \in Int
      BY <1>1, WeightFacts, ProgramRanks
    <3>2. ASSUME NEW m \in NonTerminals, NEW p \in 1 .. N + 1, NEW q \in 0 .. N,
                 Weight(m, p, q) < Weight(nt, i, j)
          PROVE  D[<<m, p, q>>] = E[<<m, p, q>>]
      <4>1. Weight(m, p, q) \in 0 .. 9 * N + 8
        BY <1>1, WeightFacts, ProgramRanks
      <4>2. Weight(m, p, q) # w
        BY <2>3, <3>1, <3>2, <4>1
      <4> QED BY <2>2, <4>2
    <3>3. Production(D, X, t, nt, i, j) = Production(E, X, t, nt, i, j)
      <4>1. SameBelow(D, E, Len(t), Weight(nt, i, j))
        BY <3>2 DEF SameBelow
      <4> QED BY <1>1, <4>1, ProductionSame
    <3>4. CASE Weight(nt, i, j) = w
      BY <2>2, <3>3, <3>4
    <3>5. CASE Weight(nt, i, j) # w
      <4>1. Weight(nt, i, j) < w
        BY <2>3, <3>1, <3>5
      <4>2. D[<<nt, i, j>>] = Production(D, X, t, nt, i, j)
        BY <2>1, <4>1 DEF ProducesBelow
      <4> QED BY <2>2, <3>3, <3>5, <4>2
    <3> QED BY <3>4, <3>5
  <2>4. ProducesBelow(E, X, t, w + 1)
    BY <2>3 DEF ProducesBelow
  <2>5. w + 1 \in 0 .. M
    BY <1>1
  <2> QED BY <2>4, <2>5
<1>4. \A w \in 0 .. M : w \in S
  <2> HIDE DEF S, M
  <2> QED BY <1>1, <1>2, <1>3, Upwards
<1>5. M \in S
  <2>1. M \in 0 .. M
    BY <1>1
  <2> HIDE DEF S, M
  <2> QED BY <1>4, <2>1
<1> QED BY <1>5

LEMMA DerivationsAre ==
  ASSUME NEW t, Len(t) \in Nat, DOMAIN t = 1 .. Len(t)
  PROVE  \E D : Produces(D, Expressions(t), t) /\ Derivations(t) = D[<<"CompUnit", 1, Len(t)>>]
<1> DEFINE N == Len(t)
           X == Expressions(t)
           D == CHOOSE f : f = [s \in NonTerminals \X (1 .. Len(t) + 1) \X (0 .. Len(t)) |->
                                  Production(f, Expressions(t), t, s[1], s[2], s[3])]
<1>1. Derivations(t) = D[<<"CompUnit", 1, Len(t)>>]
  BY DEF Derivations
<1>2. \E f : f = [s \in NonTerminals \X (1 .. Len(t) + 1) \X (0 .. Len(t)) |->
                    Production(f, Expressions(t), t, s[1], s[2], s[3])]
  <2> HIDE DEF X
  <2>1. PICK d : ProducesBelow(d, X, t, 9 * N + 9)
    BY ProducesExists
  <2> DEFINE f == [s \in ProgramSpans(t) |-> d[s]]
  <2>2. \A nt \in NonTerminals, i \in 1 .. N + 1, j \in 0 .. N : d[<<nt, i, j>>] = f[<<nt, i, j>>]
    BY DEF ProgramSpans
  <2>3. ASSUME NEW s \in ProgramSpans(t) PROVE d[s] = Production(f, X, t, s[1], s[2], s[3])
    <3> HIDE DEF f
    <3>1. s[1] \in NonTerminals /\ s[2] \in 1 .. N + 1 /\ s[3] \in 0 .. N /\ s = <<s[1], s[2], s[3]>>
      BY SpansOf
    <3> DEFINE nt == s[1]
               i == s[2]
               j == s[3]
    <3>2. nt \in NonTerminals /\ i \in 1 .. N + 1 /\ j \in 0 .. N /\ s = <<nt, i, j>>
      BY <3>1
    <3> HIDE DEF nt, i, j
    <3>3. Weight(nt, i, j) \in 0 .. 9 * N + 8
      BY <3>2, WeightFacts, ProgramRanks
    <3>4. Weight(nt, i, j) < 9 * N + 9
      BY <3>3
    <3>5. d[<<nt, i, j>>] = Production(d, X, t, nt, i, j)
      BY <2>1, <3>2, <3>4 DEF ProducesBelow
    <3>6. Production(d, X, t, nt, i, j) = Production(f, X, t, nt, i, j)
      <4>1. SameBelow(d, f, Len(t), Weight(nt, i, j))
        BY <2>2 DEF SameBelow
      <4> QED BY <3>2, <4>1, ProductionSame
    <3> QED BY <3>2, <3>5, <3>6 DEF nt, i, j
  <2>4. f = [s \in ProgramSpans(t) |-> Production(f, X, t, s[1], s[2], s[3])]
    <3> DEFINE h == [s \in ProgramSpans(t) |-> Production(f, X, t, s[1], s[2], s[3])]
    <3>1. \A s \in ProgramSpans(t) : d[s] = Production(f, X, t, s[1], s[2], s[3])
      BY <2>3
    <3>2. [s \in ProgramSpans(t) |-> d[s]] = h
      <4> HIDE DEF f
      <4> QED BY <3>1
    <3> QED BY <3>2
  <2> HIDE DEF f
  <2>5. f = [s \in NonTerminals \X (1 .. Len(t) + 1) \X (0 .. Len(t)) |->
               Production(f, Expressions(t), t, s[1], s[2], s[3])]
    BY <2>4 DEF ProgramSpans, X
  <2> QED BY <2>5
<1>3. D = [s \in NonTerminals \X (1 .. Len(t) + 1) \X (0 .. Len(t)) |->
             Production(D, Expressions(t), t, s[1], s[2], s[3])]
  BY <1>2
<1> HIDE DEF D, X
<1>4. ASSUME NEW nt \in NonTerminals, NEW i \in 1 .. N + 1, NEW j \in 0 .. N
      PROVE  D[<<nt, i, j>>] = Production(D, Expressions(t), t, nt, i, j)
  <2> DEFINE s == <<nt, i, j>>
  <2>1. s \in NonTerminals \X (1 .. Len(t) + 1) \X (0 .. Len(t)) /\ s[1] = nt /\ s[2] = i /\ s[3] = j
    OBVIOUS
  <2> HIDE DEF s
  <2>2. D[s] = Production(D, Expressions(t), t, s[1], s[2], s[3])
    BY <1>3, <2>1
  <2> QED BY <2>1, <2>2 DEF s
<1>5. Produces(D, Expressions(t), t)
  BY <1>4 DEF Produces
<1> QED BY <1>1, <1>5

-----------------------------------------------------------------------------
(* What a nonterminal derives, rule by rule.                               *)

In(D, nt, i, j, v) == v \in D[<<nt, i, j>>]
Mark(handler, token) == <<Visit(handler, "none", token)>>
Framed(begin, token, w, end) == Mark(begin, token) \o w \o Mark(end, NoToken)

LEMMA ProductIn ==
  ASSUME NEW X, NEW Y, NEW v
  PROVE  v \in X ** Y <=> \E x \in X, y \in Y : v = x \o y
  BY DEF **

LEMMA FramedIn ==
  ASSUME NEW S, NEW begin, NEW token, NEW end, NEW v
  PROVE  v \in VisitsOf(begin, token) ** S ** Visits(end) <=> \E w \in S : v = Framed(begin, token, w, end)
<1> DEFINE b == Mark(begin, token)
           e == Mark(end, NoToken)
<1>1. VisitsOf(begin, token) = {b} /\ Visits(end) = {e}
  BY DEF VisitsOf, Visits, Mark
<1> HIDE DEF b, e
<1>2. ASSUME NEW w PROVE w \in {b} ** S <=> \E x \in S : w = b \o x
  <2>1. w \in {b} ** S <=> \E a \in {b}, x \in S : w = a \o x
    BY DEF **
  <2>2. \A a : a \in {b} <=> a = b
    OBVIOUS
  <2> QED BY <2>1, <2>2, Zenon
<1>3. v \in ({b} ** S) ** {e} <=> \E w \in {b} ** S : v = w \o e
  <2>1. v \in ({b} ** S) ** {e} <=> \E w \in {b} ** S, c \in {e} : v = w \o c
    BY DEF **
  <2>2. \A c : c \in {e} <=> c = e
    OBVIOUS
  <2> QED BY <2>1, <2>2, Zenon
<1>4. v \in ({b} ** S) ** {e} <=> \E x \in S : v = (b \o x) \o e
  BY <1>2, <1>3, Zenon
<1> QED BY <1>1, <1>4 DEF Framed, b, e

\* A list of items, and one of definitions.
Listed(D, t, nt, each, ends, i, j, v) ==
  \/ i > j /\ v = <<>>
  \/ \E k \in i .. j : \E x, y : /\ Is(t, k, ends) /\ In(D, each, i, k, x) /\ In(D, nt, k + 1, j, y)
                             /\ v = x \o y
Defined(D, t, nt, each, i, j, v) ==
  \/ In(D, each, i, j, v)
  \/ \E k \in i .. j : \E x, y : /\ Is(t, k, {","}) /\ In(D, each, i, k - 1, x) /\ In(D, nt, k + 1, j, y)
                             /\ v = x \o y

LEMMA RepeatedIn ==
  ASSUME NEW D, NEW t, NEW nt, NEW each, NEW ends, NEW i \in Int, NEW j \in Int, NEW v
  PROVE  v \in Repeated(D, t, nt, each, ends, i, j) <=> Listed(D, t, nt, each, ends, i, j, v)
<1>1. CASE i > j
  <2>1. Repeated(D, t, nt, each, ends, i, j) = {<<>>}
    BY <1>1 DEF Repeated
  <2>2. ~ \E k : k \in i .. j
    BY <1>1
  <2>3. i > j
    BY <1>1
  <2> QED BY <2>1, <2>2, <2>3, Zenon DEF Listed
<1>2. CASE ~(i > j)
  <2>1. Repeated(D, t, nt, each, ends, i, j) = AllItems(D, nt, each, i, j, Places(t, i, j, ends))
    BY <1>2 DEF Repeated, AllItems, Item
  <2>2. ASSUME NEW k PROVE v \in Item(D, nt, each, i, j, k)
                           <=> \E x, y : In(D, each, i, k, x) /\ In(D, nt, k + 1, j, y) /\ v = x \o y
    <3>1. v \in Item(D, nt, each, i, j, k)
          <=> \E x \in D[<<each, i, k>>], y \in D[<<nt, k + 1, j>>] : v = x \o y
      <4> DEFINE L == D[<<each, i, k>>]
                 R == D[<<nt, k + 1, j>>]
      <4>1. Item(D, nt, each, i, j, k) = L ** R
        BY DEF Item
      <4> HIDE DEF L, R
      <4>2. v \in L ** R <=> \E x \in L, y \in R : v = x \o y
        BY ProductIn
      <4>3. v \in Item(D, nt, each, i, j, k) <=> \E x \in L, y \in R : v = x \o y
        BY <4>1, <4>2
      <4> QED BY <4>3 DEF L, R
    <3> QED BY <3>1, Zenon DEF In
  <2>3. v \in AllItems(D, nt, each, i, j, Places(t, i, j, ends))
        <=> \E k \in Places(t, i, j, ends) : v \in Item(D, nt, each, i, j, k)
    BY Zenon DEF AllItems
  <2>4. \A k : k \in Places(t, i, j, ends) <=> k \in i .. j /\ Is(t, k, ends)
    BY DEF Places, Is
  <2> QED BY <1>2, <2>1, <2>2, <2>3, <2>4, Zenon DEF Listed
<1> QED BY <1>1, <1>2

LEMMA SeparatedIn ==
  ASSUME NEW D, NEW t, NEW nt, NEW each, NEW i \in Int, NEW j \in Int, NEW v
  PROVE  v \in Separated(D, t, nt, each, i, j) <=> Defined(D, t, nt, each, i, j, v)
<1>1. v \in Separated(D, t, nt, each, i, j)
      <=> v \in D[<<each, i, j>>] \/ v \in AllSplits(D, nt, each, i, j, Places(t, i, j, {","}))
  BY DEF Separated, Split, Definitions, AllSplits
<1>2. ASSUME NEW k PROVE v \in Split(D, nt, each, i, j, k)
                         <=> \E x, y : In(D, each, i, k - 1, x) /\ In(D, nt, k + 1, j, y) /\ v = x \o y
  <2>1. v \in Split(D, nt, each, i, j, k)
        <=> \E x \in D[<<each, i, k - 1>>], y \in D[<<nt, k + 1, j>>] : v = x \o y
    <3> DEFINE L == D[<<each, i, k - 1>>]
               R == D[<<nt, k + 1, j>>]
    <3>1. Split(D, nt, each, i, j, k) = L ** R
      BY DEF Split
    <3> HIDE DEF L, R
    <3>2. v \in L ** R <=> \E x \in L, y \in R : v = x \o y
      BY ProductIn
    <3>3. v \in Split(D, nt, each, i, j, k) <=> \E x \in L, y \in R : v = x \o y
      BY <3>1, <3>2
    <3> QED BY <3>3 DEF L, R
  <2> QED BY <2>1, Zenon DEF In
<1>3. v \in AllSplits(D, nt, each, i, j, Places(t, i, j, {","}))
      <=> \E k \in Places(t, i, j, {","}) : v \in Split(D, nt, each, i, j, k)
  BY Zenon DEF AllSplits
<1>4. \A k : k \in Places(t, i, j, {","}) <=> k \in i .. j /\ Is(t, k, {","})
  BY DEF Places, Is
<1> QED BY <1>1, <1>2, <1>3, <1>4, Zenon DEF Defined, In

Given(X, t, begin, end, i, j, v) ==
  /\ Is(t, i, {"ident"}) /\ Is(t, i + 1, {"="})
  /\ \E w : In(X, "Exp", i + 2, j, w) /\ v = Framed(begin, t[i], w, end)

LEMMA ValuedIn ==
  ASSUME NEW X, NEW t, NEW begin, NEW end, NEW i \in Int, NEW j \in Int, NEW v
  PROVE  v \in Valued(X, t, begin, end, i, j) <=> Given(X, t, begin, end, i, j, v)
<1> DEFINE S == X[<<"Exp", i + 2, j>>]
<1>1. v \in VisitsOf(begin, t[i]) ** S ** Visits(end) <=> \E w \in S : v = Framed(begin, t[i], w, end)
  BY FramedIn
<1>2. Valued(X, t, begin, end, i, j) =
        IF Is(t, i, {"ident"}) /\ Is(t, i + 1, {"="}) THEN VisitsOf(begin, t[i]) ** S ** Visits(end) ELSE {}
  BY DEF Valued
<1>3. \A w : w \in S <=> In(X, "Exp", i + 2, j, w)
  BY Zenon DEF In
<1> HIDE DEF S
<1> QED BY <1>1, <1>2, <1>3, Zenon DEF Given

Stated(D, X, t, i, j, v) ==
  \/ \E w : In(D, "Block", i, j, w) /\ v = Framed("BeginBlock", NoToken, w, "EndBlock")
  \/ i = j /\ Is(t, j, {";"}) /\ v = <<>>
  \/ /\ i # j /\ Is(t, j, {";"})
     /\ \/ \E w : In(X, "Exp", i, j - 1, w) /\ v = Framed("BeginRaw", NoToken, w, "EndRawExp")
        \/ Is(t, i, {"return"})
           /\ \E w : In(X, "Exp", i + 1, j - 1, w) /\ v = Framed("BeginReturn", NoToken, w, "EndReturn")
        \/ Given(X, t, "BeginAssign", "EndAssign", i, j - 1, v)
Declared(D, t, i, j, v) ==
  /\ Is(t, j, {";"})
  /\ \/ Is(t, i, {"const"}) /\ Is(t, i + 1, BType) /\ In(D, "ConstDefs", i + 2, j - 1, v)
     \/ Is(t, i, BType) /\ In(D, "VarDefs", i + 1, j - 1, v)

LEMMA StmtIn ==
  ASSUME NEW D, NEW X, NEW t, NEW i \in Int, NEW j \in Int, NEW v
  PROVE  v \in Stmt(D, X, t, i, j) <=> Stated(D, X, t, i, j, v)
<1> DEFINE B == Visits("BeginBlock") ** D[<<"Block", i, j>>] ** Visits("EndBlock")
           R == Visits("BeginRaw") ** X[<<"Exp", i, j - 1>>] ** Visits("EndRawExp")
           T == Visits("BeginReturn") ** X[<<"Exp", i + 1, j - 1>>] ** Visits("EndReturn")
           A == Valued(X, t, "BeginAssign", "EndAssign", i, j - 1)
<1>1. ASSUME NEW S, NEW b, NEW e
      PROVE  v \in Visits(b) ** S ** Visits(e) <=> \E w \in S : v = Framed(b, NoToken, w, e)
  <2>1. Visits(b) = VisitsOf(b, NoToken)
    BY DEF Visits, VisitsOf
  <2> QED BY <2>1, FramedIn
<1>2. v \in B <=> \E w : In(D, "Block", i, j, w) /\ v = Framed("BeginBlock", NoToken, w, "EndBlock")
  BY <1>1, Zenon DEF In
<1>3. v \in R <=> \E w : In(X, "Exp", i, j - 1, w) /\ v = Framed("BeginRaw", NoToken, w, "EndRawExp")
  BY <1>1, Zenon DEF In
<1>4. v \in T <=> \E w : In(X, "Exp", i + 1, j - 1, w) /\ v = Framed("BeginReturn", NoToken, w, "EndReturn")
  BY <1>1, Zenon DEF In
<1>5. v \in A <=> Given(X, t, "BeginAssign", "EndAssign", i, j - 1, v)
  <2>1. j - 1 \in Int
    OBVIOUS
  <2> QED BY <2>1, ValuedIn
<1>6. Stmt(D, X, t, i, j) = B \cup (IF ~Is(t, j, {";"}) THEN {} ELSE IF i = j THEN {<<>>}
                                    ELSE R \cup (IF Is(t, i, {"return"}) THEN T ELSE {}) \cup A)
  BY DEF Stmt
<1> HIDE DEF B, R, T, A
<1>7. v \in Stmt(D, X, t, i, j) <=> \/ v \in B \/ (i = j /\ Is(t, j, {";"}) /\ v = <<>>)
                                    \/ /\ i # j /\ Is(t, j, {";"})
                                       /\ \/ v \in R \/ (Is(t, i, {"return"}) /\ v \in T) \/ v \in A
  BY <1>6 DEF Is
<1> QED BY <1>2, <1>3, <1>4, <1>5, <1>7, Zenon DEF Stated

LEMMA DeclIn ==
  ASSUME NEW D, NEW t, NEW i \in Int, NEW j \in Int, NEW v
  PROVE  v \in Decl(D, t, i, j) <=> Declared(D, t, i, j, v)
<1> DEFINE C == D[<<"ConstDefs", i + 2, j - 1>>]
           V == D[<<"VarDefs", i + 1, j - 1>>]
<1>1. Decl(D, t, i, j) = IF ~Is(t, j, {";"}) THEN {}
                         ELSE (IF Is(t, i, {"const"}) /\ Is(t, i + 1, BType) THEN C ELSE {})
                              \cup (IF Is(t, i, BType) THEN V ELSE {})
  BY DEF Decl
<1>2. (v \in C <=> In(D, "ConstDefs", i + 2, j - 1, v)) /\ (v \in V <=> In(D, "VarDefs", i + 1, j - 1, v))
  BY Zenon DEF In
<1> HIDE DEF C, V
<1>3. v \in Decl(D, t, i, j) <=> /\ Is(t, j, {";"})
                                 /\ \/ Is(t, i, {"const"}) /\ Is(t, i + 1, BType) /\ v \in C
                                    \/ Is(t, i, BType) /\ v \in V
  BY <1>1 DEF Is
<1> QED BY <1>2, <1>3, Zenon DEF Declared

\* D is what the nonterminals derive from the tokens t, X what the expressions do.
Parses(D, X, t) ==
  /\ Len(t) \in Nat /\ DOMAIN t = 1 .. Len(t)
  /\ Derives(X, t) /\ Produces(D, X, t)

LEMMA Produced ==
  ASSUME NEW D, NEW X, NEW t, Parses(D, X, t), NEW nt \in NonTerminals,
         NEW i \in 1 .. Len(t) + 1, NEW j \in 0 .. Len(t), NEW v
  PROVE  /\ In(D, nt, i, j, v) <=> v \in Production(D, X, t, nt, i, j)
         /\ i \in Int /\ j \in Int
<1>1. D[<<nt, i, j>>] = Production(D, X, t, nt, i, j)
  BY DEF Parses, Produces
<1>2. i \in Int /\ j \in Int
  BY DEF Parses
<1> QED BY <1>1, <1>2 DEF In

LEMMA CompUnitIs ==
  ASSUME NEW D, NEW X, NEW t, Parses(D, X, t), NEW i \in 1 .. Len(t) + 1, NEW j \in 0 .. Len(t), NEW v
  PROVE  In(D, "CompUnit", i, j, v) <=> Listed(D, t, "CompUnit", "FuncDef", {"}"}, i, j, v)
<1>1. (In(D, "CompUnit", i, j, v) <=> v \in Production(D, X, t, "CompUnit", i, j)) /\ i \in Int /\ j \in Int
  BY Produced DEF NonTerminals
<1>2. Production(D, X, t, "CompUnit", i, j) = Repeated(D, t, "CompUnit", "FuncDef", {"}"}, i, j)
  BY DEF Production
<1> QED BY <1>1, <1>2, RepeatedIn

LEMMA BlockItemsIs ==
  ASSUME NEW D, NEW X, NEW t, Parses(D, X, t), NEW i \in 1 .. Len(t) + 1, NEW j \in 0 .. Len(t), NEW v
  PROVE  In(D, "BlockItems", i, j, v) <=> Listed(D, t, "BlockItems", "BlockItem", {";", "}"}, i, j, v)
<1>1. (In(D, "BlockItems", i, j, v) <=> v \in Production(D, X, t, "BlockItems", i, j)) /\ i \in Int /\ j \in Int
  BY Produced DEF NonTerminals
<1>2. Production(D, X, t, "BlockItems", i, j) = Repeated(D, t, "BlockItems", "BlockItem", {";", "}"}, i, j)
  BY DEF Production
<1> QED BY <1>1, <1>2, RepeatedIn

LEMMA ConstDefsIs ==
  ASSUME NEW D, NEW X, NEW t, Parses(D, X, t), NEW i \in 1 .. Len(t) + 1, NEW j \in 0 .. Len(t), NEW v
  PROVE  In(D, "ConstDefs", i, j, v) <=> Defined(D, t, "ConstDefs", "ConstDef", i, j, v)
<1>1. (In(D, "ConstDefs", i, j, v) <=> v \in Production(D, X, t, "ConstDefs", i, j)) /\ i \in Int /\ j \in Int
  BY Produced DEF NonTerminals
<1>2. Production(D, X, t, "ConstDefs", i, j) = Separated(D, t, "ConstDefs", "ConstDef", i, j)
  BY DEF Production
<1> QED BY <1>1, <1>2, SeparatedIn

LEMMA VarDefsIs ==
  ASSUME NEW D, NEW X, NEW t, Parses(D, X, t), NEW i \in 1 .. Len(t) + 1, NEW j \in 0 .. Len(t), NEW v
  PROVE  In(D, "VarDefs", i, j, v) <=> Defined(D, t, "VarDefs", "VarDef", i, j, v)
<1>1. (In(D, "VarDefs", i, j, v) <=> v \in Production(D, X, t, "VarDefs", i, j)) /\ i \in Int /\ j \in Int
  BY Produced DEF NonTerminals
<1>2. Production(D, X, t, "VarDefs", i, j) = Separated(D, t, "VarDefs", "VarDef", i, j)
  BY DEF Production
<1> QED BY <1>1, <1>2, SeparatedIn

LEMMA ConstDefIs ==
  ASSUME NEW D, NEW X, NEW t, Parses(D, X, t), NEW i \in 1 .. Len(t) + 1, NEW j \in 0 .. Len(t), NEW v
  PROVE  In(D, "ConstDef", i, j, v) <=> Given(X, t, "BeginConstDef", "EndConstDef", i, j, v)
<1>1. (In(D, "ConstDef", i, j, v) <=> v \in Production(D, X, t, "ConstDef", i, j)) /\ i \in Int /\ j \in Int
  BY Produced DEF NonTerminals
<1>2. Production(D, X, t, "ConstDef", i, j) = Valued(X, t, "BeginConstDef", "EndConstDef", i, j)
  BY DEF Production
<1> QED BY <1>1, <1>2, ValuedIn

LEMMA VarDefIs ==
  ASSUME NEW D, NEW X, NEW t, Parses(D, X, t), NEW i \in 1 .. Len(t) + 1, NEW j \in 0 .. Len(t), NEW v
  PROVE  In(D, "VarDef", i, j, v) <=> \/ i = j /\ Is(t, i, {"ident"}) /\ v = Mark("VarDefOnly", t[i])
                                      \/ Given(X, t, "BeginVarDef", "EndVarDef", i, j, v)
<1>1. (In(D, "VarDef", i, j, v) <=> v \in Production(D, X, t, "VarDef", i, j)) /\ i \in Int /\ j \in Int
  BY Produced DEF NonTerminals
<1> DEFINE G == Valued(X, t, "BeginVarDef", "EndVarDef", i, j)
<1>2. Production(D, X, t, "VarDef", i, j) =
        (IF i = j /\ Is(t, i, {"ident"}) THEN VisitsOf("VarDefOnly", t[i]) ELSE {}) \cup G
  BY DEF Production
<1>3. v \in G <=> Given(X, t, "BeginVarDef", "EndVarDef", i, j, v)
  BY <1>1, ValuedIn
<1>4. VisitsOf("VarDefOnly", t[i]) = {Mark("VarDefOnly", t[i])}
  BY DEF VisitsOf, Mark
<1> HIDE DEF G
<1>5. v \in Production(D, X, t, "VarDef", i, j)
      <=> (i = j /\ Is(t, i, {"ident"}) /\ v = Mark("VarDefOnly", t[i])) \/ v \in G
  BY <1>2, <1>4 DEF Is
<1> QED BY <1>1, <1>3, <1>5

LEMMA StmtIs ==
  ASSUME NEW D, NEW X, NEW t, Parses(D, X, t), NEW i \in 1 .. Len(t) + 1, NEW j \in 0 .. Len(t), NEW v
  PROVE  In(D, "Stmt", i, j, v) <=> Stated(D, X, t, i, j, v)
<1>1. (In(D, "Stmt", i, j, v) <=> v \in Production(D, X, t, "Stmt", i, j)) /\ i \in Int /\ j \in Int
  BY Produced DEF NonTerminals
<1>2. Production(D, X, t, "Stmt", i, j) = Stmt(D, X, t, i, j)
  BY DEF Production
<1> QED BY <1>1, <1>2, StmtIn

LEMMA DeclIs ==
  ASSUME NEW D, NEW X, NEW t, Parses(D, X, t), NEW i \in 1 .. Len(t) + 1, NEW j \in 0 .. Len(t), NEW v
  PROVE  In(D, "Decl", i, j, v) <=> Declared(D, t, i, j, v)
<1>1. (In(D, "Decl", i, j, v) <=> v \in Production(D, X, t, "Decl", i, j)) /\ i \in Int /\ j \in Int
  BY Produced DEF NonTerminals
<1>2. Production(D, X, t, "Decl", i, j) = Decl(D, t, i, j)
  BY DEF Production
<1> QED BY <1>1, <1>2, DeclIn

LEMMA BlockItemIs ==
  ASSUME NEW D, NEW X, NEW t, Parses(D, X, t), NEW i \in 1 .. Len(t) + 1, NEW j \in 0 .. Len(t), NEW v
  PROVE  In(D, "BlockItem", i, j, v) <=> In(D, "Stmt", i, j, v) \/ In(D, "Decl", i, j, v)
<1>1. (In(D, "BlockItem", i, j, v) <=> v \in Production(D, X, t, "BlockItem", i, j)) /\ i \in Int /\ j \in Int
  BY Produced DEF NonTerminals
<1>2. Production(D, X, t, "BlockItem", i, j) = D[<<"Stmt", i, j>>] \cup D[<<"Decl", i, j>>]
  BY DEF Production
<1> QED BY <1>1, <1>2 DEF In

LEMMA BlockIs ==
  ASSUME NEW D, NEW X, NEW t, Parses(D, X, t), NEW i \in 1 .. Len(t) + 1, NEW j \in 0 .. Len(t), NEW v
  PROVE  In(D, "Block", i, j, v)
         <=> i < j /\ Is(t, i, {"{"}) /\ Is(t, j, {"}"}) /\ In(D, "BlockItems", i + 1, j - 1, v)
<1>1. (In(D, "Block", i, j, v) <=> v \in Production(D, X, t, "Block", i, j)) /\ i \in Int /\ j \in Int
  BY Produced DEF NonTerminals
<1>2. Production(D, X, t, "Block", i, j) =
        IF i < j /\ Is(t, i, {"{"}) /\ Is(t, j, {"}"}) THEN D[<<"BlockItems", i + 1, j - 1>>] ELSE {}
  BY DEF Production
<1> QED BY <1>1, <1>2 DEF In, Is

LEMMA FuncDefIs ==
  ASSUME NEW D, NEW X, NEW t, Parses(D, X, t), NEW i \in 1 .. Len(t) + 1, NEW j \in 0 .. Len(t), NEW v
  PROVE  In(D, "FuncDef", i, j, v)
         <=> /\ Is(t, i, BType) /\ Is(t, i + 1, {"ident"}) /\ Is(t, i + 2, {"("}) /\ Is(t, i + 3, {")"})
             /\ \E w : In(D, "Block", i + 4, j, w) /\ v = Framed("BeginFunc", t[i + 1], w, "EndFunc")
<1>1. (In(D, "FuncDef", i, j, v) <=> v \in Production(D, X, t, "FuncDef", i, j)) /\ i \in Int /\ j \in Int
  BY Produced DEF NonTerminals
<1> DEFINE S == D[<<"Block", i + 4, j>>]
<1>2. Production(D, X, t, "FuncDef", i, j) =
        IF Is(t, i, BType) /\ Is(t, i + 1, {"ident"}) /\ Is(t, i + 2, {"("}) /\ Is(t, i + 3, {")"})
        THEN VisitsOf("BeginFunc", t[i + 1]) ** S ** Visits("EndFunc") ELSE {}
  BY DEF Production
<1>3. v \in VisitsOf("BeginFunc", t[i + 1]) ** S ** Visits("EndFunc")
      <=> \E w \in S : v = Framed("BeginFunc", t[i + 1], w, "EndFunc")
  BY FramedIn
<1>4. \A w : w \in S <=> In(D, "Block", i + 4, j, w)
  BY Zenon DEF In
<1> HIDE DEF S
<1>5. v \in Production(D, X, t, "FuncDef", i, j)
      <=> /\ Is(t, i, BType) /\ Is(t, i + 1, {"ident"}) /\ Is(t, i + 2, {"("}) /\ Is(t, i + 3, {")"})
          /\ v \in VisitsOf("BeginFunc", t[i + 1]) ** S ** Visits("EndFunc")
  BY <1>2, Zenon
<1> QED BY <1>1, <1>3, <1>4, <1>5, Zenon

-----------------------------------------------------------------------------
(* Expressions, rule by rule.                                              *)

Operation(nt, op) == <<Visit(nt, op, NoToken)>>

LEMMA DoneIn ==
  ASSUME NEW S, NEW e, NEW v
  PROVE  v \in S ** {e} <=> \E w \in S : v = w \o e
<1>1. v \in S ** {e} <=> \E w \in S, c \in {e} : v = w \o c
  BY ProductIn
<1>2. \A c : c \in {e} <=> c = e
  OBVIOUS
<1> QED BY <1>1, <1>2, Zenon

Joins(L, R, e, v) == \E x \in L, y \in R : v = (x \o y) \o e

LEMMA JoinedIn ==
  ASSUME NEW L, NEW R, NEW e, NEW v
  PROVE  v \in (L ** R) ** {e} <=> Joins(L, R, e, v)
<1> DEFINE M == L ** R
<1>1. \A w : w \in M <=> \E x \in L, y \in R : w = x \o y
  BY DEF **, M
<1> HIDE DEF M
<1>2. v \in M ** {e} <=> \E w \in M : v = w \o e
  <2>1. v \in M ** {e} <=> \E w \in M, c \in {e} : v = w \o c
    BY DEF **
  <2> QED BY <2>1
<1>3. ASSUME NEW w \in M, v = w \o e PROVE \E x \in L, y \in R : v = (x \o y) \o e
  <2>1. PICK x \in L, y \in R : w = x \o y
    BY <1>1, Zenon
  <2> QED BY <1>3, <2>1, Zenon
<1>4. ASSUME NEW x \in L, NEW y \in R, v = (x \o y) \o e PROVE \E w \in M : v = w \o e
  <2>1. x \o y \in M
    BY <1>1, Zenon
  <2> QED BY <1>4, <2>1, Zenon
<1> QED BY <1>2, <1>3, <1>4, Zenon DEF M, Joins

LEMMA Derived ==
  ASSUME NEW X, NEW t, Derives(X, t), Len(t) \in Nat, NEW nt \in ExpNonTerminals,
         NEW i \in 1 .. Len(t) + 1, NEW j \in 0 .. Len(t), NEW v
  PROVE  /\ In(X, nt, i, j, v) <=> v \in Expression(X, t, nt, i, j)
         /\ i \in Int /\ j \in Int
<1>1. X[<<nt, i, j>>] = Expression(X, t, nt, i, j)
  BY DEF Derives
<1>2. i \in Int /\ j \in Int
  OBVIOUS
<1> QED BY <1>1, <1>2 DEF In

LEMMA ExpRule ==
  ASSUME NEW X, NEW t, Derives(X, t), Len(t) \in Nat, NEW i \in 1 .. Len(t) + 1, NEW j \in 0 .. Len(t), NEW v
  PROVE  In(X, "Exp", i, j, v) <=> In(X, "LOrExp", i, j, v)
<1>1. "Exp" \in ExpNonTerminals
  BY RankFacts
<1>2. In(X, "Exp", i, j, v) <=> v \in Expression(X, t, "Exp", i, j)
  BY <1>1, Derived
<1>3. Expression(X, t, "Exp", i, j) = X[<<"LOrExp", i, j>>]
  BY ExpIs, Zenon
<1> QED BY <1>2, <1>3, Zenon DEF In

Binary(X, t, nt, i, j, v) ==
  \E k \in i + 1 .. j - 1 : \E x, y :
    /\ Is(t, k, BinaryLevel[nt].ops)
    /\ In(X, nt, i, k - 1, x) /\ In(X, BinaryLevel[nt].below, k + 1, j, y)
    /\ v = (x \o y) \o Operation(nt, BinaryOp(t[k].kind))

LEMMA LevelRule ==
  ASSUME NEW X, NEW t, Derives(X, t), Len(t) \in Nat, NEW nt \in DOMAIN BinaryLevel,
         NEW i \in 1 .. Len(t) + 1, NEW j \in 0 .. Len(t), NEW v
  PROVE  In(X, nt, i, j, v) <=> In(X, BinaryLevel[nt].below, i, j, v) \/ Binary(X, t, nt, i, j, v)
<1> DEFINE low == BinaryLevel[nt].below
           P == Places(t, i + 1, j - 1, BinaryLevel[nt].ops)
<1>1. nt \in ExpNonTerminals
  BY RankFacts
<1>2. In(X, nt, i, j, v) <=> v \in Expression(X, t, nt, i, j)
  BY <1>1, Derived
<1>3. Expression(X, t, nt, i, j) = X[<<low, i, j>>] \cup Alternatives(X, t, nt, i, j)
  BY LevelIs, Zenon
<1>4. v \in Alternatives(X, t, nt, i, j) <=> \E k \in P : v \in Applied(X, t, nt, i, j, k)
  BY Zenon DEF Alternatives
<1>5. ASSUME NEW k
      PROVE  v \in Applied(X, t, nt, i, j, k)
             <=> \E x, y : /\ In(X, nt, i, k - 1, x) /\ In(X, low, k + 1, j, y)
                           /\ v = (x \o y) \o Operation(nt, BinaryOp(t[k].kind))
  <2> DEFINE L == X[<<nt, i, k - 1>>]
             R == X[<<low, k + 1, j>>]
             e == Operation(nt, BinaryOp(t[k].kind))
  <2>1. Applied(X, t, nt, i, j, k) = (L ** R) ** {e}
    BY DEF Applied, Operation
  <2>2. \A x : (x \in L <=> In(X, nt, i, k - 1, x)) /\ (x \in R <=> In(X, low, k + 1, j, x))
    BY Zenon DEF In
  <2> HIDE DEF L, R, e
  <2>3. v \in (L ** R) ** {e} <=> Joins(L, R, e, v)
    BY JoinedIn
  <2> QED BY <2>1, <2>2, <2>3, Zenon DEF e, Joins
<1>6. \A k : k \in P <=> k \in i + 1 .. j - 1 /\ Is(t, k, BinaryLevel[nt].ops)
  BY DEF Places, Is
<1>7. v \in X[<<low, i, j>>] <=> In(X, low, i, j, v)
  BY Zenon DEF In
<1> HIDE DEF P
<1>8. v \in Alternatives(X, t, nt, i, j) <=> Binary(X, t, nt, i, j, v)
  BY <1>4, <1>5, <1>6, Zenon DEF Binary
<1>9. v \in Expression(X, t, nt, i, j) <=> v \in X[<<low, i, j>>] \/ v \in Alternatives(X, t, nt, i, j)
  BY <1>3
<1> QED BY <1>2, <1>7, <1>8, <1>9, Zenon

Signed(X, t, i, j, v) ==
  /\ i < j /\ Is(t, i, UnarySigns)
  /\ \E x : In(X, "UnaryExp", i + 1, j, x) /\ v = x \o Operation("UnaryExp", UnaryOp(t[i].kind))

LEMMA UnaryRule ==
  ASSUME NEW X, NEW t, Derives(X, t), Len(t) \in Nat, NEW i \in 1 .. Len(t) + 1, NEW j \in 0 .. Len(t), NEW v
  PROVE  In(X, "UnaryExp", i, j, v) <=> In(X, "PrimaryExp", i, j, v) \/ Signed(X, t, i, j, v)
<1> DEFINE P == X[<<"PrimaryExp", i, j>>]
           U == X[<<"UnaryExp", i + 1, j>>]
           e == Operation("UnaryExp", UnaryOp(t[i].kind))
<1>1. "UnaryExp" \in ExpNonTerminals
  BY RankFacts
<1>2. In(X, "UnaryExp", i, j, v) <=> v \in Expression(X, t, "UnaryExp", i, j)
  BY <1>1, Derived
<1>3. Expression(X, t, "UnaryExp", i, j) = P \cup (IF i < j /\ Is(t, i, UnarySigns) THEN U ** {e} ELSE {})
  BY UnaryIs, Zenon DEF Operation
<1>4. \A x : (x \in P <=> In(X, "PrimaryExp", i, j, x)) /\ (x \in U <=> In(X, "UnaryExp", i + 1, j, x))
  BY Zenon DEF In
<1> HIDE DEF P, U, e
<1>5. v \in U ** {e} <=> \E x \in U : v = x \o e
  BY DoneIn
<1>6. v \in Expression(X, t, "UnaryExp", i, j) <=> v \in P \/ (i < j /\ Is(t, i, UnarySigns) /\ v \in U ** {e})
  BY <1>3 DEF Is
<1> QED BY <1>2, <1>4, <1>5, <1>6, Zenon DEF e, Signed

LEMMA PrimaryRule ==
  ASSUME NEW X, NEW t, Derives(X, t), Len(t) \in Nat, NEW i \in 1 .. Len(t) + 1, NEW j \in 0 .. Len(t), NEW v
  PROVE  In(X, "PrimaryExp", i, j, v)
         <=> \/ i = j /\ Is(t, i, {"ident"}) /\ v = Mark("LVal", t[i])
             \/ i = j /\ Is(t, i, {"number"}) /\ v = Mark("Number", t[i])
             \/ i < j /\ Is(t, i, {"("}) /\ Is(t, j, {")"}) /\ In(X, "Exp", i + 1, j - 1, v)
<1> DEFINE E == X[<<"Exp", i + 1, j - 1>>]
<1>1. "PrimaryExp" \in ExpNonTerminals
  BY RankFacts
<1>2. (In(X, "PrimaryExp", i, j, v) <=> v \in Expression(X, t, "PrimaryExp", i, j)) /\ i \in Int /\ j \in Int
  BY <1>1, Derived
<1>3. Expression(X, t, "PrimaryExp", i, j) =
        IF i = j /\ Is(t, i, {"ident"}) THEN VisitsOf("LVal", t[i])
        ELSE IF i = j /\ Is(t, i, {"number"}) THEN VisitsOf("Number", t[i])
        ELSE IF i < j /\ Is(t, i, {"("}) /\ Is(t, j, {")"}) THEN E ELSE {}
  BY PrimaryIs, Zenon
<1>4. v \in E <=> In(X, "Exp", i + 1, j - 1, v)
  BY Zenon DEF In
<1>5. VisitsOf("LVal", t[i]) = {Mark("LVal", t[i])} /\ VisitsOf("Number", t[i]) = {Mark("Number", t[i])}
  BY DEF VisitsOf, Mark
<1> HIDE DEF E
<1>6. Is(t, i, {"ident"}) => ~Is(t, i, {"number"})
  BY DEF Is
<1>7. i = j => ~(i < j)
  BY <1>2
<1>8. v \in Expression(X, t, "PrimaryExp", i, j)
      <=> \/ i = j /\ Is(t, i, {"ident"}) /\ v \in VisitsOf("LVal", t[i])
          \/ i = j /\ Is(t, i, {"number"}) /\ v \in VisitsOf("Number", t[i])
          \/ i < j /\ Is(t, i, {"("}) /\ Is(t, j, {")"}) /\ v \in E
  <2>1. CASE i = j
    BY <1>3, <1>6, <1>7, <2>1 DEF Is
  <2>2. CASE i # j
    BY <1>3, <2>2 DEF Is
  <2> QED BY <2>1, <2>2
<1>9. (v \in VisitsOf("LVal", t[i]) <=> v = Mark("LVal", t[i]))
      /\ (v \in VisitsOf("Number", t[i]) <=> v = Mark("Number", t[i]))
  BY <1>5
<1> QED BY <1>2, <1>4, <1>8, <1>9, Zenon

\* The tokens of an expression.
ExpKinds == {"ident", "number", "(", ")"} \cup BinarySigns \cup UnarySigns
Spells(t, i, j, kinds) == i <= j /\ \A k \in i .. j : Is(t, k, kinds)

LEMMA ExpTokens ==
  ASSUME NEW X, NEW t, Derives(X, t), Len(t) \in Nat
  PROVE  \A nt \in ExpNonTerminals, i \in 1 .. Len(t) + 1, j \in 0 .. Len(t) :
           \A v : In(X, nt, i, j, v) => Spells(t, i, j, ExpKinds)
<1> DEFINE N == Len(t)
           Full(s) == \A v : In(X, s[1], s[2], s[3], v) => Spells(t, s[2], s[3], ExpKinds)
           G == {s \in ExpSpans(t) : Full(s)}
<1>1. N \in Nat
  OBVIOUS
<1>2. ASSUME NEW nt \in ExpNonTerminals, NEW i \in 1 .. N + 1, NEW j \in 0 .. N
      PROVE  <<nt, i, j>> \in G <=> \A v : In(X, nt, i, j, v) => Spells(t, i, j, ExpKinds)
  BY DEF ExpSpans
<1> HIDE DEF G
<1>3. ASSUME NEW nt \in ExpNonTerminals, NEW i \in 1 .. N + 1, NEW j \in 0 .. N,
             \A m \in ExpNonTerminals, p \in 1 .. N + 1, q \in 0 .. N :
               Weight(m, p, q) < Weight(nt, i, j) => <<m, p, q>> \in G,
             NEW v, In(X, nt, i, j, v)
      PROVE  Spells(t, i, j, ExpKinds)
  <2>1. \A m \in ExpNonTerminals, p \in 1 .. N + 1, q \in 0 .. N :
          Weight(m, p, q) < Weight(nt, i, j) => \A w : In(X, m, p, q, w) => Spells(t, p, q, ExpKinds)
    BY <1>2, <1>3
  <2>2. i \in Int /\ j \in Int
    BY <1>1
  <2>3. ASSUME NEW k, NEW K, Is(t, k, K), K \subseteq ExpKinds PROVE Is(t, k, ExpKinds)
    BY <2>3 DEF Is
  <2>4. CASE nt = "Exp"
    <3>1. "LOrExp" \in ExpNonTerminals /\ Weight("LOrExp", i, j) < Weight("Exp", i, j)
      BY <1>1, InnerSpans
    <3>2. In(X, "LOrExp", i, j, v)
      BY <1>3, <2>4, ExpRule
    <3> QED BY <2>1, <2>4, <3>1, <3>2
  <2>5. CASE nt = "UnaryExp"
    <3>1. /\ "PrimaryExp" \in ExpNonTerminals /\ Weight("PrimaryExp", i, j) < Weight("UnaryExp", i, j)
          /\ i < j => i + 1 \in 1 .. N + 1 /\ Weight("UnaryExp", i + 1, j) < Weight("UnaryExp", i, j)
      BY <1>1, InnerSpans
    <3>2. CASE In(X, "PrimaryExp", i, j, v)
      BY <2>1, <2>5, <3>1, <3>2
    <3>3. CASE ~In(X, "PrimaryExp", i, j, v)
      <4>1. i < j /\ Is(t, i, UnarySigns) /\ \E x : In(X, "UnaryExp", i + 1, j, x)
        BY <1>3, <2>5, <3>3, UnaryRule DEF Signed
      <4>2. Spells(t, i + 1, j, ExpKinds)
        BY <2>1, <2>5, <3>1, <4>1
      <4>3. Is(t, i, ExpKinds)
        BY <2>3, <4>1 DEF ExpKinds
      <4> QED BY <2>2, <4>2, <4>3 DEF Spells
    <3> QED BY <3>2, <3>3
  <2>6. CASE nt = "PrimaryExp"
    <3>1. "Exp" \in ExpNonTerminals
          /\ (i < j => /\ i + 1 \in 1 .. N + 1 /\ j - 1 \in 0 .. N
                       /\ Weight("Exp", i + 1, j - 1) < Weight("PrimaryExp", i, j))
      BY <1>1, InnerSpans, RankFacts
    <3>2. CASE i = j /\ (Is(t, i, {"ident"}) \/ Is(t, i, {"number"}))
      <4>1. Is(t, i, ExpKinds)
        BY <2>3, <3>2 DEF ExpKinds
      <4> QED BY <2>2, <3>2, <4>1 DEF Spells
    <3>3. CASE ~(i = j /\ (Is(t, i, {"ident"}) \/ Is(t, i, {"number"})))
      <4>1. i < j /\ Is(t, i, {"("}) /\ Is(t, j, {")"}) /\ In(X, "Exp", i + 1, j - 1, v)
        BY <1>3, <2>6, <3>3, PrimaryRule
      <4>2. Spells(t, i + 1, j - 1, ExpKinds)
        BY <2>1, <2>6, <3>1, <4>1
      <4>3. Is(t, i, ExpKinds) /\ Is(t, j, ExpKinds)
        BY <2>3, <4>1 DEF ExpKinds
      <4> QED BY <2>2, <4>1, <4>2, <4>3 DEF Spells
    <3> QED BY <3>2, <3>3
  <2>7. CASE nt \in DOMAIN BinaryLevel
    <3> DEFINE low == BinaryLevel[nt].below
    <3>1. /\ low \in ExpNonTerminals /\ Weight(low, i, j) < Weight(nt, i, j)
          /\ \A k \in i + 1 .. j - 1 :
               /\ k - 1 \in 0 .. N /\ k + 1 \in 1 .. N + 1 /\ k \in 1 .. N
               /\ Weight(nt, i, k - 1) < Weight(nt, i, j)
               /\ Weight(low, k + 1, j) < Weight(nt, i, j)
      BY <1>1, <2>7, LevelSpans
    <3>2. In(X, low, i, j, v) \/ Binary(X, t, nt, i, j, v)
      BY <1>3, <2>7, LevelRule
    <3> HIDE DEF low
    <3>3. CASE In(X, low, i, j, v)
      BY <2>1, <3>1, <3>3
    <3>4. CASE Binary(X, t, nt, i, j, v)
      <4>1. PICK k \in i + 1 .. j - 1 : /\ Is(t, k, BinaryLevel[nt].ops)
                                        /\ \E x : In(X, nt, i, k - 1, x)
                                        /\ \E y : In(X, low, k + 1, j, y)
        BY <3>4 DEF Binary, low
      <4>2. Spells(t, i, k - 1, ExpKinds) /\ Spells(t, k + 1, j, ExpKinds)
        BY <2>1, <3>1, <4>1
      <4>3. Is(t, k, BinarySigns)
        BY <2>7, <4>1, LevelSign
      <4>4. Is(t, k, ExpKinds)
        BY <2>3, <4>3 DEF ExpKinds
      <4> QED BY <2>2, <4>2, <4>4 DEF Spells
    <3> QED BY <3>2, <3>3, <3>4
  <2> QED BY <2>4, <2>5, <2>6, <2>7 DEF ExpNonTerminals
<1>4. \A nt \in ExpNonTerminals, i \in 1 .. N + 1, j \in 0 .. N :
        (\A m \in ExpNonTerminals, p \in 1 .. N + 1, q \in 0 .. N :
           Weight(m, p, q) < Weight(nt, i, j) => <<m, p, q>> \in G) => <<nt, i, j>> \in G
  BY <1>2, <1>3
<1>5. \A nt \in ExpNonTerminals, i \in 1 .. N + 1, j \in 0 .. N : <<nt, i, j>> \in G
  <2> HIDE DEF N
  <2> QED BY <1>1, <1>4, ByWeight, RankFacts
<1> QED BY <1>2, <1>5

-----------------------------------------------------------------------------
(* An expression has one derivation.                                       *)

One(S) == \A x, y \in S : x = y

LEMMA OneProduct ==
  ASSUME NEW X, NEW Y, One(X), One(Y)
  PROVE  One(X ** Y)
<1> SUFFICES ASSUME NEW v \in X ** Y, NEW w \in X ** Y PROVE v = w
  BY DEF One
<1>0. \A u : u \in X ** Y <=> \E x \in X, y \in Y : u = x \o y
  BY DEF **
<1>1. PICK a \in X, b \in Y : v = a \o b
  BY <1>0
<1>2. PICK c \in X, d \in Y : w = c \o d
  BY <1>0
<1>3. a = c /\ b = d
  BY DEF One
<1> QED BY <1>1, <1>2, <1>3

LEMMA OneReading ==
  ASSUME NEW S, NEW t \in Seq(S), NEW C, Reads(C, t)
  PROVE  \A i \in 1 .. Len(t) + 1, j \in 0 .. Len(t) : One(C[<<i, j>>])
<1> DEFINE N == Len(t)
           M == N + 1
           T == {w \in 0 .. M : \A i \in 1 .. N + 1, j \in 0 .. N : Size(i, j) < w => One(C[<<i, j>>])}
<1>1. N \in Nat /\ M \in Nat
  OBVIOUS
<1>s. ASSUME NEW i \in 1 .. N + 1, NEW j \in 0 .. N PROVE Size(i, j) \in Nat /\ Size(i, j) < M
  <2>1. i \in Int /\ j \in Int
    BY <1>1
  <2>2. Size(i, j) \in Nat
    BY <2>1, SizeFacts
  <2> QED BY <1>1, <2>2 DEF Size
<1>2. 0 \in T
  <2>1. 0 \in 0 .. M
    BY <1>1
  <2>2. ASSUME NEW i \in 1 .. N + 1, NEW j \in 0 .. N PROVE ~(Size(i, j) < 0)
    <3>1. Size(i, j) \in Nat
      BY <1>s
    <3> QED BY <3>1
  <2> QED BY <2>1, <2>2
<1>3. ASSUME NEW w \in 0 .. M - 1, w \in T PROVE w + 1 \in T
  <2>1. ASSUME NEW i \in 1 .. N + 1, NEW j \in 0 .. N, Size(i, j) < w + 1 PROVE One(C[<<i, j>>])
    <3>1. i \in Int /\ j \in Int /\ w \in Int /\ Size(i, j) \in Nat
      BY <1>1, <1>s
    <3>2. ASSUME NEW p \in 1 .. N + 1, NEW q \in 0 .. N, Size(p, q) < Size(i, j) PROVE One(C[<<p, q>>])
      <4>1. Size(p, q) \in Nat
        BY <1>s
      <4>2. Size(p, q) < w
        BY <2>1, <3>1, <3>2, <4>1
      <4> QED BY <1>3, <4>2
    <3>3. C[<<i, j>>] = ReadingOf(C, t, i, j)
      BY ReadingIs DEF Reads
    <3>4. CASE i > j
      <4>1. C[<<i, j>>] = {}
        BY <3>3, <3>4 DEF ReadingOf
      <4> QED BY <4>1 DEF One
    <3>5. CASE ~(i > j) /\ LastApplied(t, i, j) # {}
      <4> DEFINE r == Root(t, i, j)
                 A == C[<<i, r - 1>>]
                 B == C[<<r + 1, j>>]
                 e == {<<Visit(LevelOf(t[r].kind), BinaryOp(t[r].kind), NoToken)>>}
      <4>1. r \in Binaries(t, i, j)
        BY <3>5, RootFacts
      <4>2. r \in i + 1 .. j
        BY <4>1, BinaryFacts
      <4>3. C[<<i, j>>] = A ** B ** e
        BY <3>3, <3>5 DEF ReadingOf
      <4> HIDE DEF r
      <4>4. r - 1 \in 0 .. N /\ r + 1 \in 1 .. N + 1 /\ Size(i, r - 1) < Size(i, j) /\ Size(r + 1, j) < Size(i, j)
        BY <3>1, <4>2 DEF Size
      <4>5. One(A) /\ One(B)
        BY <3>2, <4>4
      <4>6. One(e)
        BY DEF One
      <4> HIDE DEF A, B, e
      <4>7. One(A ** B)
        BY <4>5, OneProduct
      <4>8. One((A ** B) ** e)
        BY <4>6, <4>7, OneProduct
      <4> QED BY <4>3, <4>8
    <3>6. CASE ~(i > j) /\ LastApplied(t, i, j) = {} /\ Is(t, i, UnarySigns)
      <4> DEFINE B == C[<<i + 1, j>>]
                 e == {<<Visit("UnaryExp", UnaryOp(t[i].kind), NoToken)>>}
      <4>1. C[<<i, j>>] = B ** e
        BY <3>3, <3>6 DEF ReadingOf
      <4>2. i + 1 \in 1 .. N + 1 /\ Size(i + 1, j) < Size(i, j)
        BY <3>1, <3>6 DEF Size
      <4>3. One(B)
        BY <3>2, <4>2
      <4>4. One(e)
        BY DEF One
      <4> HIDE DEF B, e
      <4> QED BY <4>1, <4>3, <4>4, OneProduct
    <3>7. CASE /\ ~(i > j) /\ LastApplied(t, i, j) = {} /\ ~Is(t, i, UnarySigns)
               /\ Is(t, i, {"("}) /\ Is(t, j, {")"})
      <4>1. C[<<i, j>>] = C[<<i + 1, j - 1>>]
        BY <3>3, <3>7 DEF ReadingOf
      <4>2. i + 1 \in 1 .. N + 1 /\ j - 1 \in 0 .. N /\ Size(i + 1, j - 1) < Size(i, j)
        BY <3>1, <3>7 DEF Size
      <4> QED BY <3>2, <4>1, <4>2
    <3>8. CASE /\ ~(i > j) /\ LastApplied(t, i, j) = {} /\ ~Is(t, i, UnarySigns)
               /\ ~(Is(t, i, {"("}) /\ Is(t, j, {")"}))
      <4>1. C[<<i, j>>] \in {VisitsOf("LVal", t[i]), VisitsOf("Number", t[i]), {}}
        BY <3>3, <3>8 DEF ReadingOf
      <4>2. One(VisitsOf("LVal", t[i])) /\ One(VisitsOf("Number", t[i])) /\ One({})
        BY DEF One, VisitsOf
      <4> QED BY <4>1, <4>2
    <3> QED BY <3>4, <3>5, <3>6, <3>7, <3>8
  <2>2. w + 1 \in 0 .. M
    BY <1>1
  <2> QED BY <2>1, <2>2
<1>4. \A w \in 0 .. M : w \in T
  <2> HIDE DEF T, M
  <2> QED BY <1>1, <1>2, <1>3, Upwards
<1>5. M \in T
  <2>1. M \in 0 .. M
    BY <1>1
  <2> HIDE DEF T, M
  <2> QED BY <1>4, <2>1
<1> QED BY <1>5, <1>s

LEMMA OneExp ==
  ASSUME NEW S, NEW t \in Seq(S), NEW X, Derives(X, t),
         NEW i \in 1 .. Len(t) + 1, NEW j \in 0 .. Len(t), NEW v, NEW w, In(X, "Exp", i, j, v), In(X, "Exp", i, j, w)
  PROVE  v = w
<1> DEFINE N == Len(t)
<1>1. N \in Nat /\ i \in Int /\ j \in Int
  OBVIOUS
<1>2. PICK C : Reads(C, t)
  BY CReadingIs
<1>3. "Exp" \in ExpNonTerminals /\ 8 - Rank["Exp"] = 0 /\ "Exp" # "PrimaryExp"
  BY RankFacts
<1>4. From(t, i, j, 0)
  <2>1. ASSUME NEW m \in Binaries(t, i, j) PROVE Precedence(t, m) >= 0
    <3>1. Precedence(t, m) \in 1 .. 6
      BY <1>1, BinaryFacts
    <3> QED BY <3>1
  <2> QED BY <2>1 DEF From
<1>5. X[<<"Exp", i, j>>] = Expected(C, t, "Exp", i, j)
  BY <1>2, <1>3, DerivedReads
<1>6. X[<<"Exp", i, j>>] = C[<<i, j>>]
  BY <1>3, <1>4, <1>5 DEF Expected
<1>7. One(C[<<i, j>>])
  BY <1>2, OneReading
<1> QED BY <1>6, <1>7 DEF One, In

-----------------------------------------------------------------------------
(* Where definitions, statements and blocks end.                           *)

OtherKinds == {"{", "}", ";", "return", "=", ",", "const", "int", "void"}

LEMMA ExpKindsAre ==
  \A kind \in ExpKinds : kind \notin OtherKinds
<1>1. ASSUME NEW sign \in BinarySigns PROVE sign \notin OtherKinds
  <2>1. PICK l \in DOMAIN BinaryLevel : sign \in BinaryLevel[l].ops
    BY DEF BinarySigns
  <2>2. l \in {"LOrExp", "LAndExp", "EqExp", "RelExp", "AddExp", "MulExp"}
    BY DEF BinaryLevel
  <2>3. CASE l \in {"LOrExp", "LAndExp", "EqExp"}
    <3>1. sign \in {"||", "&&", "==", "!="}
      BY <2>1, <2>3 DEF BinaryLevel
    <3> QED BY <3>1 DEF OtherKinds
  <2>4. CASE l = "RelExp"
    <3>1. sign \in {"<", "<=", ">", ">="}
      BY <2>1, <2>4 DEF BinaryLevel
    <3> QED BY <3>1 DEF OtherKinds
  <2>5. CASE l \in {"AddExp", "MulExp"}
    <3>1. sign \in {"+", "-", "*", "/", "%"}
      BY <2>1, <2>5 DEF BinaryLevel
    <3> QED BY <3>1 DEF OtherKinds
  <2> QED BY <2>2, <2>3, <2>4, <2>5
<1>2. \A sign \in UnarySigns : sign \notin OtherKinds
  BY DEF UnarySigns, OtherKinds
<1>3. \A kind \in {"ident", "number", "(", ")"} : kind \notin OtherKinds
  BY DEF OtherKinds
<1> QED BY <1>1, <1>2, <1>3 DEF ExpKinds

LEMMA GivenShape ==
  ASSUME NEW D, NEW X, NEW t, Parses(D, X, t), NEW i \in 1 .. Len(t) + 1, NEW j \in 0 .. Len(t),
         NEW begin, NEW end, NEW v, Given(X, t, begin, end, i, j, v)
  PROVE  /\ i \in Int /\ j \in Int /\ i + 2 \in 1 .. Len(t) + 1 /\ i + 2 <= j
         /\ Is(t, i, {"ident"}) /\ Is(t, i + 1, {"="}) /\ Spells(t, i + 2, j, ExpKinds)
<1>1. Len(t) \in Nat /\ DOMAIN t = 1 .. Len(t) /\ Derives(X, t)
  BY DEF Parses
<1>2. /\ Is(t, i, {"ident"}) /\ Is(t, i + 1, {"="})
      /\ \E w : In(X, "Exp", i + 2, j, w)
  BY DEF Given
<1>3. i + 1 \in 1 .. Len(t)
  BY <1>1, <1>2 DEF Is
<1>4. i \in Int /\ j \in Int /\ i + 2 \in 1 .. Len(t) + 1
  BY <1>1, <1>3
<1>5. Spells(t, i + 2, j, ExpKinds)
  BY <1>1, <1>2, <1>4, ExpTokens, RankFacts
<1> QED BY <1>2, <1>4, <1>5 DEF Spells

LEMMA GivenOnce ==
  ASSUME NEW S, NEW D, NEW X, NEW t \in Seq(S), Parses(D, X, t), NEW i \in 1 .. Len(t) + 1, NEW j \in 0 .. Len(t),
         NEW begin, NEW end, NEW v, NEW w, Given(X, t, begin, end, i, j, v), Given(X, t, begin, end, i, j, w)
  PROVE  v = w
<1>1. i + 2 \in 1 .. Len(t) + 1 /\ Derives(X, t)
  BY GivenShape DEF Parses
<1>2. PICK a : In(X, "Exp", i + 2, j, a) /\ v = Framed(begin, t[i], a, end)
  BY DEF Given
<1>3. PICK b : In(X, "Exp", i + 2, j, b) /\ w = Framed(begin, t[i], b, end)
  BY DEF Given
<1>4. a = b
  BY <1>1, <1>2, <1>3, OneExp
<1> QED BY <1>2, <1>3, <1>4

\* The lists of definitions, and what they are lists of.
Lists == {"ConstDefs", "VarDefs"}
EachOf(nt) == IF nt = "ConstDefs" THEN "ConstDef" ELSE "VarDef"
DefKinds  == ExpKinds \cup {"="}
ListKinds == DefKinds \cup {","}

LEMMA ListFacts ==
  ASSUME NEW nt \in Lists
  PROVE  /\ nt \in NonTerminals /\ EachOf(nt) \in NonTerminals /\ EachOf(nt) \in {"ConstDef", "VarDef"}
         /\ Rank[nt] \in 0 .. 8 /\ Rank[EachOf(nt)] \in 0 .. 8 /\ Rank[EachOf(nt)] < Rank[nt]
<1>1. CASE nt = "ConstDefs"
  BY <1>1, ProgramRanks DEF EachOf, NonTerminals
<1>2. CASE nt = "VarDefs"
  BY <1>2, ProgramRanks DEF EachOf, NonTerminals
<1> QED BY <1>1, <1>2 DEF Lists

LEMMA ListIs ==
  ASSUME NEW D, NEW X, NEW t, Parses(D, X, t), NEW nt \in Lists,
         NEW i \in 1 .. Len(t) + 1, NEW j \in 0 .. Len(t), NEW v
  PROVE  In(D, nt, i, j, v) <=> Defined(D, t, nt, EachOf(nt), i, j, v)
<1>1. CASE nt = "ConstDefs"
  BY <1>1, ConstDefsIs DEF EachOf
<1>2. CASE nt = "VarDefs"
  BY <1>2, VarDefsIs DEF EachOf
<1> QED BY <1>1, <1>2 DEF Lists

LEMMA DefTokens ==
  ASSUME NEW D, NEW X, NEW t, Parses(D, X, t), NEW each \in {"ConstDef", "VarDef"},
         NEW i \in 1 .. Len(t) + 1, NEW j \in 0 .. Len(t), NEW v, In(D, each, i, j, v)
  PROVE  Spells(t, i, j, DefKinds)
<1>0. ASSUME NEW k, NEW K, Is(t, k, K), K \subseteq DefKinds PROVE Is(t, k, DefKinds)
  BY <1>0 DEF Is
<1>1. ASSUME NEW begin, NEW end, Given(X, t, begin, end, i, j, v) PROVE Spells(t, i, j, DefKinds)
  <2>1. /\ i \in Int /\ j \in Int /\ i + 2 <= j
        /\ Is(t, i, {"ident"}) /\ Is(t, i + 1, {"="}) /\ Spells(t, i + 2, j, ExpKinds)
    BY <1>1, GivenShape
  <2>2. Is(t, i, DefKinds) /\ Is(t, i + 1, DefKinds)
    BY <1>0, <2>1 DEF DefKinds, ExpKinds
  <2>3. \A k \in i + 2 .. j : Is(t, k, DefKinds)
    BY <1>0, <2>1 DEF DefKinds, Spells
  <2> QED BY <2>1, <2>2, <2>3 DEF Spells
<1>2. CASE each = "ConstDef"
  BY <1>1, <1>2, ConstDefIs
<1>3. CASE each = "VarDef"
  <2>1. (i = j /\ Is(t, i, {"ident"})) \/ Given(X, t, "BeginVarDef", "EndVarDef", i, j, v)
    BY <1>3, VarDefIs
  <2>2. CASE i = j /\ Is(t, i, {"ident"})
    <3>1. Is(t, i, DefKinds)
      BY <1>0, <2>2 DEF DefKinds, ExpKinds
    <3>2. i \in Int
      BY DEF Parses
    <3> QED BY <2>2, <3>1, <3>2 DEF Spells
  <2> QED BY <1>1, <2>1, <2>2
<1> QED BY <1>2, <1>3

LEMMA DefOnce ==
  ASSUME NEW S, NEW D, NEW X, NEW t \in Seq(S), Parses(D, X, t), NEW each \in {"ConstDef", "VarDef"},
         NEW i \in 1 .. Len(t) + 1, NEW j \in 0 .. Len(t), NEW v, NEW w, In(D, each, i, j, v), In(D, each, i, j, w)
  PROVE  v = w
<1>1. CASE each = "ConstDef"
  <2>1. Given(X, t, "BeginConstDef", "EndConstDef", i, j, v) /\ Given(X, t, "BeginConstDef", "EndConstDef", i, j, w)
    BY <1>1, ConstDefIs
  <2> QED BY <2>1, GivenOnce
<1>2. CASE each = "VarDef"
  <2>1. \A u \in {v, w} : \/ i = j /\ Is(t, i, {"ident"}) /\ u = Mark("VarDefOnly", t[i])
                          \/ Given(X, t, "BeginVarDef", "EndVarDef", i, j, u)
    BY <1>2, VarDefIs
  <2>2. \A u \in {v, w} : Given(X, t, "BeginVarDef", "EndVarDef", i, j, u) => i # j
    <3> SUFFICES ASSUME NEW u \in {v, w}, Given(X, t, "BeginVarDef", "EndVarDef", i, j, u) PROVE i # j
      OBVIOUS
    <3>1. i \in Int /\ j \in Int /\ i + 2 <= j
      BY GivenShape
    <3> QED BY <3>1
  <2>3. CASE i = j
    BY <2>1, <2>2, <2>3
  <2>4. CASE i # j
    <3>1. Given(X, t, "BeginVarDef", "EndVarDef", i, j, v) /\ Given(X, t, "BeginVarDef", "EndVarDef", i, j, w)
      BY <2>1, <2>4
    <3> QED BY <3>1, GivenOnce
  <2> QED BY <2>3, <2>4
<1> QED BY <1>1, <1>2

LEMMA ListTokens ==
  ASSUME NEW D, NEW X, NEW t, Parses(D, X, t)
  PROVE  \A nt \in Lists, i \in 1 .. Len(t) + 1, j \in 0 .. Len(t) :
           \A v : In(D, nt, i, j, v) => Spells(t, i, j, ListKinds)
<1> DEFINE N == Len(t)
           Full(s) == \A v : In(D, s[1], s[2], s[3], v) => Spells(t, s[2], s[3], ListKinds)
           G == {s \in Lists \X (1 .. N + 1) \X (0 .. N) : Full(s)}
<1>1. N \in Nat
  BY DEF Parses
<1>2. ASSUME NEW nt \in Lists, NEW i \in 1 .. N + 1, NEW j \in 0 .. N
      PROVE  <<nt, i, j>> \in G <=> \A v : In(D, nt, i, j, v) => Spells(t, i, j, ListKinds)
  OBVIOUS
<1> HIDE DEF G
<1>3. ASSUME NEW nt \in Lists, NEW i \in 1 .. N + 1, NEW j \in 0 .. N,
             \A m \in Lists, p \in 1 .. N + 1, q \in 0 .. N :
               Weight(m, p, q) < Weight(nt, i, j) => <<m, p, q>> \in G,
             NEW v, In(D, nt, i, j, v)
      PROVE  Spells(t, i, j, ListKinds)
  <2>1. i \in Int /\ j \in Int
    BY <1>1
  <2>2. ASSUME NEW k, NEW K, Is(t, k, K), K \subseteq ListKinds PROVE Is(t, k, ListKinds)
    BY <2>2 DEF Is
  <2> DEFINE each == EachOf(nt)
  <2>3. Defined(D, t, nt, each, i, j, v)
    BY <1>3, ListIs
  <2>4. Rank[nt] \in 0 .. 8 /\ Rank[each] \in 0 .. 8 /\ Rank[each] < Rank[nt] /\ each \in {"ConstDef", "VarDef"}
    BY ListFacts
  <2> HIDE DEF each
  <2>5. ASSUME NEW p \in 1 .. N + 1, NEW q \in 0 .. N, NEW x, In(D, each, p, q, x)
        PROVE  p <= q /\ \A k \in p .. q : Is(t, k, ListKinds)
    <3>1. Spells(t, p, q, DefKinds)
      BY <2>4, <2>5, DefTokens
    <3>2. DefKinds \subseteq ListKinds
      BY DEF ListKinds
    <3> QED BY <2>2, <3>1, <3>2 DEF Spells
  <2>6. CASE In(D, each, i, j, v)
    BY <2>5, <2>6 DEF Spells
  <2>7. CASE ~In(D, each, i, j, v)
    <3>1. PICK k \in i .. j : Is(t, k, {","}) /\ (\E x : In(D, each, i, k - 1, x)) /\ \E y : In(D, nt, k + 1, j, y)
      BY <2>3, <2>7 DEF Defined
    <3>2. k \in 0 .. N /\ k - 1 \in 0 .. N /\ k + 1 \in 1 .. N + 1 /\ Weight(nt, k + 1, j) < Weight(nt, i, j) /\ k \in Int
      <4>1. \A m \in i .. j : /\ m \in 0 .. N /\ m - 1 \in 0 .. N /\ m + 1 \in 1 .. N + 1
                              /\ Weight(nt, m + 1, j) < Weight(nt, i, j)
        BY <1>1, <2>4, ListSpans
      <4>2. k \in Int
        BY <2>1
      <4> QED BY <4>1, <4>2
    <3>3. i <= k - 1 /\ \A m \in i .. k - 1 : Is(t, m, ListKinds)
      BY <2>5, <3>1, <3>2
    <3>4. k + 1 <= j /\ \A m \in k + 1 .. j : Is(t, m, ListKinds)
      BY <1>2, <1>3, <3>1, <3>2 DEF Spells
    <3>5. Is(t, k, ListKinds)
      BY <2>2, <3>1 DEF ListKinds
    <3>6. i <= j
      BY <2>1, <3>2, <3>3, <3>4
    <3> QED BY <2>1, <3>2, <3>3, <3>4, <3>5, <3>6 DEF Spells
  <2> QED BY <2>6, <2>7
<1>4. \A nt \in Lists, i \in 1 .. N + 1, j \in 0 .. N :
        (\A m \in Lists, p \in 1 .. N + 1, q \in 0 .. N :
           Weight(m, p, q) < Weight(nt, i, j) => <<m, p, q>> \in G) => <<nt, i, j>> \in G
  BY <1>2, <1>3
<1>5. \A nt \in Lists, i \in 1 .. N + 1, j \in 0 .. N : <<nt, i, j>> \in G
  <2> HIDE DEF N
  <2>1. \A nt \in Lists : Rank[nt] \in 0 .. 8
    BY ListFacts
  <2> QED BY <1>1, <1>4, <2>1, ByWeight
<1> QED BY <1>2, <1>5

LEMMA ListOnce ==
  ASSUME NEW S, NEW D, NEW X, NEW t \in Seq(S), Parses(D, X, t)
  PROVE  \A nt \in Lists, i \in 1 .. Len(t) + 1, j \in 0 .. Len(t) :
           \A v, w : In(D, nt, i, j, v) /\ In(D, nt, i, j, w) => v = w
<1> DEFINE N == Len(t)
           Full(s) == \A v, w : In(D, s[1], s[2], s[3], v) /\ In(D, s[1], s[2], s[3], w) => v = w
           G == {s \in Lists \X (1 .. N + 1) \X (0 .. N) : Full(s)}
<1>1. N \in Nat
  BY DEF Parses
<1>2. ASSUME NEW nt \in Lists, NEW i \in 1 .. N + 1, NEW j \in 0 .. N
      PROVE  <<nt, i, j>> \in G <=> \A v, w : In(D, nt, i, j, v) /\ In(D, nt, i, j, w) => v = w
  OBVIOUS
<1> HIDE DEF G
<1>3. ASSUME NEW nt \in Lists, NEW i \in 1 .. N + 1, NEW j \in 0 .. N,
             \A m \in Lists, p \in 1 .. N + 1, q \in 0 .. N :
               Weight(m, p, q) < Weight(nt, i, j) => <<m, p, q>> \in G,
             NEW v, NEW w, In(D, nt, i, j, v), In(D, nt, i, j, w)
      PROVE  v = w
  <2>1. i \in Int /\ j \in Int
    BY <1>1
  <2> DEFINE each == EachOf(nt)
  <2>2. Defined(D, t, nt, each, i, j, v) /\ Defined(D, t, nt, each, i, j, w)
    BY <1>3, ListIs
  <2>3. Rank[nt] \in 0 .. 8 /\ Rank[each] \in 0 .. 8 /\ Rank[each] < Rank[nt] /\ each \in {"ConstDef", "VarDef"}
    BY ListFacts
  <2> HIDE DEF each
  <2>4. \A k \in i .. j : /\ k \in 0 .. N /\ k - 1 \in 0 .. N /\ k + 1 \in 1 .. N + 1
                          /\ Weight(nt, k + 1, j) < Weight(nt, i, j)
    BY <1>1, <2>3, ListSpans
  <2>5. ASSUME NEW q \in 0 .. N, NEW x, In(D, each, i, q, x), NEW k \in i .. q PROVE ~Is(t, k, {","})
    <3>1. Spells(t, i, q, DefKinds)
      BY <2>3, <2>5, DefTokens
    <3>2. Is(t, k, DefKinds)
      BY <3>1 DEF Spells
    <3>3. "," \notin DefKinds
      BY ExpKindsAre DEF DefKinds, OtherKinds
    <3> QED BY <3>2, <3>3 DEF Is
  <2>6. CASE In(D, each, i, j, v) \/ In(D, each, i, j, w)
    <3>1. \A k \in i .. j : ~Is(t, k, {","})
      BY <2>5, <2>6
    <3>2. In(D, each, i, j, v) /\ In(D, each, i, j, w)
      BY <2>2, <3>1 DEF Defined
    <3> QED BY <2>3, <3>2, DefOnce
  <2>7. CASE ~(In(D, each, i, j, v) \/ In(D, each, i, j, w))
    <3>1. PICK k \in i .. j : \E x, y : /\ Is(t, k, {","}) /\ In(D, each, i, k - 1, x) /\ In(D, nt, k + 1, j, y)
                                        /\ v = x \o y
      BY <2>2, <2>7 DEF Defined
    <3>2. PICK x, y : Is(t, k, {","}) /\ In(D, each, i, k - 1, x) /\ In(D, nt, k + 1, j, y) /\ v = x \o y
      BY <3>1
    <3>3. PICK l \in i .. j : \E a, b : /\ Is(t, l, {","}) /\ In(D, each, i, l - 1, a) /\ In(D, nt, l + 1, j, b)
                                        /\ w = a \o b
      BY <2>2, <2>7 DEF Defined
    <3>4. PICK a, b : Is(t, l, {","}) /\ In(D, each, i, l - 1, a) /\ In(D, nt, l + 1, j, b) /\ w = a \o b
      BY <3>3
    <3>5. k \in Int /\ l \in Int
      BY <2>1
    <3>6. ~(l < k)
      <4>1. l < k => l \in i .. k - 1
        BY <2>1, <3>5
      <4> QED BY <2>4, <2>5, <3>2, <3>4, <4>1
    <3>7. ~(k < l)
      <4>1. k < l => k \in i .. l - 1
        BY <2>1, <3>5
      <4> QED BY <2>4, <2>5, <3>2, <3>4, <4>1
    <3>8. k = l
      BY <3>5, <3>6, <3>7
    <3>9. x = a
      <4>1. k - 1 \in 0 .. N
        BY <2>4
      <4>2. In(D, each, i, k - 1, x) /\ In(D, each, i, k - 1, a)
        BY <3>2, <3>4, <3>8
      <4> QED BY <2>3, <4>1, <4>2, DefOnce
    <3>10. y = b
      BY <1>2, <1>3, <2>4, <3>2, <3>4, <3>8
    <3> QED BY <3>2, <3>4, <3>9, <3>10
  <2> QED BY <2>6, <2>7
<1>4. \A nt \in Lists, i \in 1 .. N + 1, j \in 0 .. N :
        (\A m \in Lists, p \in 1 .. N + 1, q \in 0 .. N :
           Weight(m, p, q) < Weight(nt, i, j) => <<m, p, q>> \in G) => <<nt, i, j>> \in G
  BY <1>2, <1>3
<1>5. \A nt \in Lists, i \in 1 .. N + 1, j \in 0 .. N : <<nt, i, j>> \in G
  <2> HIDE DEF N
  <2>1. \A nt \in Lists : Rank[nt] \in 0 .. 8
    BY ListFacts
  <2> QED BY <1>1, <1>4, <2>1, ByWeight
<1> QED BY <1>2, <1>5

\* A span that ends with its first semicolon.
FirstEnd(t, i, j) == i <= j /\ Is(t, j, {";"}) /\ \A k \in i .. j - 1 : ~Is(t, k, {";"})

DeclStarts == {"const", "int", "void"}
LineStarts == ExpKinds \cup {";", "return"}
LineKinds  == ListKinds \cup {"return", "const", "int", "void"}

LEMMA StartsApart ==
  /\ LineStarts \cap DeclStarts = {} /\ LineStarts \cap {"{", "}"} = {} /\ DeclStarts \cap {"{", "}"} = {}
  /\ ";" \notin LineKinds
<1>1. \A kind \in ExpKinds : kind \notin OtherKinds
  BY ExpKindsAre
<1>2. LineStarts \cap DeclStarts = {}
  BY <1>1 DEF LineStarts, DeclStarts, OtherKinds
<1>3. LineStarts \cap {"{", "}"} = {}
  BY <1>1 DEF LineStarts, OtherKinds
<1>4. DeclStarts \cap {"{", "}"} = {}
  BY DEF DeclStarts
<1>5. ";" \notin LineKinds
  BY <1>1 DEF LineKinds, ListKinds, DefKinds, OtherKinds
<1> QED BY <1>2, <1>3, <1>4, <1>5

LEMMA PlaceBefore ==
  ASSUME NEW t, Len(t) \in Nat, DOMAIN t = 1 .. Len(t), NEW k, NEW K, Is(t, k, K)
  PROVE  k \in 1 .. Len(t) /\ k - 1 \in 0 .. Len(t)
<1>1. k \in 1 .. Len(t)
  BY DEF Is
<1> QED BY <1>1

LEMMA ClosedBy ==
  ASSUME NEW t, NEW i \in Int, NEW j \in Int, Is(t, j, {";"}), i <= j, \A k \in i .. j - 1 : Is(t, k, LineKinds)
  PROVE  FirstEnd(t, i, j)
<1>1. ASSUME NEW k \in i .. j - 1 PROVE ~Is(t, k, {";"})
  <2>1. Is(t, k, LineKinds)
    OBVIOUS
  <2> QED BY <2>1, StartsApart DEF Is
<1> QED BY <1>1 DEF FirstEnd

LEMMA ClosedOnce ==
  ASSUME NEW t, NEW i \in Int, NEW j \in Int, NEW k \in Int, FirstEnd(t, i, j), FirstEnd(t, i, k)
  PROVE  j = k
<1>0. i <= j /\ i <= k
  BY Zenon DEF FirstEnd
<1>1. ~(j < k)
  <2>1. j < k => j \in i .. k - 1
    BY <1>0
  <2> QED BY <2>1 DEF FirstEnd
<1>2. ~(k < j)
  <2>1. k < j => k \in i .. j - 1
    BY <1>0
  <2> QED BY <2>1 DEF FirstEnd
<1> QED BY <1>1, <1>2

LEMMA DeclShape ==
  ASSUME NEW D, NEW X, NEW t, Parses(D, X, t), NEW i \in 1 .. Len(t) + 1, NEW j \in 0 .. Len(t),
         NEW v, In(D, "Decl", i, j, v)
  PROVE  FirstEnd(t, i, j) /\ Is(t, i, DeclStarts)
<1>1. Len(t) \in Nat /\ DOMAIN t = 1 .. Len(t)
  BY DEF Parses
<1>2. i \in Int /\ j \in Int
  BY <1>1
<1>3. Declared(D, t, i, j, v)
  BY DeclIs
<1>4. Is(t, j, {";"}) /\ j \in 1 .. Len(t) /\ j - 1 \in 0 .. Len(t)
  <2>1. Is(t, j, {";"})
    BY <1>3, Zenon DEF Declared
  <2> QED BY <1>1, <2>1, PlaceBefore
<1>5. ASSUME NEW k, NEW K, Is(t, k, K), K \subseteq LineKinds PROVE Is(t, k, LineKinds)
  BY <1>5 DEF Is
<1>6. ListKinds \subseteq LineKinds /\ {"const"} \subseteq LineKinds /\ BType \subseteq LineKinds
  BY DEF LineKinds, BType
<1>7. ASSUME NEW nt \in Lists, NEW p \in 1 .. Len(t) + 1, In(D, nt, p, j - 1, v)
      PROVE  p <= j - 1 /\ \A k \in p .. j - 1 : Is(t, k, LineKinds)
  <2>2. Spells(t, p, j - 1, ListKinds)
    BY <1>4, <1>7, ListTokens
  <2> QED BY <1>5, <1>6, <2>2 DEF Spells
<1>8. CASE Is(t, i, {"const"}) /\ Is(t, i + 1, BType) /\ In(D, "ConstDefs", i + 2, j - 1, v)
  <2>1. i + 2 \in 1 .. Len(t) + 1
    BY <1>1, <1>2, <1>8 DEF Is
  <2>2. i + 2 <= j - 1 /\ \A k \in i + 2 .. j - 1 : Is(t, k, LineKinds)
    BY <1>7, <1>8, <2>1 DEF Lists
  <2>3. Is(t, i, LineKinds) /\ Is(t, i + 1, LineKinds)
    BY <1>5, <1>6, <1>8
  <2>4. \A k \in i .. j - 1 : Is(t, k, LineKinds)
    BY <1>2, <2>2, <2>3
  <2>5. Is(t, i, DeclStarts)
    BY <1>8 DEF Is, DeclStarts
  <2>6. i <= j
    BY <1>2, <2>2
  <2> QED BY <1>2, <1>4, <2>4, <2>5, <2>6, ClosedBy
<1>9. CASE Is(t, i, BType) /\ In(D, "VarDefs", i + 1, j - 1, v)
  <2>1. i + 1 \in 1 .. Len(t) + 1
    BY <1>1, <1>2, <1>9 DEF Is
  <2>2. i + 1 <= j - 1 /\ \A k \in i + 1 .. j - 1 : Is(t, k, LineKinds)
    BY <1>7, <1>9, <2>1 DEF Lists
  <2>3. Is(t, i, LineKinds)
    BY <1>5, <1>6, <1>9
  <2>4. \A k \in i .. j - 1 : Is(t, k, LineKinds)
    BY <1>2, <2>2, <2>3
  <2>5. Is(t, i, DeclStarts)
    BY <1>9 DEF Is, DeclStarts, BType
  <2>6. i <= j
    BY <1>2, <2>2
  <2> QED BY <1>2, <1>4, <2>4, <2>5, <2>6, ClosedBy
<1> QED BY <1>3, <1>8, <1>9 DEF Declared

LEMMA DeclOnce ==
  ASSUME NEW S, NEW D, NEW X, NEW t \in Seq(S), Parses(D, X, t), NEW i \in 1 .. Len(t) + 1,
         NEW j \in 0 .. Len(t), NEW k \in 0 .. Len(t), NEW v, NEW w, In(D, "Decl", i, j, v), In(D, "Decl", i, k, w)
  PROVE  j = k /\ v = w
<1>1. i \in Int /\ j \in Int /\ k \in Int /\ Len(t) \in Nat /\ DOMAIN t = 1 .. Len(t)
  BY DEF Parses
<1>2. j = k
  BY <1>1, DeclShape, ClosedOnce
<1>3. Declared(D, t, i, j, v) /\ Declared(D, t, i, j, w)
  BY <1>2, DeclIs
<1>4. j - 1 \in 0 .. Len(t)
  <2>1. Is(t, j, {";"})
    BY <1>3, Zenon DEF Declared
  <2> QED BY <1>1, <2>1, PlaceBefore
<1>5. Is(t, i, {"const"}) => ~Is(t, i, BType)
  BY DEF Is, BType
<1>6. CASE Is(t, i, {"const"})
  <2>1. Is(t, i + 1, BType) /\ In(D, "ConstDefs", i + 2, j - 1, v) /\ In(D, "ConstDefs", i + 2, j - 1, w)
    BY <1>3, <1>5, <1>6 DEF Declared
  <2>2. i + 2 \in 1 .. Len(t) + 1
    BY <1>1, <2>1 DEF Is
  <2> QED BY <1>2, <1>4, <2>1, <2>2, ListOnce DEF Lists
<1>7. CASE ~Is(t, i, {"const"})
  <2>1. Is(t, i, BType) /\ In(D, "VarDefs", i + 1, j - 1, v) /\ In(D, "VarDefs", i + 1, j - 1, w)
    BY <1>3, <1>7 DEF Declared
  <2>2. i + 1 \in 1 .. Len(t) + 1
    BY <1>1, <2>1 DEF Is
  <2> QED BY <1>2, <1>4, <2>1, <2>2, ListOnce DEF Lists
<1> QED BY <1>6, <1>7

\* A statement that is no block.
Line(X, t, i, j, v) ==
  /\ Is(t, j, {";"})
  /\ \/ i = j /\ v = <<>>
     \/ /\ i # j
        /\ \/ \E w : In(X, "Exp", i, j - 1, w) /\ v = Framed("BeginRaw", NoToken, w, "EndRawExp")
           \/ Is(t, i, {"return"})
              /\ \E w : In(X, "Exp", i + 1, j - 1, w) /\ v = Framed("BeginReturn", NoToken, w, "EndReturn")
           \/ Given(X, t, "BeginAssign", "EndAssign", i, j - 1, v)
BlockStmt(D, i, j, v) == \E w : In(D, "Block", i, j, w) /\ v = Framed("BeginBlock", NoToken, w, "EndBlock")

LEMMA StmtRule ==
  ASSUME NEW D, NEW X, NEW t, Parses(D, X, t), NEW i \in 1 .. Len(t) + 1, NEW j \in 0 .. Len(t), NEW v
  PROVE  In(D, "Stmt", i, j, v) <=> BlockStmt(D, i, j, v) \/ Line(X, t, i, j, v)
<1>1. In(D, "Stmt", i, j, v) <=> Stated(D, X, t, i, j, v)
  BY StmtIs
<1> QED BY <1>1, Zenon DEF Stated, BlockStmt, Line

LEMMA LineShape ==
  ASSUME NEW D, NEW X, NEW t, Parses(D, X, t), NEW i \in 1 .. Len(t) + 1, NEW j \in 0 .. Len(t),
         NEW v, Line(X, t, i, j, v)
  PROVE  FirstEnd(t, i, j) /\ Is(t, i, LineStarts)
<1>1. Len(t) \in Nat /\ DOMAIN t = 1 .. Len(t) /\ Derives(X, t)
  BY DEF Parses
<1>2. i \in Int /\ j \in Int
  BY <1>1
<1>4. Is(t, j, {";"}) /\ j \in 1 .. Len(t) /\ j - 1 \in 0 .. Len(t)
  <2>1. Is(t, j, {";"})
    BY Zenon DEF Line
  <2> QED BY <1>1, <2>1, PlaceBefore
<1>5. ASSUME NEW k, NEW K, NEW L, Is(t, k, K), K \subseteq L PROVE Is(t, k, L)
  BY <1>5 DEF Is
<1>6. ExpKinds \subseteq LineKinds /\ {"return"} \subseteq LineKinds /\ {"ident"} \subseteq LineKinds /\ {"="} \subseteq LineKinds
  BY DEF LineKinds, ListKinds, DefKinds, ExpKinds
<1>7. ExpKinds \subseteq LineStarts /\ {"return"} \subseteq LineStarts /\ {"ident"} \subseteq LineStarts /\ {";"} \subseteq LineStarts
  BY DEF LineStarts, ExpKinds
<1>8. ASSUME NEW p \in 1 .. Len(t) + 1, NEW w, In(X, "Exp", p, j - 1, w)
      PROVE  p <= j - 1 /\ Is(t, p, ExpKinds) /\ \A k \in p .. j - 1 : Is(t, k, LineKinds)
  <2>1. Spells(t, p, j - 1, ExpKinds)
    BY <1>1, <1>4, <1>8, ExpTokens, RankFacts
  <2>2. p \in p .. j - 1
    BY <1>1, <2>1 DEF Spells
  <2> QED BY <1>5, <1>6, <2>1, <2>2 DEF Spells
<1>9. CASE i = j
  <2>1. \A k \in i .. j - 1 : Is(t, k, LineKinds)
    BY <1>2, <1>9
  <2>2. Is(t, i, LineStarts)
    BY <1>4, <1>5, <1>7, <1>9
  <2>3. i <= j
    BY <1>2, <1>9
  <2> QED BY <1>2, <1>4, <2>1, <2>2, <2>3, ClosedBy
<1>10. CASE i # j
  <2>1. CASE \E w : In(X, "Exp", i, j - 1, w)
    <3>1. i <= j - 1 /\ Is(t, i, ExpKinds) /\ \A k \in i .. j - 1 : Is(t, k, LineKinds)
      BY <1>8, <2>1
    <3>2. Is(t, i, LineStarts)
      BY <1>5, <1>7, <3>1
    <3>3. i <= j
      BY <1>2, <3>1
    <3> QED BY <1>2, <1>4, <3>1, <3>2, <3>3, ClosedBy
  <2>2. CASE Is(t, i, {"return"}) /\ \E w : In(X, "Exp", i + 1, j - 1, w)
    <3>1. i + 1 \in 1 .. Len(t) + 1
      BY <1>1, <1>2, <2>2 DEF Is
    <3>2. i + 1 <= j - 1 /\ \A k \in i + 1 .. j - 1 : Is(t, k, LineKinds)
      BY <1>8, <2>2, <3>1
    <3>3. Is(t, i, LineStarts) /\ Is(t, i, LineKinds)
      BY <1>5, <1>6, <1>7, <2>2
    <3>4. i <= j /\ \A k \in i .. j - 1 : Is(t, k, LineKinds)
      BY <1>2, <3>2, <3>3
    <3> QED BY <1>2, <1>4, <3>3, <3>4, ClosedBy
  <2>3. CASE Given(X, t, "BeginAssign", "EndAssign", i, j - 1, v)
    <3>1. /\ i + 2 <= j - 1 /\ Is(t, i, {"ident"}) /\ Is(t, i + 1, {"="}) /\ Spells(t, i + 2, j - 1, ExpKinds)
      BY <1>4, <2>3, GivenShape
    <3>2. Is(t, i, LineStarts) /\ Is(t, i, LineKinds) /\ Is(t, i + 1, LineKinds)
      BY <1>5, <1>6, <1>7, <3>1
    <3>3. \A k \in i + 2 .. j - 1 : Is(t, k, LineKinds)
      BY <1>5, <1>6, <3>1 DEF Spells
    <3>4. i <= j /\ \A k \in i .. j - 1 : Is(t, k, LineKinds)
      BY <1>2, <3>1, <3>2, <3>3
    <3> QED BY <1>2, <1>4, <3>2, <3>4, ClosedBy
  <2> QED BY <1>10, <2>1, <2>2, <2>3 DEF Line
<1> QED BY <1>9, <1>10

LEMMA LineOnce ==
  ASSUME NEW S, NEW D, NEW X, NEW t \in Seq(S), Parses(D, X, t), NEW i \in 1 .. Len(t) + 1,
         NEW j \in 0 .. Len(t), NEW k \in 0 .. Len(t), NEW v, NEW w, Line(X, t, i, j, v), Line(X, t, i, k, w)
  PROVE  j = k /\ v = w
<1>1. i \in Int /\ j \in Int /\ k \in Int /\ Len(t) \in Nat /\ DOMAIN t = 1 .. Len(t) /\ Derives(X, t)
  BY DEF Parses
<1>2. j = k
  BY <1>1, LineShape, ClosedOnce
<1>3. Line(X, t, i, j, v) /\ Line(X, t, i, j, w) /\ j - 1 \in 0 .. Len(t)
  <2>1. Is(t, j, {";"})
    BY Zenon DEF Line
  <2>2. j - 1 \in 0 .. Len(t)
    BY <1>1, <2>1, PlaceBefore
  <2> QED BY <1>2, <2>2
<1> DEFINE Raw(u) == \E x : In(X, "Exp", i, j - 1, x) /\ u = Framed("BeginRaw", NoToken, x, "EndRawExp")
           Return(u) == Is(t, i, {"return"})
             /\ \E x : In(X, "Exp", i + 1, j - 1, x) /\ u = Framed("BeginReturn", NoToken, x, "EndReturn")
           Assign(u) == Given(X, t, "BeginAssign", "EndAssign", i, j - 1, u)
<1>4. CASE i = j
  BY <1>2, <1>3, <1>4 DEF Line
<1>5. CASE i # j
  <2>1. ASSUME NEW u, Line(X, t, i, j, u) PROVE Raw(u) \/ Return(u) \/ Assign(u)
    BY <1>5, <2>1, Zenon DEF Line
  <2>2. ASSUME NEW u, Raw(u) PROVE i <= j - 1 /\ \A m \in i .. j - 1 : Is(t, m, ExpKinds)
    <3>1. \E x : In(X, "Exp", i, j - 1, x)
      BY <2>2
    <3>2. Spells(t, i, j - 1, ExpKinds)
      BY <1>1, <1>3, <3>1, ExpTokens, RankFacts
    <3> QED BY <3>2 DEF Spells
  <2>3. ASSUME NEW u, NEW x, Raw(u), Return(x) PROVE FALSE
    <3>1. Is(t, i, {"return"})
      BY <2>3
    <3>2. Is(t, i, ExpKinds)
      BY <1>1, <2>2, <2>3
    <3> QED BY <3>1, <3>2, ExpKindsAre DEF Is, OtherKinds
  <2>4. ASSUME NEW u, NEW x, Raw(u), Assign(x) PROVE FALSE
    <3>1. Is(t, i + 1, {"="}) /\ i + 2 <= j - 1
      BY <1>3, <2>4, GivenShape
    <3>2. Is(t, i + 1, ExpKinds)
      BY <1>1, <2>2, <2>4, <3>1
    <3> QED BY <3>1, <3>2, ExpKindsAre DEF Is, OtherKinds
  <2>5. ASSUME NEW u, NEW x, Return(u), Assign(x) PROVE FALSE
    <3>1. Is(t, i, {"ident"}) /\ Is(t, i, {"return"})
      BY <2>5 DEF Given
    <3> QED BY <3>1 DEF Is
  <2>6. CASE Raw(v) /\ Raw(w)
    <3>1. PICK x : In(X, "Exp", i, j - 1, x) /\ v = Framed("BeginRaw", NoToken, x, "EndRawExp")
      BY <2>6
    <3>2. PICK y : In(X, "Exp", i, j - 1, y) /\ w = Framed("BeginRaw", NoToken, y, "EndRawExp")
      BY <2>6
    <3>3. x = y
      BY <1>1, <1>3, <3>1, <3>2, OneExp
    <3> QED BY <1>2, <3>1, <3>2, <3>3
  <2>7. CASE Return(v) /\ Return(w)
    <3>1. PICK x : In(X, "Exp", i + 1, j - 1, x) /\ v = Framed("BeginReturn", NoToken, x, "EndReturn")
      BY <2>7
    <3>2. PICK y : In(X, "Exp", i + 1, j - 1, y) /\ w = Framed("BeginReturn", NoToken, y, "EndReturn")
      BY <2>7
    <3>3. i + 1 \in 1 .. Len(t) + 1
      BY <1>1, <2>7 DEF Is
    <3>4. x = y
      BY <1>1, <1>3, <3>1, <3>2, <3>3, OneExp
    <3> QED BY <1>2, <3>1, <3>2, <3>4
  <2>8. CASE Assign(v) /\ Assign(w)
    <3>1. v = w
      BY <1>3, <2>8, GivenOnce
    <3> QED BY <1>2, <3>1
  <2> HIDE DEF Raw, Return, Assign
  <2> QED BY <1>3, <2>1, <2>3, <2>4, <2>5, <2>6, <2>7, <2>8
<1> QED BY <1>4, <1>5

-----------------------------------------------------------------------------
(* A program has one derivation.                                           *)

Trees == {"Block", "BlockItems", "BlockItem", "Stmt", "FuncDef", "CompUnit"}

\* Two readings from one place: those of a block's items end before a brace,
\* those of a program at one place; the others end where they must.
Comparable(t, nt, i, j, k) ==
  /\ nt = "CompUnit" => j = k
  /\ nt = "BlockItems" => /\ i <= j + 1 /\ i <= k + 1
                          /\ Is(t, j + 1, {"}"}) /\ Is(t, k + 1, {"}"})
Alone(D, t, nt, i, j) ==
  \A k \in 0 .. Len(t) : \A v, w :
    In(D, nt, i, j, v) /\ In(D, nt, i, k, w) /\ Comparable(t, nt, i, j, k) => j = k /\ v = w

LEMMA BlockOnce ==
  ASSUME NEW D, NEW X, NEW t, Parses(D, X, t), NEW i \in 1 .. Len(t) + 1, NEW j \in 0 .. Len(t),
         i < j => Alone(D, t, "BlockItems", i + 1, j - 1)
  PROVE  Alone(D, t, "Block", i, j)
<1> SUFFICES ASSUME NEW k \in 0 .. Len(t), NEW v, NEW w, In(D, "Block", i, j, v), In(D, "Block", i, k, w)
             PROVE  j = k /\ v = w
  BY DEF Alone
<1>1. i \in Int /\ j \in Int /\ k \in Int /\ Len(t) \in Nat /\ DOMAIN t = 1 .. Len(t)
  BY DEF Parses
<1>2. i < j /\ Is(t, j, {"}"}) /\ In(D, "BlockItems", i + 1, j - 1, v)
  BY BlockIs
<1>3. i < k /\ Is(t, k, {"}"}) /\ In(D, "BlockItems", i + 1, k - 1, w)
  BY BlockIs
<1>4. Comparable(t, "BlockItems", i + 1, j - 1, k - 1)
  <2>0. i < j /\ i < k
    BY <1>2, <1>3
  <2>1. i + 1 <= j - 1 + 1 /\ i + 1 <= k - 1 + 1 /\ j - 1 + 1 = j /\ k - 1 + 1 = k
    BY <1>1, <2>0
  <2> QED BY <1>2, <1>3, <2>1 DEF Comparable
<1>5. k - 1 \in 0 .. Len(t)
  BY <1>1, <1>3, PlaceBefore
<1>6. j - 1 = k - 1 /\ v = w
  BY <1>2, <1>3, <1>4, <1>5 DEF Alone
<1> QED BY <1>1, <1>6

LEMMA StmtOnce ==
  ASSUME NEW S, NEW D, NEW X, NEW t \in Seq(S), Parses(D, X, t), NEW i \in 1 .. Len(t) + 1, NEW j \in 0 .. Len(t),
         Alone(D, t, "Block", i, j)
  PROVE  Alone(D, t, "Stmt", i, j)
<1> SUFFICES ASSUME NEW k \in 0 .. Len(t), NEW v, NEW w, In(D, "Stmt", i, j, v), In(D, "Stmt", i, k, w)
             PROVE  j = k /\ v = w
  BY DEF Alone
<1>1. (BlockStmt(D, i, j, v) \/ Line(X, t, i, j, v)) /\ (BlockStmt(D, i, k, w) \/ Line(X, t, i, k, w))
  BY StmtRule
<1>2. ASSUME NEW m \in 0 .. Len(t), NEW u, BlockStmt(D, i, m, u) PROVE Is(t, i, {"{"})
  BY <1>2, BlockIs DEF BlockStmt
<1>3. ASSUME NEW m \in 0 .. Len(t), NEW u, Line(X, t, i, m, u) PROVE ~Is(t, i, {"{"})
  <2>1. Is(t, i, LineStarts)
    BY <1>3, LineShape
  <2> QED BY <2>1, StartsApart DEF Is
<1>4. CASE BlockStmt(D, i, j, v) /\ BlockStmt(D, i, k, w)
  <2>1. PICK x : In(D, "Block", i, j, x) /\ v = Framed("BeginBlock", NoToken, x, "EndBlock")
    BY <1>4 DEF BlockStmt
  <2>2. PICK y : In(D, "Block", i, k, y) /\ w = Framed("BeginBlock", NoToken, y, "EndBlock")
    BY <1>4 DEF BlockStmt
  <2>3. Comparable(t, "Block", i, j, k)
    BY DEF Comparable
  <2>4. j = k /\ x = y
    BY <2>1, <2>2, <2>3 DEF Alone
  <2> QED BY <2>1, <2>2, <2>4
<1>5. CASE Line(X, t, i, j, v) /\ Line(X, t, i, k, w)
  BY <1>5, LineOnce
<1> QED BY <1>1, <1>2, <1>3, <1>4, <1>5

LEMMA BlockItemStart ==
  ASSUME NEW D, NEW X, NEW t, Parses(D, X, t), NEW i \in 1 .. Len(t) + 1, NEW j \in 0 .. Len(t),
         NEW v, In(D, "BlockItem", i, j, v)
  PROVE  ~Is(t, i, {"}"})
<1>1. CASE In(D, "Decl", i, j, v)
  <2>1. Is(t, i, DeclStarts)
    BY <1>1, DeclShape
  <2> QED BY <2>1, StartsApart DEF Is
<1>2. CASE In(D, "Stmt", i, j, v)
  <2>1. CASE BlockStmt(D, i, j, v)
    <3>1. Is(t, i, {"{"})
      BY <2>1, BlockIs DEF BlockStmt
    <3> QED BY <3>1 DEF Is
  <2>2. CASE Line(X, t, i, j, v)
    <3>1. Is(t, i, LineStarts)
      BY <2>2, LineShape
    <3> QED BY <3>1, StartsApart DEF Is
  <2> QED BY <1>2, <2>1, <2>2, StmtRule
<1> QED BY <1>1, <1>2, BlockItemIs

LEMMA BlockItemOnce ==
  ASSUME NEW S, NEW D, NEW X, NEW t \in Seq(S), Parses(D, X, t), NEW i \in 1 .. Len(t) + 1, NEW j \in 0 .. Len(t),
         Alone(D, t, "Stmt", i, j)
  PROVE  Alone(D, t, "BlockItem", i, j)
<1> SUFFICES ASSUME NEW k \in 0 .. Len(t), NEW v, NEW w, In(D, "BlockItem", i, j, v), In(D, "BlockItem", i, k, w)
             PROVE  j = k /\ v = w
  BY DEF Alone
<1>1. (In(D, "Stmt", i, j, v) \/ In(D, "Decl", i, j, v)) /\ (In(D, "Stmt", i, k, w) \/ In(D, "Decl", i, k, w))
  BY BlockItemIs
<1>2. ASSUME NEW m \in 0 .. Len(t), NEW u, In(D, "Stmt", i, m, u) PROVE ~Is(t, i, DeclStarts)
  <2>1. CASE BlockStmt(D, i, m, u)
    <3>1. Is(t, i, {"{"})
      BY <2>1, BlockIs DEF BlockStmt
    <3> QED BY <3>1 DEF Is, DeclStarts
  <2>2. CASE Line(X, t, i, m, u)
    <3>1. Is(t, i, LineStarts)
      BY <2>2, LineShape
    <3> QED BY <3>1, StartsApart DEF Is
  <2> QED BY <1>2, <2>1, <2>2, StmtRule
<1>3. ASSUME NEW m \in 0 .. Len(t), NEW u, In(D, "Decl", i, m, u) PROVE Is(t, i, DeclStarts)
  BY <1>3, DeclShape
<1>4. CASE In(D, "Stmt", i, j, v) /\ In(D, "Stmt", i, k, w)
  <2>1. Comparable(t, "Stmt", i, j, k)
    BY DEF Comparable
  <2> QED BY <1>4, <2>1 DEF Alone
<1>5. CASE In(D, "Decl", i, j, v) /\ In(D, "Decl", i, k, w)
  BY <1>5, DeclOnce
<1> QED BY <1>1, <1>2, <1>3, <1>4, <1>5

LEMMA FuncDefOnce ==
  ASSUME NEW D, NEW X, NEW t, Parses(D, X, t), NEW i \in 1 .. Len(t) + 1, NEW j \in 0 .. Len(t),
         i + 4 \in 1 .. Len(t) + 1 => Alone(D, t, "Block", i + 4, j)
  PROVE  Alone(D, t, "FuncDef", i, j)
<1> SUFFICES ASSUME NEW k \in 0 .. Len(t), NEW v, NEW w, In(D, "FuncDef", i, j, v), In(D, "FuncDef", i, k, w)
             PROVE  j = k /\ v = w
  BY DEF Alone
<1>1. Is(t, i + 3, {")"}) /\ \E x : In(D, "Block", i + 4, j, x) /\ v = Framed("BeginFunc", t[i + 1], x, "EndFunc")
  BY FuncDefIs
<1>2. \E x : In(D, "Block", i + 4, k, x) /\ w = Framed("BeginFunc", t[i + 1], x, "EndFunc")
  BY FuncDefIs
<1>3. i + 4 \in 1 .. Len(t) + 1
  <2>1. Len(t) \in Nat /\ DOMAIN t = 1 .. Len(t)
    BY DEF Parses
  <2>2. i + 3 \in 1 .. Len(t)
    BY <1>1, <2>1, PlaceBefore
  <2> QED BY <2>1, <2>2
<1>4. PICK x : In(D, "Block", i + 4, j, x) /\ v = Framed("BeginFunc", t[i + 1], x, "EndFunc")
  BY <1>1
<1>5. PICK y : In(D, "Block", i + 4, k, y) /\ w = Framed("BeginFunc", t[i + 1], y, "EndFunc")
  BY <1>2
<1>6. Comparable(t, "Block", i + 4, j, k)
  BY DEF Comparable
<1>7. j = k /\ x = y
  BY <1>3, <1>4, <1>5, <1>6 DEF Alone
<1> QED BY <1>4, <1>5, <1>7

LEMMA BlockItemsOnce ==
  ASSUME NEW D, NEW X, NEW t, Parses(D, X, t), NEW i \in 1 .. Len(t) + 1, NEW j \in 0 .. Len(t),
         \A m \in i .. j : Alone(D, t, "BlockItem", i, m) /\ Alone(D, t, "BlockItems", m + 1, j)
  PROVE  Alone(D, t, "BlockItems", i, j)
<1> SUFFICES ASSUME NEW k \in 0 .. Len(t), NEW v, NEW w, In(D, "BlockItems", i, j, v), In(D, "BlockItems", i, k, w),
                    Comparable(t, "BlockItems", i, j, k)
             PROVE  j = k /\ v = w
  BY DEF Alone
<1>1. i \in Int /\ j \in Int /\ k \in Int /\ Len(t) \in Nat
  BY DEF Parses
<1>2. i <= j + 1 /\ i <= k + 1 /\ Is(t, j + 1, {"}"}) /\ Is(t, k + 1, {"}"})
  BY DEF Comparable
<1> DEFINE Empty(q, u) == i > q /\ u = <<>>
           First(q, u) == \E m \in i .. q : \E x, y : In(D, "BlockItem", i, m, x) /\ In(D, "BlockItems", m + 1, q, y)
                                                     /\ u = x \o y
<1>3. ASSUME NEW q \in 0 .. Len(t), NEW u, In(D, "BlockItems", i, q, u) PROVE Empty(q, u) \/ First(q, u)
  <2>1. Listed(D, t, "BlockItems", "BlockItem", {";", "}"}, i, q, u)
    BY <1>3, BlockItemsIs
  <2>2. (i > q /\ u = <<>>) \/ \E m \in i .. q : \E x, y : /\ In(D, "BlockItem", i, m, x)
                                                         /\ In(D, "BlockItems", m + 1, q, y) /\ u = x \o y
    BY <2>1, Zenon DEF Listed
  <2> QED BY <2>2
<1>4. ASSUME NEW q \in 0 .. Len(t), NEW u, First(q, u) PROVE ~Is(t, i, {"}"})
  <2>1. PICK m \in i .. q : \E x : In(D, "BlockItem", i, m, x)
    BY <1>4
  <2>2. m \in 0 .. Len(t)
    BY <1>1, <2>1
  <2> QED BY <2>1, <2>2, BlockItemStart
<1>5. ASSUME NEW q \in 0 .. Len(t), NEW u, Empty(q, u), i <= q + 1 PROVE i = q + 1
  BY <1>1, <1>5
<1>6. CASE Empty(j, v) /\ Empty(k, w)
  <2>1. i = j + 1 /\ i = k + 1
    BY <1>2, <1>5, <1>6
  <2> QED BY <1>1, <1>6, <2>1
<1>7. CASE First(j, v) /\ First(k, w)
  <2>1. PICK m \in i .. j : \E x, y : /\ In(D, "BlockItem", i, m, x) /\ In(D, "BlockItems", m + 1, j, y)
                                      /\ v = x \o y
    BY <1>7
  <2>2. PICK x, y : In(D, "BlockItem", i, m, x) /\ In(D, "BlockItems", m + 1, j, y) /\ v = x \o y
    BY <2>1
  <2>3. PICK l \in i .. k : \E a, b : /\ In(D, "BlockItem", i, l, a) /\ In(D, "BlockItems", l + 1, k, b)
                                      /\ w = a \o b
    BY <1>7
  <2>4. PICK a, b : In(D, "BlockItem", i, l, a) /\ In(D, "BlockItems", l + 1, k, b) /\ w = a \o b
    BY <2>3
  <2>5. l \in 0 .. Len(t) /\ m \in Int /\ l \in Int /\ m <= j /\ l <= k
    BY <1>1
  <2>6. m = l /\ x = a
    <3>1. Comparable(t, "BlockItem", i, m, l)
      BY DEF Comparable
    <3>2. Alone(D, t, "BlockItem", i, m)
      OBVIOUS
    <3> QED BY <2>2, <2>4, <2>5, <3>1, <3>2 DEF Alone
  <2>7. j = k /\ y = b
    <3>1. m + 1 <= j + 1 /\ m + 1 <= k + 1
      BY <1>1, <2>5, <2>6
    <3>2. Comparable(t, "BlockItems", m + 1, j, k)
      BY <1>2, <3>1 DEF Comparable
    <3>3. Alone(D, t, "BlockItems", m + 1, j)
      OBVIOUS
    <3> QED BY <2>2, <2>4, <2>6, <3>2, <3>3 DEF Alone
  <2> QED BY <2>2, <2>4, <2>6, <2>7
<1>8. ~(Empty(j, v) /\ First(k, w))
  <2>1. ASSUME Empty(j, v), First(k, w) PROVE FALSE
    <3>1. Is(t, i, {"}"})
      BY <1>2, <1>5, <2>1
    <3> QED BY <1>4, <2>1, <3>1
  <2> QED BY <2>1
<1>9. ~(First(j, v) /\ Empty(k, w))
  <2>1. ASSUME First(j, v), Empty(k, w) PROVE FALSE
    <3>1. Is(t, i, {"}"})
      BY <1>2, <1>5, <2>1
    <3> QED BY <1>4, <2>1, <3>1
  <2> QED BY <2>1
<1> HIDE DEF Empty, First
<1>10. Empty(j, v) \/ First(j, v)
  BY <1>3
<1>11. Empty(k, w) \/ First(k, w)
  BY <1>3
<1> QED BY <1>6, <1>7, <1>8, <1>9, <1>10, <1>11

LEMMA CompUnitOnce ==
  ASSUME NEW D, NEW X, NEW t, Parses(D, X, t), NEW i \in 1 .. Len(t) + 1, NEW j \in 0 .. Len(t),
         \A m \in i .. j : Alone(D, t, "FuncDef", i, m) /\ Alone(D, t, "CompUnit", m + 1, j)
  PROVE  Alone(D, t, "CompUnit", i, j)
<1> SUFFICES ASSUME NEW v, NEW w, In(D, "CompUnit", i, j, v), In(D, "CompUnit", i, j, w)
             PROVE  v = w
  BY DEF Alone, Comparable
<1>1. i \in Int /\ j \in Int /\ Len(t) \in Nat
  BY DEF Parses
<1> DEFINE First(u) == \E m \in i .. j : \E x, y : In(D, "FuncDef", i, m, x) /\ In(D, "CompUnit", m + 1, j, y)
                                                  /\ u = x \o y
<1>2. ASSUME NEW u, In(D, "CompUnit", i, j, u) PROVE (i > j /\ u = <<>>) \/ First(u)
  <2>1. Listed(D, t, "CompUnit", "FuncDef", {"}"}, i, j, u)
    BY <1>2, CompUnitIs
  <2>2. (i > j /\ u = <<>>) \/ \E m \in i .. j : \E x, y : /\ In(D, "FuncDef", i, m, x)
                                                         /\ In(D, "CompUnit", m + 1, j, y) /\ u = x \o y
    BY <2>1, Zenon DEF Listed
  <2> QED BY <2>2
<1>3. CASE i > j
  <2>1. ASSUME NEW u, First(u) PROVE FALSE
    BY <1>1, <1>3, <2>1
  <2> HIDE DEF First
  <2> QED BY <1>2, <1>3, <2>1
<1>4. CASE ~(i > j)
  <2>1. First(v) /\ First(w)
    BY <1>2, <1>4
  <2>2. PICK m \in i .. j : \E x, y : In(D, "FuncDef", i, m, x) /\ In(D, "CompUnit", m + 1, j, y) /\ v = x \o y
    BY <2>1
  <2>3. PICK x, y : In(D, "FuncDef", i, m, x) /\ In(D, "CompUnit", m + 1, j, y) /\ v = x \o y
    BY <2>2
  <2>4. PICK l \in i .. j : \E a, b : In(D, "FuncDef", i, l, a) /\ In(D, "CompUnit", l + 1, j, b) /\ w = a \o b
    BY <2>1
  <2>5. PICK a, b : In(D, "FuncDef", i, l, a) /\ In(D, "CompUnit", l + 1, j, b) /\ w = a \o b
    BY <2>4
  <2>6. l \in 0 .. Len(t)
    BY <1>1
  <2>7. m = l /\ x = a
    <3>1. Comparable(t, "FuncDef", i, m, l)
      BY DEF Comparable
    <3>2. Alone(D, t, "FuncDef", i, m)
      OBVIOUS
    <3> QED BY <2>3, <2>5, <2>6, <3>1, <3>2 DEF Alone
  <2>8. y = b
    <3>1. Comparable(t, "CompUnit", m + 1, j, j)
      BY DEF Comparable
    <3>2. Alone(D, t, "CompUnit", m + 1, j)
      OBVIOUS
    <3> QED BY <2>3, <2>5, <2>7, <3>1, <3>2 DEF Alone
  <2> QED BY <2>3, <2>5, <2>7, <2>8
<1> QED BY <1>3, <1>4

LEMMA TreeRanks ==
  /\ \A nt \in Trees : Rank[nt] \in 0 .. 8
  /\ Rank["Block"] \in 0 .. 8 /\ Rank["Stmt"] \in 0 .. 8 /\ Rank["BlockItem"] \in 0 .. 8
  /\ Rank["BlockItems"] \in 0 .. 8 /\ Rank["FuncDef"] \in 0 .. 8 /\ Rank["CompUnit"] \in 0 .. 8
  /\ Rank["Block"] < Rank["Stmt"] /\ Rank["Stmt"] < Rank["BlockItem"] /\ Rank["BlockItem"] < Rank["BlockItems"]
  /\ Rank["Block"] < Rank["FuncDef"] /\ Rank["FuncDef"] < Rank["CompUnit"]
<1>1. /\ Rank["Block"] = 3 /\ Rank["Stmt"] = 4 /\ Rank["BlockItem"] = 5
      /\ Rank["BlockItems"] = 6 /\ Rank["FuncDef"] = 7 /\ Rank["CompUnit"] = 8
  BY ProgramRanks
<1>2. \A n \in {3, 4, 5, 6, 7, 8} : n \in 0 .. 8
  OBVIOUS
<1>3. \A nt \in Trees : Rank[nt] \in 0 .. 8
  BY <1>1, <1>2 DEF Trees
<1> QED BY <1>1, <1>3 DEF Trees

LEMMA TreesOnce ==
  ASSUME NEW S, NEW D, NEW X, NEW t \in Seq(S), Parses(D, X, t)
  PROVE  \A nt \in Trees, i \in 1 .. Len(t) + 1, j \in 0 .. Len(t) : Alone(D, t, nt, i, j)
<1> DEFINE N == Len(t)
           G == {s \in Trees \X (1 .. N + 1) \X (0 .. N) : Alone(D, t, s[1], s[2], s[3])}
<1>1. N \in Nat
  BY DEF Parses
<1>2. ASSUME NEW nt \in Trees, NEW i \in 1 .. N + 1, NEW j \in 0 .. N
      PROVE  <<nt, i, j>> \in G <=> Alone(D, t, nt, i, j)
  <2> DEFINE s == <<nt, i, j>>
  <2>1. s \in Trees \X (1 .. N + 1) \X (0 .. N) /\ s[1] = nt /\ s[2] = i /\ s[3] = j
    OBVIOUS
  <2> HIDE DEF s
  <2>2. s \in G <=> Alone(D, t, s[1], s[2], s[3])
    BY <2>1, Zenon
  <2> QED BY <2>1, <2>2 DEF s
<1> HIDE DEF G
<1>3. ASSUME NEW nt \in Trees, NEW i \in 1 .. N + 1, NEW j \in 0 .. N,
             \A m \in Trees, p \in 1 .. N + 1, q \in 0 .. N :
               Weight(m, p, q) < Weight(nt, i, j) => <<m, p, q>> \in G
      PROVE  Alone(D, t, nt, i, j)
  <2>1. ASSUME NEW m \in Trees, NEW p \in 1 .. N + 1, NEW q \in 0 .. N, Weight(m, p, q) < Weight(nt, i, j)
        PROVE  Alone(D, t, m, p, q)
    BY <1>2, <1>3, <2>1
  <2>2. i \in Int /\ j \in Int
    BY <1>1
  <2>3. CASE nt = "Block"
    <3>1. i < j => i + 1 \in 1 .. N + 1 /\ j - 1 \in 0 .. N /\ Weight("BlockItems", i + 1, j - 1) < Weight("Block", i, j)
      BY <1>1, InsideBlock
    <3>2. i < j => Alone(D, t, "BlockItems", i + 1, j - 1)
      BY <2>1, <2>3, <3>1 DEF Trees
    <3> QED BY <2>3, <3>2, BlockOnce
  <2>4. CASE nt = "Stmt"
    <3>1. Weight("Block", i, j) < Weight("Stmt", i, j)
      BY <2>2, LowerRank, TreeRanks
    <3>2. Alone(D, t, "Block", i, j)
      BY <2>1, <2>4, <3>1 DEF Trees
    <3> QED BY <2>4, <3>2, StmtOnce
  <2>5. CASE nt = "BlockItem"
    <3>1. Weight("Stmt", i, j) < Weight("BlockItem", i, j)
      BY <2>2, LowerRank, TreeRanks
    <3>2. Alone(D, t, "Stmt", i, j)
      BY <2>1, <2>5, <3>1 DEF Trees
    <3> QED BY <2>5, <3>2, BlockItemOnce
  <2>6. CASE nt = "FuncDef"
    <3>1. ASSUME i + 4 \in 1 .. N + 1 PROVE Alone(D, t, "Block", i + 4, j)
      <4>1. i <= i + 4 /\ j <= j
        BY <2>2
      <4>2. Weight("Block", i + 4, j) < Weight("FuncDef", i, j)
        BY <1>1, <3>1, <4>1, ShorterSpan, TreeRanks
      <4> QED BY <2>1, <2>6, <3>1, <4>2 DEF Trees
    <3> QED BY <2>6, <3>1, FuncDefOnce
  <2>7. CASE nt = "BlockItems"
    <3>1. \A k \in i .. j : /\ k \in 0 .. N /\ k + 1 \in 1 .. N + 1
                            /\ Weight("BlockItem", i, k) < Weight("BlockItems", i, j)
                            /\ Weight("BlockItems", k + 1, j) < Weight("BlockItems", i, j)
      BY <1>1, ListSpans, TreeRanks
    <3>2. \A m \in i .. j : Alone(D, t, "BlockItem", i, m) /\ Alone(D, t, "BlockItems", m + 1, j)
      BY <2>1, <2>7, <3>1 DEF Trees
    <3> QED BY <2>7, <3>2, BlockItemsOnce
  <2>8. CASE nt = "CompUnit"
    <3>1. \A k \in i .. j : /\ k \in 0 .. N /\ k + 1 \in 1 .. N + 1
                            /\ Weight("FuncDef", i, k) < Weight("CompUnit", i, j)
                            /\ Weight("CompUnit", k + 1, j) < Weight("CompUnit", i, j)
      BY <1>1, ListSpans, TreeRanks
    <3>2. \A m \in i .. j : Alone(D, t, "FuncDef", i, m) /\ Alone(D, t, "CompUnit", m + 1, j)
      BY <2>1, <2>8, <3>1 DEF Trees
    <3> QED BY <2>8, <3>2, CompUnitOnce
  <2> QED BY <2>3, <2>4, <2>5, <2>6, <2>7, <2>8 DEF Trees
<1>4. \A nt \in Trees, i \in 1 .. N + 1, j \in 0 .. N :
        (\A m \in Trees, p \in 1 .. N + 1, q \in 0 .. N :
           Weight(m, p, q) < Weight(nt, i, j) => <<m, p, q>> \in G) => <<nt, i, j>> \in G
  BY <1>2, <1>3
<1>5. \A nt \in Trees, i \in 1 .. N + 1, j \in 0 .. N : <<nt, i, j>> \in G
  <2> HIDE DEF N
  <2>1. \A nt \in Trees : Rank[nt] \in 0 .. 8
    BY ProgramRanks DEF Trees, NonTerminals
  <2> QED BY <1>1, <1>4, <2>1, ByWeight
<1> QED BY <1>2, <1>5

\* No text of a program has two derivations.
LEMMA OneDerivation ==
  ASSUME NEW S, NEW t \in Seq(S), NEW v \in Derivations(t), NEW w \in Derivations(t) PROVE v = w
<1>1. Len(t) \in Nat /\ DOMAIN t = 1 .. Len(t)
  OBVIOUS
<1>2. PICK D : Produces(D, Expressions(t), t) /\ Derivations(t) = D[<<"CompUnit", 1, Len(t)>>]
  BY <1>1, DerivationsAre
<1> DEFINE X == Expressions(t)
<1>3. Parses(D, X, t)
  BY <1>1, <1>2, ExpressionsDerive DEF Parses
<1> HIDE DEF X
<1>4. 1 \in 1 .. Len(t) + 1 /\ Len(t) \in 0 .. Len(t)
  BY <1>1
<1>5. Alone(D, t, "CompUnit", 1, Len(t))
  BY <1>3, <1>4, TreesOnce DEF Trees
<1>6. In(D, "CompUnit", 1, Len(t), v) /\ In(D, "CompUnit", 1, Len(t), w)
  BY <1>2, Zenon DEF In
<1>7. Comparable(t, "CompUnit", 1, Len(t), Len(t))
  BY DEF Comparable
<1> QED BY <1>4, <1>5, <1>6, <1>7 DEF Alone

-----------------------------------------------------------------------------
(* What is left of a program without its layout; how visits are written.   *)

Word(words, token) == IF token.kind \in WordKinds THEN Append(words, token) ELSE words
WordsFrom(w, s) == w = [n \in 0 .. Len(s) |-> IF n = 0 THEN <<>> ELSE Word(w[n - 1], s[n])]

LEMMA WordsExist ==
  ASSUME NEW s, Len(s) \in Nat
  PROVE  \E w : WordsFrom(w, s)
<1> DEFINE N == Len(s)
           Q(k, w) == w = [n \in 0 .. k |-> IF n = 0 THEN <<>> ELSE Word(w[n - 1], s[n])]
           K == {k \in 0 .. N : \E w : Q(k, w)}
<1>1. 0 \in K
  <2> DEFINE w == [n \in 0 .. 0 |-> <<>>]
  <2>1. Q(0, w)
    OBVIOUS
  <2> HIDE DEF w
  <2>2. 0 \in 0 .. N
    OBVIOUS
  <2> QED BY <2>1, <2>2
<1>2. ASSUME NEW k \in 0 .. N - 1, k \in K PROVE k + 1 \in K
  <2>1. PICK w : Q(k, w)
    BY <1>2
  <2> DEFINE x == [n \in 0 .. k + 1 |-> IF n = k + 1 THEN Word(w[k], s[k + 1]) ELSE w[n]]
  <2>2. ASSUME NEW n \in 0 .. k + 1
        PROVE  x[n] = IF n = 0 THEN <<>> ELSE Word(x[n - 1], s[n])
    <3>1. CASE n = k + 1
      <4>1. n # 0 /\ n - 1 = k /\ k \in 0 .. k + 1 /\ k # k + 1
        BY <3>1
      <4>2. x[n - 1] = w[k]
        BY <4>1
      <4> QED BY <3>1, <4>1, <4>2
    <3>2. CASE n \in 1 .. k
      <4>1. n - 1 \in 0 .. k + 1 /\ n - 1 # k + 1 /\ n \in 0 .. k
        BY <3>2
      <4>2. x[n - 1] = w[n - 1] /\ x[n] = w[n]
        BY <3>2, <4>1
      <4>3. w[n] = Word(w[n - 1], s[n])
        BY <2>1, <3>2, <4>1
      <4> QED BY <3>2, <4>2, <4>3
    <3>3. CASE n = 0
      BY <2>1, <3>3
    <3> QED BY <3>1, <3>2, <3>3
  <2>3. x = [n \in 0 .. k + 1 |-> x[n]]
    OBVIOUS
  <2> HIDE DEF x
  <2>4. Q(k + 1, x)
    BY <2>2, <2>3
  <2> QED BY <2>4
<1>3. \A k \in 0 .. N : k \in K
  <2> HIDE DEF K
  <2>1. N \in Nat
    OBVIOUS
  <2> HIDE DEF N
  <2> QED BY <1>1, <1>2, <2>1, Upwards
<1>4. N \in K
  <2>1. N \in 0 .. N
    OBVIOUS
  <2> HIDE DEF K, N
  <2> QED BY <1>3, <2>1
<1> QED BY <1>4 DEF WordsFrom

LEMMA WordsAre ==
  ASSUME NEW s, Len(s) \in Nat
  PROVE  \E w : /\ w[0] = <<>> /\ \A n \in 1 .. Len(s) : w[n] = Word(w[n - 1], s[n])
                /\ Words(s) = w[Len(s)]
<1> DEFINE w == CHOOSE w : WordsFrom(w, s)
<1>1. WordsFrom(w, s)
  BY WordsExist
<1>2. Words(s) = w[Len(s)]
  BY DEF Words, WordsFrom, Word
<1> HIDE DEF w
<1>3. \A n \in 0 .. Len(s) : w[n] = IF n = 0 THEN <<>> ELSE Word(w[n - 1], s[n])
  BY <1>1 DEF WordsFrom
<1>4. w[0] = <<>>
  <2>1. 0 \in 0 .. Len(s)
    OBVIOUS
  <2> QED BY <1>3, <2>1
<1>5. \A n \in 1 .. Len(s) : w[n] = Word(w[n - 1], s[n])
  <2> SUFFICES ASSUME NEW n \in 1 .. Len(s) PROVE w[n] = Word(w[n - 1], s[n])
    OBVIOUS
  <2>1. n \in 0 .. Len(s) /\ n # 0
    OBVIOUS
  <2> QED BY <1>3, <2>1
<1> QED BY <1>2, <1>4, <1>5

LEMMA WordsNothing ==
   Words(<<>>) = <<>>
<1>1. Len(<<>>) = 0 /\ 0 \in Nat
  OBVIOUS
<1> QED BY <1>1, WordsAre

LEMMA WordsAppend ==
  ASSUME NEW S, NEW s \in Seq(S), NEW e \in S
  PROVE  Words(Append(s, e)) = Word(Words(s), e)
<1> DEFINE u == Append(s, e)
           n == Len(s)
<1>1. n \in Nat /\ Len(u) = n + 1 /\ u[n + 1] = e /\ \A k \in 1 .. n : u[k] = s[k]
  OBVIOUS
<1>2. PICK w : w[0] = <<>> /\ (\A k \in 1 .. n : w[k] = Word(w[k - 1], s[k])) /\ Words(s) = w[n]
  BY <1>1, WordsAre
<1> HIDE DEF u
<1>3. Len(u) \in Nat
  BY <1>1
<1>4. PICK x : /\ x[0] = <<>> /\ (\A k \in 1 .. Len(u) : x[k] = Word(x[k - 1], u[k]))
               /\ Words(u) = x[Len(u)]
  BY <1>3, WordsAre
<1> DEFINE K == {k \in 0 .. n : x[k] = w[k]}
<1>5. 0 \in K
  BY <1>1, <1>2, <1>4
<1>6. ASSUME NEW k \in 0 .. n - 1, k \in K PROVE k + 1 \in K
  <2>1. k + 1 \in 1 .. n /\ k + 1 \in 1 .. Len(u) /\ k + 1 - 1 = k /\ k + 1 \in 0 .. n
    BY <1>1
  <2>2. x[k + 1] = Word(x[k], u[k + 1]) /\ w[k + 1] = Word(w[k], s[k + 1])
    BY <1>2, <1>4, <2>1
  <2>3. x[k] = w[k] /\ u[k + 1] = s[k + 1]
    BY <1>1, <1>6, <2>1
  <2> QED BY <2>1, <2>2, <2>3
<1>7. \A k \in 0 .. n : k \in K
  <2> HIDE DEF K, n
  <2> QED BY <1>1, <1>5, <1>6, Upwards
<1>8. x[n] = w[n]
  <2>1. n \in 0 .. n
    BY <1>1
  <2>2. n \in K
    <3> HIDE DEF K
    <3> QED BY <1>7, <2>1
  <2> QED BY <2>2
<1>9. x[n + 1] = Word(x[n], u[n + 1])
  <2>1. n + 1 \in 1 .. Len(u) /\ n + 1 - 1 = n
    BY <1>1
  <2> QED BY <1>4, <2>1
<1>10. Words(u) = Word(Words(s), e)
  BY <1>1, <1>2, <1>4, <1>8, <1>9
<1> QED BY <1>10 DEF u

\* Run: what is written after far for the visits v.
Run(far, v) ==
  LET r[n \in 0 .. Len(v)] == IF n = 0 THEN far ELSE Spell(r[n - 1], v[n]) IN r[Len(v)]
Runs(w, far, s) == w = [n \in 0 .. Len(s) |-> IF n = 0 THEN far ELSE Spell(w[n - 1], s[n])]

LEMMA RunsExist ==
  ASSUME NEW far, NEW s, Len(s) \in Nat
  PROVE  \E w : Runs(w, far, s)
<1> DEFINE N == Len(s)
           Q(k, w) == w = [n \in 0 .. k |-> IF n = 0 THEN far ELSE Spell(w[n - 1], s[n])]
           K == {k \in 0 .. N : \E w : Q(k, w)}
<1>1. 0 \in K
  <2> DEFINE w == [n \in 0 .. 0 |-> far]
  <2>1. Q(0, w)
    OBVIOUS
  <2> HIDE DEF w
  <2>2. 0 \in 0 .. N
    OBVIOUS
  <2> QED BY <2>1, <2>2
<1>2. ASSUME NEW k \in 0 .. N - 1, k \in K PROVE k + 1 \in K
  <2>1. PICK w : Q(k, w)
    BY <1>2
  <2> DEFINE x == [n \in 0 .. k + 1 |-> IF n = k + 1 THEN Spell(w[k], s[k + 1]) ELSE w[n]]
  <2>2. ASSUME NEW n \in 0 .. k + 1
        PROVE  x[n] = IF n = 0 THEN far ELSE Spell(x[n - 1], s[n])
    <3>1. CASE n = k + 1
      <4>1. n # 0 /\ n - 1 = k /\ k \in 0 .. k + 1 /\ k # k + 1
        BY <3>1
      <4>2. x[n - 1] = w[k]
        BY <4>1
      <4> QED BY <3>1, <4>1, <4>2
    <3>2. CASE n \in 1 .. k
      <4>1. n - 1 \in 0 .. k + 1 /\ n - 1 # k + 1 /\ n \in 0 .. k
        BY <3>2
      <4>2. x[n - 1] = w[n - 1] /\ x[n] = w[n]
        BY <3>2, <4>1
      <4>3. w[n] = Spell(w[n - 1], s[n])
        BY <2>1, <3>2, <4>1
      <4> QED BY <3>2, <4>2, <4>3
    <3>3. CASE n = 0
      BY <2>1, <3>3
    <3> QED BY <3>1, <3>2, <3>3
  <2>3. x = [n \in 0 .. k + 1 |-> x[n]]
    OBVIOUS
  <2> HIDE DEF x
  <2>4. Q(k + 1, x)
    BY <2>2, <2>3
  <2> QED BY <2>4
<1>3. \A k \in 0 .. N : k \in K
  <2> HIDE DEF K
  <2>1. N \in Nat
    OBVIOUS
  <2> HIDE DEF N
  <2> QED BY <1>1, <1>2, <2>1, Upwards
<1>4. N \in K
  <2>1. N \in 0 .. N
    OBVIOUS
  <2> HIDE DEF K, N
  <2> QED BY <1>3, <2>1
<1> QED BY <1>4 DEF Runs

LEMMA RunsAre ==
  ASSUME NEW far, NEW s, Len(s) \in Nat
  PROVE  \E w : /\ w[0] = far /\ \A n \in 1 .. Len(s) : w[n] = Spell(w[n - 1], s[n])
                /\ Run(far, s) = w[Len(s)]
<1> DEFINE w == CHOOSE w : Runs(w, far, s)
<1>1. Runs(w, far, s)
  BY RunsExist
<1>2. Run(far, s) = w[Len(s)]
  BY DEF Run, Runs
<1> HIDE DEF w
<1>3. \A n \in 0 .. Len(s) : w[n] = IF n = 0 THEN far ELSE Spell(w[n - 1], s[n])
  BY <1>1 DEF Runs
<1>4. w[0] = far
  <2>1. 0 \in 0 .. Len(s)
    OBVIOUS
  <2> QED BY <1>3, <2>1
<1>5. \A n \in 1 .. Len(s) : w[n] = Spell(w[n - 1], s[n])
  <2> SUFFICES ASSUME NEW n \in 1 .. Len(s) PROVE w[n] = Spell(w[n - 1], s[n])
    OBVIOUS
  <2>1. n \in 0 .. Len(s) /\ n # 0
    OBVIOUS
  <2> QED BY <1>3, <2>1
<1> QED BY <1>2, <1>4, <1>5

LEMMA RunNothing ==
  \A far : Run(far, <<>>) = far
<1>1. Len(<<>>) = 0 /\ 0 \in Nat
  OBVIOUS
<1> QED BY <1>1, RunsAre

LEMMA RunAppend ==
  ASSUME NEW far, NEW S, NEW s \in Seq(S), NEW e \in S
  PROVE  Run(far, Append(s, e)) = Spell(Run(far, s), e)
<1> DEFINE u == Append(s, e)
           n == Len(s)
<1>1. n \in Nat /\ Len(u) = n + 1 /\ u[n + 1] = e /\ \A k \in 1 .. n : u[k] = s[k]
  OBVIOUS
<1>2. PICK w : w[0] = far /\ (\A k \in 1 .. n : w[k] = Spell(w[k - 1], s[k])) /\ Run(far, s) = w[n]
  BY <1>1, RunsAre
<1> HIDE DEF u
<1>3. Len(u) \in Nat
  BY <1>1
<1>4. PICK x : /\ x[0] = far /\ (\A k \in 1 .. Len(u) : x[k] = Spell(x[k - 1], u[k]))
               /\ Run(far, u) = x[Len(u)]
  BY <1>3, RunsAre
<1> DEFINE K == {k \in 0 .. n : x[k] = w[k]}
<1>5. 0 \in K
  BY <1>1, <1>2, <1>4
<1>6. ASSUME NEW k \in 0 .. n - 1, k \in K PROVE k + 1 \in K
  <2>1. k + 1 \in 1 .. n /\ k + 1 \in 1 .. Len(u) /\ k + 1 - 1 = k /\ k + 1 \in 0 .. n
    BY <1>1
  <2>2. x[k + 1] = Spell(x[k], u[k + 1]) /\ w[k + 1] = Spell(w[k], s[k + 1])
    BY <1>2, <1>4, <2>1
  <2>3. x[k] = w[k] /\ u[k + 1] = s[k + 1]
    BY <1>1, <1>6, <2>1
  <2> QED BY <2>1, <2>2, <2>3
<1>7. \A k \in 0 .. n : k \in K
  <2> HIDE DEF K, n
  <2> QED BY <1>1, <1>5, <1>6, Upwards
<1>8. x[n] = w[n]
  <2>1. n \in 0 .. n
    BY <1>1
  <2>2. n \in K
    <3> HIDE DEF K
    <3> QED BY <1>7, <2>1
  <2> QED BY <2>2
<1>9. x[n + 1] = Spell(x[n], u[n + 1])
  <2>1. n + 1 \in 1 .. Len(u) /\ n + 1 - 1 = n
    BY <1>1
  <2> QED BY <1>4, <2>1
<1>10. Run(far, u) = Spell(Run(far, s), e)
  BY <1>1, <1>2, <1>4, <1>8, <1>9
<1> QED BY <1>10 DEF u

\* A sequence, one element longer.
LEMMA PrefixFacts ==
  ASSUME NEW S, NEW r \in Seq(S)
  PROVE  /\ SubSeq(r, 1, 0) = <<>> /\ SubSeq(r, 1, Len(r)) = r
         /\ \A k \in 0 .. Len(r) : SubSeq(r, 1, k) \in Seq(S)
         /\ \A k \in 0 .. Len(r) - 1 : r[k + 1] \in S /\ SubSeq(r, 1, k + 1) = Append(SubSeq(r, 1, k), r[k + 1])
<1>1. Len(r) \in Nat
  OBVIOUS
<1>2. SubSeq(r, 1, 0) = <<>>
  BY SubSeqEmpty
<1>3. SubSeq(r, 1, Len(r)) = r
  BY SubSeqFull
<1>4. \A k \in 0 .. Len(r) : SubSeq(r, 1, k) \in Seq(S)
  OBVIOUS
<1>5. ASSUME NEW k \in 0 .. Len(r) - 1
      PROVE  r[k + 1] \in S /\ SubSeq(r, 1, k + 1) = Append(SubSeq(r, 1, k), r[k + 1])
  <2>1. k + 1 \in 1 .. Len(r) /\ 1 \in 1 .. Len(r) /\ k + 1 - 1 = k /\ k \in 0 .. Len(r)
    BY <1>1
  <2>2. r[k + 1] \in S
    BY <2>1
  <2>3. SubSeq(r, 1, k + 1) = SubSeq(r, 1, k) \o <<r[k + 1]>>
    BY <2>1, SubSeqRecursiveSecond
  <2>4. Append(SubSeq(r, 1, k), r[k + 1]) = SubSeq(r, 1, k) \o <<r[k + 1]>>
    BY <1>4, <2>1, <2>2, AppendIsConcat
  <2> QED BY <2>2, <2>3, <2>4
<1> QED BY <1>2, <1>3, <1>4, <1>5

LEMMA AppendConcat ==
  ASSUME NEW S, NEW s \in Seq(S), NEW r \in Seq(S), NEW e \in S
  PROVE  s \o Append(r, e) = Append(s \o r, e) /\ s \o r \in Seq(S)
<1>1. <<e>> \in Seq(S) /\ s \o r \in Seq(S)
  OBVIOUS
<1>2. Append(r, e) = r \o <<e>> /\ Append(s \o r, e) = (s \o r) \o <<e>>
  BY <1>1, AppendIsConcat
<1>3. (s \o r) \o <<e>> = s \o (r \o <<e>>)
  BY <1>1, ConcatAssociative
<1> QED BY <1>1, <1>2, <1>3

LEMMA WordsType ==
  ASSUME NEW S, NEW r \in Seq(S)
  PROVE  Words(r) \in Seq(S)
<1> DEFINE n == Len(r)
           p(k) == SubSeq(r, 1, k)
           K == {k \in 0 .. n : Words(p(k)) \in Seq(S)}
<1>1. n \in Nat
  OBVIOUS
<1>2. 0 \in K
  <2>1. p(0) = <<>> /\ Words(<<>>) = <<>> /\ <<>> \in Seq(S)
    BY PrefixFacts, WordsNothing
  <2>2. Words(p(0)) \in Seq(S)
    <3> HIDE DEF p
    <3> QED BY <2>1
  <2>3. 0 \in 0 .. n
    BY <1>1
  <2> QED BY <2>2, <2>3
<1>3. ASSUME NEW k \in 0 .. n - 1, k \in K PROVE k + 1 \in K
  <2>1. k + 1 \in 0 .. n /\ k \in 0 .. n
    BY <1>1
  <2> DEFINE a == p(k)
             b == p(k + 1)
             e == r[k + 1]
  <2>2. e \in S /\ b = Append(a, e) /\ a \in Seq(S)
    BY <2>1, PrefixFacts
  <2>3. Words(a) \in Seq(S)
    BY <1>3
  <2> HIDE DEF a, b, e
  <2>4. Words(b) = Word(Words(a), e)
    BY <2>2, WordsAppend
  <2>5. Words(b) \in Seq(S)
    BY <2>2, <2>3, <2>4 DEF Word
  <2> QED BY <2>1, <2>5 DEF b
<1>4. \A k \in 0 .. n : k \in K
  <2> HIDE DEF K, n
  <2> QED BY <1>1, <1>2, <1>3, Upwards
<1>5. n \in K
  <2>1. n \in 0 .. n
    BY <1>1
  <2> HIDE DEF K
  <2> QED BY <1>4, <2>1
<1> QED BY <1>5, PrefixFacts

LEMMA WordsConcat ==
  ASSUME NEW S, NEW s \in Seq(S), NEW r \in Seq(S)
  PROVE  Words(s \o r) = Words(s) \o Words(r)
<1> DEFINE n == Len(r)
           p(k) == SubSeq(r, 1, k)
           K == {k \in 0 .. n : Words(s \o p(k)) = Words(s) \o Words(p(k))}
<1>1. n \in Nat
  OBVIOUS
<1>2. Words(s) \in Seq(S)
  BY WordsType
<1>3. 0 \in K
  <2>1. p(0) = <<>> /\ Words(<<>>) = <<>>
    BY PrefixFacts, WordsNothing
  <2>2. s \o <<>> = s /\ Words(s) \o <<>> = Words(s)
    BY <1>2, ConcatEmptySeq
  <2>3. Words(s \o p(0)) = Words(s) \o Words(p(0))
    <3> HIDE DEF p
    <3> QED BY <2>1, <2>2
  <2>4. 0 \in 0 .. n
    BY <1>1
  <2> QED BY <2>3, <2>4
<1>4. ASSUME NEW k \in 0 .. n - 1, k \in K PROVE k + 1 \in K
  <2>1. k + 1 \in 0 .. n /\ k \in 0 .. n
    BY <1>1
  <2> DEFINE a == p(k)
             b == p(k + 1)
             e == r[k + 1]
  <2>2. e \in S /\ b = Append(a, e) /\ a \in Seq(S)
    BY <2>1, PrefixFacts
  <2>3. Words(s \o a) = Words(s) \o Words(a)
    BY <1>4
  <2> HIDE DEF a, b, e
  <2>4. Words(b) = Word(Words(a), e) /\ Words(a) \in Seq(S)
    BY <2>2, WordsAppend, WordsType
  <2> DEFINE c == s \o a
  <2>5. s \o b = Append(c, e) /\ c \in Seq(S)
    BY <2>2, AppendConcat
  <2> HIDE DEF c
  <2>6. Words(s \o b) = Word(Words(c), e)
    BY <2>2, <2>5, WordsAppend
  <2>7. Words(s) \o Append(Words(a), e) = Append(Words(s) \o Words(a), e)
    BY <1>2, <2>2, <2>4, AppendConcat
  <2>8. Words(s \o b) = Words(s) \o Words(b)
    BY <2>3, <2>4, <2>6, <2>7 DEF Word, c
  <2> QED BY <2>1, <2>8 DEF b
<1>5. \A k \in 0 .. n : k \in K
  <2> HIDE DEF K, n
  <2> QED BY <1>1, <1>3, <1>4, Upwards
<1>6. n \in K
  <2>1. n \in 0 .. n
    BY <1>1
  <2> HIDE DEF K
  <2> QED BY <1>5, <2>1
<1> QED BY <1>6, PrefixFacts

LEMMA RunConcat ==
  ASSUME NEW far, NEW S, NEW s \in Seq(S), NEW r \in Seq(S)
  PROVE  Run(far, s \o r) = Run(Run(far, s), r)
<1> DEFINE n == Len(r)
           p(k) == SubSeq(r, 1, k)
           K == {k \in 0 .. n : Run(far, s \o p(k)) = Run(Run(far, s), p(k))}
<1>1. n \in Nat
  OBVIOUS
<1>3. 0 \in K
  <2>1. p(0) = <<>> /\ Run(Run(far, s), <<>>) = Run(far, s)
    BY PrefixFacts, RunNothing
  <2>2. s \o <<>> = s
    BY ConcatEmptySeq
  <2>3. Run(far, s \o p(0)) = Run(Run(far, s), p(0))
    <3> HIDE DEF p
    <3> QED BY <2>1, <2>2
  <2>4. 0 \in 0 .. n
    BY <1>1
  <2> QED BY <2>3, <2>4
<1>4. ASSUME NEW k \in 0 .. n - 1, k \in K PROVE k + 1 \in K
  <2>1. k + 1 \in 0 .. n /\ k \in 0 .. n
    BY <1>1
  <2> DEFINE a == p(k)
             b == p(k + 1)
             e == r[k + 1]
  <2>2. e \in S /\ b = Append(a, e) /\ a \in Seq(S)
    BY <2>1, PrefixFacts
  <2>3. Run(far, s \o a) = Run(Run(far, s), a)
    BY <1>4
  <2> HIDE DEF a, b, e
  <2>4. Run(Run(far, s), b) = Spell(Run(Run(far, s), a), e)
    BY <2>2, RunAppend
  <2> DEFINE c == s \o a
  <2>5. s \o b = Append(c, e) /\ c \in Seq(S)
    BY <2>2, AppendConcat
  <2> HIDE DEF c
  <2>6. Run(far, s \o b) = Spell(Run(far, c), e)
    BY <2>2, <2>5, RunAppend
  <2>7. Run(far, s \o b) = Run(Run(far, s), b)
    BY <2>3, <2>4, <2>6 DEF c
  <2> QED BY <2>1, <2>7 DEF b
<1>5. \A k \in 0 .. n : k \in K
  <2> HIDE DEF K, n
  <2> QED BY <1>1, <1>3, <1>4, Upwards
<1>6. n \in K
  <2>1. n \in 0 .. n
    BY <1>1
  <2> HIDE DEF K
  <2> QED BY <1>5, <2>1
<1> QED BY <1>6, PrefixFacts

LEMMA OneWord ==
  ASSUME NEW S, NEW e \in S
  PROVE  Words(<<e>>) = IF e.kind \in WordKinds THEN <<e>> ELSE <<>>
<1>1. <<>> \in Seq(S) /\ Append(<<>>, e) = <<e>>
  OBVIOUS
<1>2. Words(<<e>>) = Word(<<>>, e)
  BY <1>1, WordsAppend, WordsNothing
<1> QED BY <1>1, <1>2 DEF Word

LEMMA RunOne ==
  ASSUME NEW far, NEW e
  PROVE  Run(far, <<e>>) = Spell(far, e)
<1> DEFINE s == <<>>
           S == {e}
<1>1. s \in Seq(S) /\ Append(s, e) = <<e>> /\ e \in S
  OBVIOUS
<1>2. Run(far, s) = far
  BY RunNothing
<1> HIDE DEF s, S
<1>3. Run(far, Append(s, e)) = Spell(Run(far, s), e)
  BY <1>1, RunAppend
<1> QED BY <1>1, <1>2, <1>3

-----------------------------------------------------------------------------
(* Where a sequence of tokens occurs in another, it derives what it        *)
(* derives elsewhere.                                                      *)

TextOf(u) == Len(u) \in Nat /\ DOMAIN u = 1 .. Len(u)
Occurs(s, u, p) == /\ p \in Nat /\ Len(s) \in Nat /\ p + Len(s) <= Len(u)
                   /\ \A k \in 1 .. Len(s) : u[p + k] = s[k]

\* e derives v from the nonterminal nt of expressions, wherever it occurs.
Fits(nt, e, v) ==
  \A X, u, p : TextOf(u) /\ Derives(X, u) /\ Occurs(e, u, p) => In(X, nt, p + 1, p + Len(e), v)

LEMMA OccursPlaces ==
  ASSUME NEW u, TextOf(u), NEW s, NEW p, Occurs(s, u, p)
  PROVE  /\ p \in Nat /\ Len(s) \in Nat /\ Len(u) \in Nat
         /\ p + 1 \in 1 .. Len(u) + 1 /\ p + Len(s) \in 0 .. Len(u)
         /\ p + Len(s) + 1 \in 1 .. Len(u) + 1
         /\ p + Len(s) <= Len(u)
<1>1. Len(u) \in Nat /\ p \in Nat /\ Len(s) \in Nat /\ p + Len(s) <= Len(u)
  BY DEF TextOf, Occurs
<1> QED BY <1>1

LEMMA OccursIs ==
  ASSUME NEW u, TextOf(u), NEW s, NEW p, Occurs(s, u, p), NEW k \in 1 .. Len(s), NEW K
  PROVE  u[p + k] = s[k] /\ (Is(u, p + k, K) <=> s[k].kind \in K)
<1>1. p \in Nat /\ Len(s) \in Nat /\ Len(u) \in Nat /\ p + Len(s) <= Len(u)
  BY OccursPlaces
<1>2. k \in Nat
  BY <1>1
<1>3. p + k \in 1 .. Len(u)
  BY <1>1, <1>2
<1>4. p + k \in DOMAIN u /\ u[p + k] = s[k]
  BY <1>3 DEF TextOf, Occurs
<1> QED BY <1>4 DEF Is

LEMMA OccursOne ==
  ASSUME NEW u, TextOf(u), NEW x, NEW p, Occurs(<<x>>, u, p)
  PROVE  /\ u[p + 1] = x /\ p + 1 \in 1 .. Len(u)
         /\ \A K : Is(u, p + 1, K) <=> x.kind \in K
<1>1. Len(<<x>>) = 1 /\ <<x>>[1] = x /\ 1 \in 1 .. 1
  OBVIOUS
<1>2. \A K : u[p + 1] = x /\ (Is(u, p + 1, K) <=> x.kind \in K)
  BY <1>1, OccursIs
<1>3. p \in Nat /\ p + 1 <= Len(u) /\ Len(u) \in Nat
  BY <1>1, OccursPlaces
<1> QED BY <1>2, <1>3

Parts(s, r, u, p) ==
  /\ Occurs(s, u, p) /\ Occurs(r, u, p + Len(s))
  /\ p + Len(s \o r) = (p + Len(s)) + Len(r)

LEMMA OccursParts ==
  ASSUME NEW S, NEW s \in Seq(S), NEW r \in Seq(S), NEW u, TextOf(u), NEW p, Occurs(s \o r, u, p)
  PROVE  Parts(s, r, u, p)
<1> DEFINE c == s \o r
           a == Len(s)
           b == Len(r)
<1>1. /\ a \in Nat /\ b \in Nat /\ Len(c) = a + b
      /\ \A k \in 1 .. a : c[k] = s[k]
  OBVIOUS
<1>2. ASSUME NEW k \in 1 .. b PROVE c[a + k] = r[k]
  <2>1. a + k \in 1 .. a + b /\ ~(a + k <= a) /\ (a + k) - a = k
    BY <1>1
  <2>2. c[a + k] = IF a + k <= a THEN s[a + k] ELSE r[(a + k) - a]
    BY <2>1, ConcatProperties
  <2> QED BY <2>1, <2>2
<1> HIDE DEF a, b, c
<1>3. p \in Nat /\ Len(u) \in Nat /\ p + Len(c) <= Len(u) /\ \A k \in 1 .. Len(c) : u[p + k] = c[k]
  BY DEF TextOf, Occurs, c
<1>4. p + a <= Len(u) /\ (p + a) + b <= Len(u) /\ p + a \in Nat /\ p + Len(c) = (p + a) + b
  BY <1>1, <1>3
<1>5. ASSUME NEW k \in 1 .. a PROVE u[p + k] = s[k]
  <2>1. k \in 1 .. Len(c)
    BY <1>1
  <2> QED BY <1>1, <1>3, <2>1
<1>6. ASSUME NEW k \in 1 .. b PROVE u[(p + a) + k] = r[k]
  <2>1. a + k \in 1 .. Len(c) /\ (p + a) + k = p + (a + k)
    BY <1>1, <1>3
  <2>2. u[p + (a + k)] = c[a + k]
    BY <1>3, <2>1
  <2> QED BY <1>2, <2>1, <2>2
<1>7. Occurs(s, u, p)
  BY <1>1, <1>3, <1>4, <1>5 DEF Occurs, a
<1>8. Occurs(r, u, p + a)
  BY <1>1, <1>4, <1>6 DEF Occurs, b
<1> QED BY <1>4, <1>7, <1>8 DEF a, b, c, Parts

LEMMA UpFrom ==
  ASSUME NEW X, NEW t, Derives(X, t), Len(t) \in Nat, NEW i \in 1 .. Len(t) + 1, NEW j \in 0 .. Len(t), NEW v
  PROVE  /\ In(X, "PrimaryExp", i, j, v) => \A nt \in ExpNonTerminals : In(X, nt, i, j, v)
         /\ \A nt \in DOMAIN BinaryLevel : In(X, nt, i, j, v) => In(X, "Exp", i, j, v)
         /\ In(X, "UnaryExp", i, j, v) => In(X, "Exp", i, j, v)
<1>1. In(X, "PrimaryExp", i, j, v) => In(X, "UnaryExp", i, j, v)
  BY UnaryRule
<1>2. \A nt \in DOMAIN BinaryLevel : In(X, BinaryLevel[nt].below, i, j, v) => In(X, nt, i, j, v)
  BY LevelRule
<1>3. In(X, "LOrExp", i, j, v) => In(X, "Exp", i, j, v)
  BY ExpRule
<1>4. DOMAIN BinaryLevel = {"LOrExp", "LAndExp", "EqExp", "RelExp", "AddExp", "MulExp"}
  BY DEF BinaryLevel
<1>5. /\ BinaryLevel["LOrExp"].below = "LAndExp" /\ BinaryLevel["LAndExp"].below = "EqExp"
      /\ BinaryLevel["EqExp"].below = "RelExp" /\ BinaryLevel["RelExp"].below = "AddExp"
      /\ BinaryLevel["AddExp"].below = "MulExp" /\ BinaryLevel["MulExp"].below = "UnaryExp"
  BY DEF BinaryLevel
<1> DEFINE P(nt) == In(X, nt, i, j, v)
<1>6. /\ P("UnaryExp") => P("MulExp")
      /\ P("MulExp") => P("AddExp")
      /\ P("AddExp") => P("RelExp")
      /\ P("RelExp") => P("EqExp")
      /\ P("EqExp") => P("LAndExp")
      /\ P("LAndExp") => P("LOrExp")
  BY <1>2, <1>4, <1>5
<1>7. P("LOrExp") => P("Exp")
  BY <1>3
<1>8. P("PrimaryExp") => P("UnaryExp")
  BY <1>1
<1> HIDE DEF P
<1>9. P("UnaryExp") => \A nt \in {"Exp"} \cup DOMAIN BinaryLevel : P(nt)
  BY <1>4, <1>6, <1>7
<1>10. \A nt \in DOMAIN BinaryLevel : P(nt) => P("Exp")
  <2> SUFFICES ASSUME NEW nt \in DOMAIN BinaryLevel PROVE P(nt) => P("Exp")
    OBVIOUS
  <2>1. nt = "LOrExp" \/ nt = "LAndExp" \/ nt = "EqExp" \/ nt = "RelExp" \/ nt = "AddExp" \/ nt = "MulExp"
    BY <1>4
  <2> QED BY <1>6, <1>7, <2>1, Zenon
<1>11. P("PrimaryExp") => \A nt \in ExpNonTerminals : P(nt)
  BY <1>8, <1>9 DEF ExpNonTerminals
<1> QED BY <1>9, <1>10, <1>11 DEF P

LEMMA FitsUp ==
  ASSUME NEW e, NEW v
  PROVE  /\ Fits("PrimaryExp", e, v) => \A nt \in ExpNonTerminals : Fits(nt, e, v)
         /\ \A nt \in DOMAIN BinaryLevel : Fits(nt, e, v) => Fits("Exp", e, v)
         /\ Fits("UnaryExp", e, v) => Fits("Exp", e, v)
<1>1. ASSUME NEW X, NEW u, NEW p, TextOf(u), Derives(X, u), Occurs(e, u, p)
      PROVE  p + 1 \in 1 .. Len(u) + 1 /\ p + Len(e) \in 0 .. Len(u) /\ Len(u) \in Nat
  BY <1>1, OccursPlaces
<1>2. ASSUME NEW X, NEW u, NEW p, TextOf(u), Derives(X, u), Occurs(e, u, p)
      PROVE  /\ In(X, "PrimaryExp", p + 1, p + Len(e), v) => \A nt \in ExpNonTerminals : In(X, nt, p + 1, p + Len(e), v)
             /\ \A nt \in DOMAIN BinaryLevel : In(X, nt, p + 1, p + Len(e), v) => In(X, "Exp", p + 1, p + Len(e), v)
             /\ In(X, "UnaryExp", p + 1, p + Len(e), v) => In(X, "Exp", p + 1, p + Len(e), v)
  BY <1>1, <1>2, UpFrom
<1> QED BY <1>2 DEF Fits

LEMMA FitsName ==
  ASSUME NEW x, x.kind \in {"ident", "number"}
  PROVE  Fits("PrimaryExp", <<x>>, Mark(IF x.kind = "ident" THEN "LVal" ELSE "Number", x))
<1> SUFFICES ASSUME NEW X, NEW u, NEW p, TextOf(u), Derives(X, u), Occurs(<<x>>, u, p)
             PROVE  In(X, "PrimaryExp", p + 1, p + 1, Mark(IF x.kind = "ident" THEN "LVal" ELSE "Number", x))
  BY DEF Fits
<1>1. u[p + 1] = x /\ p + 1 \in 1 .. Len(u) /\ \A K : Is(u, p + 1, K) <=> x.kind \in K
  BY OccursOne
<1>2. p + 1 \in 1 .. Len(u) + 1 /\ p + 1 \in 0 .. Len(u) /\ Len(u) \in Nat
  BY <1>1 DEF TextOf
<1>3. CASE x.kind = "ident"
  <2>1. Is(u, p + 1, {"ident"})
    BY <1>1, <1>3
  <2> QED BY <1>1, <1>2, <1>3, <2>1, PrimaryRule
<1>4. CASE x.kind = "number"
  <2>1. Is(u, p + 1, {"number"})
    BY <1>1, <1>4
  <2> QED BY <1>1, <1>2, <1>4, <2>1, PrimaryRule
<1> QED BY <1>3, <1>4

LEMMA TerminalKind == \A kind : Terminal(kind).kind = kind
  BY DEF Terminal, Token

LEMMA WriteOne ==
  ASSUME NEW kind PROVE Write(<<kind>>) = <<Terminal(kind)>>
  BY DEF Write

LEMMA FitsParens ==
  ASSUME NEW S, NEW e \in Seq(S), Terminal("(") \in S, Terminal(")") \in S, NEW v, Fits("Exp", e, v)
  PROVE  Fits("PrimaryExp", Parenthesised(e), v) /\ Parenthesised(e) \in Seq(S)
<1> DEFINE l == <<Terminal("(")>>
           r == <<Terminal(")")>>
           c == l \o e
<1>1. Parenthesised(e) = c \o r
  <2>1. Write(<<"(">>) = l /\ Write(<<")">>) = r
    BY WriteOne
  <2> HIDE DEF l, r
  <2> QED BY <2>1 DEF Parenthesised
<1>2. l \in Seq(S) /\ r \in Seq(S) /\ Len(l) = 1 /\ Len(r) = 1
  OBVIOUS
<1>3. c \in Seq(S) /\ c \o r \in Seq(S)
  <2> HIDE DEF l, r
  <2> QED BY <1>2, ConcatProperties
<1>4. ASSUME NEW X, NEW u, NEW p, TextOf(u), Derives(X, u), Occurs(c \o r, u, p)
      PROVE  In(X, "PrimaryExp", p + 1, p + Len(c \o r), v)
  <2> HIDE DEF c, l, r
  <2>1. Occurs(c, u, p) /\ Occurs(r, u, p + Len(c)) /\ p + Len(c \o r) = (p + Len(c)) + 1
    <3>1. Occurs(c, u, p) /\ Occurs(r, u, p + Len(c)) /\ p + Len(c \o r) = (p + Len(c)) + Len(r)
      <4>1. Parts(c, r, u, p)
        BY <1>2, <1>3, <1>4, OccursParts
      <4> QED BY <4>1 DEF Parts
    <3> QED BY <1>2, <3>1
  <2>2. Occurs(l, u, p) /\ Occurs(e, u, p + 1) /\ p + Len(c) = (p + 1) + Len(e)
    <3>1. Occurs(l \o e, u, p)
      BY <2>1 DEF c
    <3>2. Occurs(l, u, p) /\ Occurs(e, u, p + Len(l)) /\ p + Len(l \o e) = (p + Len(l)) + Len(e)
      <4>1. Parts(l, e, u, p)
        BY <1>2, <1>4, <3>1, OccursParts
      <4> QED BY <4>1 DEF Parts
    <3> QED BY <1>2, <3>2 DEF c
  <2>3. In(X, "Exp", (p + 1) + 1, (p + 1) + Len(e), v)
    BY <1>4, <2>2 DEF Fits
  <2>4. Is(u, p + 1, {"("})
    BY <1>4, <2>2, OccursOne, TerminalKind DEF l
  <2>5. Is(u, (p + Len(c)) + 1, {")"})
    BY <1>4, <2>1, OccursOne, TerminalKind DEF r
  <2>6. p \in Nat /\ Len(e) \in Nat /\ p + 1 \in 1 .. Len(u) + 1 /\ Len(u) \in Nat
    BY <1>4, <2>2, OccursPlaces
  <2> DEFINE j == (p + Len(c)) + 1
  <2>7. j \in 0 .. Len(u) /\ j = p + Len(e) + 2 /\ j - 1 = (p + 1) + Len(e)
    <3>1. j = p + Len(e) + 2
      BY <2>2, <2>6
    <3>2. p + Len(c \o r) \in 0 .. Len(u)
      BY <1>4, OccursPlaces
    <3> QED BY <2>1, <2>6, <3>1, <3>2
  <2>8. p + 1 < j
    BY <2>6, <2>7
  <2> HIDE DEF j
  <2>9. Is(u, j, {")"})
    BY <2>5 DEF j
  <2>10. In(X, "PrimaryExp", p + 1, j, v)
    BY <1>4, <2>3, <2>4, <2>6, <2>7, <2>8, <2>9, PrimaryRule
  <2> QED BY <2>1, <2>10 DEF j
<1> QED BY <1>1, <1>3, <1>4 DEF Fits

\* An expression is not empty.
LEMMA FitsSome ==
  ASSUME NEW nt \in ExpNonTerminals, NEW e, NEW v, Fits(nt, e, v), NEW X, NEW u, NEW p,
         TextOf(u), Derives(X, u), Occurs(e, u, p)
  PROVE  In(X, nt, p + 1, p + Len(e), v) /\ Len(e) \in Nat \ {0}
<1>1. In(X, nt, p + 1, p + Len(e), v)
  BY DEF Fits
<1>2. /\ p + 1 \in 1 .. Len(u) + 1 /\ p + Len(e) \in 0 .. Len(u) /\ Len(u) \in Nat
      /\ p \in Nat /\ Len(e) \in Nat
  BY OccursPlaces
<1>3. Spells(u, p + 1, p + Len(e), ExpKinds)
  BY <1>1, <1>2, ExpTokens
<1>4. p + 1 <= p + Len(e)
  BY <1>3 DEF Spells
<1> QED BY <1>1, <1>2, <1>4

LEMMA FitsUnary ==
  ASSUME NEW S, NEW e \in Seq(S), NEW sign \in UnarySigns, Terminal(sign) \in S, NEW x, Fits("UnaryExp", e, x)
  PROVE  /\ Fits("UnaryExp", <<Terminal(sign)>> \o e, x \o Operation("UnaryExp", UnaryOp(sign)))
         /\ <<Terminal(sign)>> \o e \in Seq(S)
<1> DEFINE l == <<Terminal(sign)>>
           c == l \o e
           v == x \o Operation("UnaryExp", UnaryOp(sign))
<1>1. l \in Seq(S) /\ Len(l) = 1
  OBVIOUS
<1>2. c \in Seq(S)
  <2> HIDE DEF l
  <2> QED BY <1>1, ConcatProperties
<1>3. ASSUME NEW X, NEW u, NEW p, TextOf(u), Derives(X, u), Occurs(c, u, p)
      PROVE  In(X, "UnaryExp", p + 1, p + Len(c), v)
  <2> HIDE DEF l, v
  <2>1. Occurs(l, u, p) /\ Occurs(e, u, p + 1) /\ p + Len(c) = (p + 1) + Len(e)
    <3>2. Occurs(l, u, p) /\ Occurs(e, u, p + Len(l)) /\ p + Len(l \o e) = (p + Len(l)) + Len(e)
      <4>1. Parts(l, e, u, p)
        BY <1>1, <1>3, OccursParts
      <4> QED BY <4>1 DEF Parts
    <3> QED BY <1>1, <3>2
  <2> HIDE DEF c
  <2>2. In(X, "UnaryExp", (p + 1) + 1, (p + 1) + Len(e), x) /\ Len(e) \in Nat \ {0}
    BY <1>3, <2>1, FitsSome, RankFacts
  <2>3. u[p + 1] = Terminal(sign) /\ Is(u, p + 1, UnarySigns)
    BY <1>3, <2>1, OccursOne, TerminalKind DEF l
  <2>4. p + 1 \in 1 .. Len(u) + 1 /\ p + Len(c) \in 0 .. Len(u) /\ Len(u) \in Nat /\ p \in Nat
    BY <1>3, OccursPlaces
  <2> DEFINE j == p + Len(c)
  <2>5. p + 1 < j /\ j = (p + 1) + Len(e) /\ j \in 0 .. Len(u)
    BY <2>1, <2>2, <2>4
  <2>6. v = x \o Operation("UnaryExp", UnaryOp(u[p + 1].kind))
    BY <2>3, TerminalKind DEF v
  <2> HIDE DEF j
  <2>7. In(X, "UnaryExp", p + 1, j, v)
    BY <1>3, <2>2, <2>3, <2>4, <2>5, <2>6, UnaryRule DEF Signed
  <2> QED BY <2>7 DEF j
<1> QED BY <1>2, <1>3 DEF Fits

LEMMA FitsBinary ==
  ASSUME NEW S, NEW a \in Seq(S), NEW b \in Seq(S), NEW nt \in DOMAIN BinaryLevel,
         NEW sign \in BinaryLevel[nt].ops, Terminal(sign) \in S,
         NEW x, NEW y, Fits(nt, a, x), Fits(BinaryLevel[nt].below, b, y)
  PROVE  /\ Fits(nt, a \o <<Terminal(sign)>> \o b, (x \o y) \o Operation(nt, BinaryOp(sign)))
         /\ a \o <<Terminal(sign)>> \o b \in Seq(S)
<1> DEFINE m == <<Terminal(sign)>>
           low == BinaryLevel[nt].below
           l == a \o m
           c == l \o b
           v == (x \o y) \o Operation(nt, BinaryOp(sign))
<1>1. m \in Seq(S) /\ Len(m) = 1
  OBVIOUS
<1>2. l \in Seq(S) /\ c \in Seq(S)
  <2> HIDE DEF m
  <2> QED BY <1>1, ConcatProperties
<1>3. ASSUME NEW X, NEW u, NEW p, TextOf(u), Derives(X, u), Occurs(c, u, p)
      PROVE  In(X, nt, p + 1, p + Len(c), v)
  <2>0. nt \in ExpNonTerminals /\ low \in ExpNonTerminals
    BY LevelFacts, RankFacts
  <2> HIDE DEF m, v, low, l
  <2>1. Occurs(l, u, p) /\ Occurs(b, u, p + Len(l)) /\ p + Len(c) = (p + Len(l)) + Len(b)
    <3>1. Parts(l, b, u, p)
      BY <1>2, <1>3, OccursParts
    <3> QED BY <3>1 DEF Parts
  <2> HIDE DEF c
  <2>2. Occurs(a, u, p) /\ Occurs(m, u, p + Len(a)) /\ p + Len(l) = (p + Len(a)) + 1
    <3>1. Occurs(a \o m, u, p)
      BY <2>1 DEF l
    <3>2. Occurs(a, u, p) /\ Occurs(m, u, p + Len(a)) /\ p + Len(a \o m) = (p + Len(a)) + Len(m)
      <4>1. Parts(a, m, u, p)
        BY <1>1, <1>3, <3>1, OccursParts
      <4> QED BY <4>1 DEF Parts
    <3> QED BY <1>1, <3>2 DEF l
  <2>3. In(X, nt, p + 1, p + Len(a), x) /\ Len(a) \in Nat \ {0}
    BY <1>3, <2>0, <2>2, FitsSome
  <2>4. In(X, low, (p + Len(l)) + 1, (p + Len(l)) + Len(b), y) /\ Len(b) \in Nat \ {0}
    BY <1>3, <2>0, <2>1, FitsSome DEF low
  <2> DEFINE k == (p + Len(a)) + 1
             j == p + Len(c)
  <2>5. u[k] = Terminal(sign) /\ Is(u, k, BinaryLevel[nt].ops)
    BY <1>3, <2>2, OccursOne, TerminalKind DEF m
  <2>6. p + 1 \in 1 .. Len(u) + 1 /\ j \in 0 .. Len(u) /\ Len(u) \in Nat /\ p \in Nat
    BY <1>3, OccursPlaces
  <2>7. k \in (p + 1) + 1 .. j - 1 /\ k - 1 = p + Len(a) /\ k + 1 = (p + Len(l)) + 1 /\ j = (p + Len(l)) + Len(b)
    BY <2>1, <2>2, <2>3, <2>4, <2>6
  <2> HIDE DEF k, j
  <2>8. v = (x \o y) \o Operation(nt, BinaryOp(u[k].kind))
    BY <2>5, TerminalKind DEF v
  <2>9. Binary(X, u, nt, p + 1, j, v)
    BY <2>3, <2>4, <2>5, <2>7, <2>8 DEF Binary, low
  <2>10. In(X, nt, p + 1, j, v)
    BY <1>3, <2>6, <2>9, LevelRule
  <2> QED BY <2>10 DEF j
<1> QED BY <1>2, <1>3 DEF Fits

-----------------------------------------------------------------------------
(* The spelling of an expression.                                          *)

\* The tokens of a text: a terminal is spelt in one way, and all are there.
Alphabet(S) ==
  /\ \A kind \in Terminals : Terminal(kind) \in S
  /\ \A x \in S : x.kind \in Terminals => x = Terminal(x.kind)

\* The visits of the handlers.
Handlers ==
  {"BeginFunc", "EndFunc", "BeginBlock", "EndBlock", "BeginConstDef", "EndConstDef", "BeginVarDef", "EndVarDef",
   "VarDefOnly", "BeginAssign", "EndAssign", "BeginReturn", "EndReturn", "BeginRaw", "EndRawExp",
   "LVal", "Number", "UnaryExp"} \cup DOMAIN BinaryLevel
Operators ==
  {"none", "Or", "And", "Eq", "Ne", "Lt", "Le", "Gt", "Ge", "Add", "Sub", "Mul", "Div", "Mod",
   "Plus", "Minus", "Not"}
VisitsOver(S) == [handler : Handlers, op : Operators, token : S \cup {NoToken}]

LEMMA SignsWritten ==
  /\ \A sign \in BinarySigns : /\ sign \in Terminals /\ sign \in WordKinds
                               /\ Sign(BinaryOp(sign)) = sign /\ BinaryOp(sign) \in Operators
  /\ \A sign \in UnarySigns : /\ sign \in Terminals /\ sign \in WordKinds
                              /\ Sign(UnaryOp(sign)) = sign /\ UnaryOp(sign) \in Operators
<1>1. ASSUME NEW sign \in BinarySigns
      PROVE  sign \in {"||", "&&", "==", "!=", "<", "<=", ">", ">=", "+", "-", "*", "/", "%"}
  <2>1. PICK l \in DOMAIN BinaryLevel : sign \in BinaryLevel[l].ops
    BY DEF BinarySigns
  <2>2. l \in {"LOrExp", "LAndExp", "EqExp", "RelExp", "AddExp", "MulExp"}
    BY DEF BinaryLevel
  <2>3. CASE l \in {"LOrExp", "LAndExp", "EqExp"}
    BY <2>1, <2>3 DEF BinaryLevel
  <2>4. CASE l = "RelExp"
    BY <2>1, <2>4 DEF BinaryLevel
  <2>5. CASE l \in {"AddExp", "MulExp"}
    BY <2>1, <2>5 DEF BinaryLevel
  <2> QED BY <2>2, <2>3, <2>4, <2>5
<1>2. ASSUME NEW sign \in {"||", "&&", "==", "!=", "<", "<=", ">", ">=", "+", "-", "*", "/", "%"}
      PROVE  Sign(BinaryOp(sign)) = sign /\ BinaryOp(sign) \in Operators
  <2>1. BinaryOp("||") = "Or" /\ BinaryOp("&&") = "And" /\ BinaryOp("==") = "Eq" /\ BinaryOp("!=") = "Ne"
    BY DEF BinaryOp
  <2>2. BinaryOp("<") = "Lt" /\ BinaryOp("<=") = "Le" /\ BinaryOp(">") = "Gt" /\ BinaryOp(">=") = "Ge"
    BY DEF BinaryOp
  <2>3. BinaryOp("+") = "Add" /\ BinaryOp("-") = "Sub" /\ BinaryOp("*") = "Mul" /\ BinaryOp("/") = "Div" /\ BinaryOp("%") = "Mod"
    BY DEF BinaryOp
  <2>4. Sign("Or") = "||" /\ Sign("And") = "&&" /\ Sign("Eq") = "==" /\ Sign("Ne") = "!="
    BY DEF Sign
  <2>5. Sign("Lt") = "<" /\ Sign("Le") = "<=" /\ Sign("Gt") = ">" /\ Sign("Ge") = ">="
    BY DEF Sign
  <2>6. Sign("Add") = "+" /\ Sign("Sub") = "-" /\ Sign("Mul") = "*" /\ Sign("Div") = "/" /\ Sign("Mod") = "%"
    BY DEF Sign
  <2> QED BY <2>1, <2>2, <2>3, <2>4, <2>5, <2>6 DEF Operators
<1>3. ASSUME NEW sign \in {"||", "&&", "==", "!=", "<", "<=", ">", ">=", "+", "-", "*", "/", "%"}
      PROVE  sign \in Terminals
  BY DEF Terminals
<1>4. ASSUME NEW sign \in UnarySigns
      PROVE  sign \in Terminals /\ Sign(UnaryOp(sign)) = sign /\ UnaryOp(sign) \in Operators
  <2>1. UnaryOp("+") = "Plus" /\ UnaryOp("-") = "Minus" /\ UnaryOp("!") = "Not"
    BY DEF UnaryOp
  <2>2. Sign("Plus") = "+" /\ Sign("Minus") = "-" /\ Sign("Not") = "!"
    BY DEF Sign
  <2>3. sign \in {"+", "-", "!"} /\ {"+", "-", "!"} \subseteq Terminals
    BY DEF UnarySigns, Terminals
  <2> QED BY <2>1, <2>2, <2>3 DEF Operators
<1>5. BinarySigns \subseteq WordKinds /\ UnarySigns \subseteq WordKinds
  BY DEF WordKinds
<1> QED BY <1>1, <1>2, <1>3, <1>4, <1>5

LEMMA NoWords ==
  /\ \A kind \in {"(", ")", "{", "}", ";", ",", "=", "const", "int", "void"} : kind \notin WordKinds
  /\ {"ident", "number", "return"} \subseteq WordKinds
<1>1. WordKinds \subseteq ExpKinds \cup {"return"} /\ {"ident", "number", "return"} \subseteq WordKinds
  BY DEF WordKinds, ExpKinds
<1>2. \A kind \in {"{", "}", ";", ",", "=", "const", "int", "void"} : kind \notin ExpKinds /\ kind # "return"
  BY ExpKindsAre DEF OtherKinds
<1>3. "(" \notin WordKinds /\ ")" \notin WordKinds
  <2>1. \A s \in BinarySigns : s \notin {"(", ")", "ident", "number"}
    BY SignFacts
  <2>2. \A s \in UnarySigns : s \notin {"(", ")"}
    BY DEF UnarySigns
  <2> QED BY <2>1, <2>2 DEF WordKinds
<1> QED BY <1>1, <1>2, <1>3

LEMMA WordsAround ==
  ASSUME NEW S, NEW a \in Seq(S), NEW b \in Seq(S), NEW x \in S
  PROVE  Words(a \o <<x>> \o b) = (Words(a) \o Words(<<x>>)) \o Words(b)
<1> DEFINE m == <<x>>
           c == a \o m
<1>1. m \in Seq(S)
  OBVIOUS
<1> HIDE DEF m
<1>2. c \in Seq(S) /\ Words(c) = Words(a) \o Words(m)
  BY <1>1, WordsConcat, ConcatProperties
<1> HIDE DEF c
<1>3. Words(c \o b) = Words(c) \o Words(b)
  BY <1>2, WordsConcat
<1> QED BY <1>2, <1>3 DEF c, m

LEMMA WordsBefore ==
  ASSUME NEW S, NEW b \in Seq(S), NEW x \in S
  PROVE  Words(<<x>> \o b) = Words(<<x>>) \o Words(b)
<1> DEFINE m == <<x>>
<1>1. m \in Seq(S)
  OBVIOUS
<1> HIDE DEF m
<1>2. Words(m \o b) = Words(m) \o Words(b)
  BY <1>1, WordsConcat
<1> QED BY <1>2 DEF m

LEMMA WordsBehind ==
  ASSUME NEW S, NEW a \in Seq(S), NEW x \in S
  PROVE  Words(a \o <<x>>) = Words(a) \o Words(<<x>>)
<1> DEFINE m == <<x>>
<1>1. m \in Seq(S)
  OBVIOUS
<1> HIDE DEF m
<1>2. Words(a \o m) = Words(a) \o Words(m)
  BY <1>1, WordsConcat
<1> QED BY <1>2 DEF m

\* A token that is no word makes no difference.
LEMMA LayoutBefore ==
  ASSUME NEW S, NEW b \in Seq(S), NEW x \in S, x.kind \notin WordKinds
  PROVE  Words(<<x>> \o b) = Words(b)
<1>1. Words(<<x>>) = <<>> /\ Words(b) \in Seq(S)
  BY OneWord, WordsType
<1>2. <<>> \o Words(b) = Words(b)
  BY <1>1, ConcatEmptySeq
<1> QED BY <1>1, <1>2, WordsBefore

LEMMA LayoutBehind ==
  ASSUME NEW S, NEW a \in Seq(S), NEW x \in S, x.kind \notin WordKinds
  PROVE  Words(a \o <<x>>) = Words(a)
<1>1. Words(<<x>>) = <<>> /\ Words(a) \in Seq(S)
  BY OneWord, WordsType
<1>2. Words(a) \o <<>> = Words(a)
  BY <1>1, ConcatEmptySeq
<1> QED BY <1>1, <1>2, WordsBehind

LEMMA ParenthesesNoWords ==
  ASSUME NEW S, Terminal("(") \in S, Terminal(")") \in S, NEW e \in Seq(S)
  PROVE  Words(Parenthesised(e)) = Words(e)
<1> DEFINE l == Terminal("(")
           r == Terminal(")")
           c == <<l>> \o e
<1>1. Parenthesised(e) = c \o <<r>>
  <2>1. Write(<<"(">>) = <<l>> /\ Write(<<")">>) = <<r>>
    BY WriteOne
  <2> HIDE DEF l, r
  <2> QED BY <2>1 DEF Parenthesised
<1>2. l \in S /\ r \in S /\ l.kind \notin WordKinds /\ r.kind \notin WordKinds
  BY TerminalKind, NoWords
<1> HIDE DEF l, r
<1>3. c \in Seq(S) /\ Words(c) = Words(e)
  <2>1. <<l>> \in Seq(S)
    BY <1>2
  <2>2. c \in Seq(S)
    BY <2>1, ConcatProperties
  <2> QED BY <1>2, <2>2, LayoutBefore
<1> HIDE DEF c
<1>4. Words(c \o <<r>>) = Words(c)
  BY <1>2, <1>3, LayoutBehind
<1> QED BY <1>1, <1>3, <1>4

\* The words of a span and of its parts.
LEMMA SpanWords ==
  ASSUME NEW S, NEW t \in Seq(S), NEW i \in 1 .. Len(t) + 1, NEW j \in 0 .. Len(t), NEW k \in i .. j
  PROVE  Words(SubSeq(t, i, j)) = (Words(SubSeq(t, i, k - 1)) \o Words(<<t[k]>>)) \o Words(SubSeq(t, k + 1, j))
<1> DEFINE a == SubSeq(t, i, k - 1)
           b == SubSeq(t, k + 1, j)
           m == SubSeq(t, k, j)
           x == t[k]
<1>1. Len(t) \in Nat /\ i \in Int /\ j \in Int
  OBVIOUS
<1>2. k \in 1 .. Len(t) /\ j \in k .. Len(t) /\ k - 1 \in i - 1 .. Len(t) /\ j \in k - 1 .. Len(t) /\ k - 1 + 1 = k
  BY <1>1
<1>3. x \in S
  BY <1>2
<1>4. a \in Seq(S) /\ b \in Seq(S)
  BY <1>1, <1>2, SubSeqProperties
<1>5. SubSeq(t, i, j) = a \o m
  <2>1. SubSeq(t, i, k - 1) \o SubSeq(t, k - 1 + 1, j) = SubSeq(t, i, j)
    BY <1>2, ConcatAdjacentSubSeq
  <2> QED BY <1>2, <2>1
<1>6. m = <<x>> \o b
  BY <1>2, SubSeqRecursiveFirst
<1> HIDE DEF a, b, m, x
<1>7. (a \o <<x>>) \o b = a \o (<<x>> \o b)
  <2> DEFINE y == <<x>>
  <2>1. y \in Seq(S)
    BY <1>3
  <2> HIDE DEF y
  <2>2. (a \o y) \o b = a \o (y \o b)
    BY <1>4, <2>1, ConcatAssociative
  <2> QED BY <2>2 DEF y
<1>8. Words((a \o <<x>>) \o b) = (Words(a) \o Words(<<x>>)) \o Words(b)
  BY <1>3, <1>4, WordsAround
<1>9. Words(SubSeq(t, i, j)) = (Words(a) \o Words(<<x>>)) \o Words(b)
  BY <1>5, <1>6, <1>7, <1>8
<1> QED BY <1>9 DEF a, b, x

LEMMA SpanFirst ==
  ASSUME NEW S, NEW t \in Seq(S), NEW i \in 1 .. Len(t) + 1, NEW j \in 0 .. Len(t), i <= j
  PROVE  Words(SubSeq(t, i, j)) = Words(<<t[i]>>) \o Words(SubSeq(t, i + 1, j))
<1> DEFINE b == SubSeq(t, i + 1, j)
           x == t[i]
<1>1. Len(t) \in Nat /\ i \in Int /\ j \in Int
  OBVIOUS
<1>2. i \in 1 .. Len(t) /\ j \in i .. Len(t)
  BY <1>1
<1>3. x \in S /\ b \in Seq(S)
  BY <1>1, <1>2, SubSeqProperties
<1>4. SubSeq(t, i, j) = <<x>> \o b
  BY <1>2, SubSeqRecursiveFirst
<1> HIDE DEF b, x
<1>5. Words(SubSeq(t, i, j)) = Words(<<x>>) \o Words(b)
  BY <1>3, <1>4, WordsBefore
<1> QED BY <1>5 DEF b, x

LEMMA SpanLast ==
  ASSUME NEW S, NEW t \in Seq(S), NEW i \in 1 .. Len(t) + 1, NEW j \in 0 .. Len(t), i <= j
  PROVE  Words(SubSeq(t, i, j)) = Words(SubSeq(t, i, j - 1)) \o Words(<<t[j]>>)
<1> DEFINE a == SubSeq(t, i, j - 1)
           x == t[j]
<1>1. Len(t) \in Nat /\ i \in Int /\ j \in Int
  OBVIOUS
<1>2. i \in 1 .. Len(t) /\ j \in i .. Len(t)
  BY <1>1
<1>3. x \in S /\ a \in Seq(S)
  BY <1>1, <1>2, SubSeqProperties
<1>4. SubSeq(t, i, j) = a \o <<x>>
  BY <1>2, SubSeqRecursiveSecond
<1> HIDE DEF a, x
<1>5. Words(SubSeq(t, i, j)) = Words(a) \o Words(<<x>>)
  BY <1>3, <1>4, WordsBehind
<1> QED BY <1>5 DEF a, x

\* What is written so far: the tokens T and the operands E.
Far(T, E) == [tokens |-> T, exps |-> E]
Pushes(S, v, e) == \A T \in Seq(S), E \in Seq(Seq(S)) : Run(Far(T, E), v) = Far(T, Append(E, e))

\* The visits v of an expression whose words are s can be written.
Written(S, s, v) ==
  /\ v \in Seq(VisitsOver(S))
  /\ \E e \in Seq(S) : Pushes(S, v, e) /\ Words(e) = s /\ Fits("PrimaryExp", e, v)

LEMMA PushFacts ==
  ASSUME NEW S, NEW E \in Seq(S), NEW a \in S
  PROVE  /\ Append(E, a) \in Seq(S) /\ Len(Append(E, a)) = Len(E) + 1
         /\ Append(E, a)[Len(E) + 1] = a
         /\ \A k \in 1 .. Len(E) : Append(E, a)[k] = E[k]
         /\ SubSeq(Append(E, a), 1, Len(E)) = E
  OBVIOUS

LEMMA FarWith ==
  ASSUME NEW T, NEW E, NEW F PROVE [Far(T, E) EXCEPT !.exps = F] = Far(T, F)
  BY DEF Far

LEMMA SpellName ==
  ASSUME NEW S, NEW T, NEW E \in Seq(S), NEW x, NEW handler \in {"LVal", "Number"}
  PROVE  Spell(Far(T, E), Visit(handler, "none", x)) = Far(T, Append(E, Parenthesised(<<x>>)))
<1> DEFINE p == Parenthesised(<<x>>)
           far == Far(T, E)
<1>1. SubSeq(E, 1, Len(E) - 0) = E
  OBVIOUS
<1>2. far.exps = E /\ far.tokens = T
  BY DEF Far
<1>3. Spell(far, Visit(handler, "none", x)) = [far EXCEPT !.exps = Append(SubSeq(far.exps, 1, Len(far.exps) - 0), p)]
  BY DEF Spell, Visit
<1> DEFINE F == Append(SubSeq(far.exps, 1, Len(far.exps) - 0), p)
<1>4. F = Append(E, p)
  BY <1>1, <1>2
<1> HIDE DEF F
<1>5. [far EXCEPT !.exps = F] = Far(T, F)
  BY FarWith
<1> QED BY <1>3, <1>4, <1>5 DEF F

LEMMA SpellUnary ==
  ASSUME NEW S, NEW T, NEW E \in Seq(S), NEW a \in S, NEW op
  PROVE  Spell(Far(T, Append(E, a)), Visit("UnaryExp", op, NoToken))
           = Far(T, Append(E, Parenthesised(Write(<<Sign(op)>>) \o a)))
<1> DEFINE p == Parenthesised(Write(<<Sign(op)>>) \o a)
           F == Append(E, a)
           n == Len(E)
           far == Far(T, F)
<1>1. F \in Seq(S) /\ Len(F) = n + 1 /\ F[n + 1] = a /\ SubSeq(F, 1, n) = E /\ n \in Nat
  BY PushFacts
<1> HIDE DEF F, n
<1>2. far.exps = F /\ far.tokens = T
  BY DEF Far
<1>3. Spell(far, Visit("UnaryExp", op, NoToken))
        = [far EXCEPT !.exps = Append(SubSeq(far.exps, 1, Len(far.exps) - 1),
                                      Parenthesised(Write(<<Sign(op)>>) \o far.exps[Len(far.exps)]))]
  <2> HIDE DEF far
  <2> QED BY DEF Spell, Visit
<1>4. Len(F) - 1 = n /\ F[Len(F)] = a
  BY <1>1
<1>5. Parenthesised(Write(<<Sign(op)>>) \o far.exps[Len(far.exps)]) = p
  BY <1>2, <1>4
<1>6. SubSeq(F, 1, Len(far.exps) - 1) = E
  BY <1>1, <1>2, <1>4
<1>7. [far EXCEPT !.exps = Append(SubSeq(far.exps, 1, Len(far.exps) - 1), p)] = Far(T, Append(E, p))
  <2> DEFINE y == Append(SubSeq(far.exps, 1, Len(far.exps) - 1), p)
  <2>1. y = Append(E, p)
    <3> HIDE DEF p, far
    <3> QED BY <1>6, <1>2
  <2> HIDE DEF y
  <2>2. [far EXCEPT !.exps = y] = Far(T, y)
    BY FarWith
  <2> QED BY <2>1, <2>2 DEF y
<1> HIDE DEF p, far
<1>8. Spell(far, Visit("UnaryExp", op, NoToken)) = Far(T, Append(E, p))
  BY <1>3, <1>5, <1>7
<1> QED BY <1>8 DEF p, far, F

LEMMA SpellBinary ==
  ASSUME NEW S, NEW T, NEW E \in Seq(S), NEW a \in S, NEW b \in S, NEW op, NEW nt \in DOMAIN BinaryLevel
  PROVE  Spell(Far(T, Append(Append(E, a), b)), Visit(nt, op, NoToken))
           = Far(T, Append(E, Parenthesised(a \o Write(<<Sign(op)>>) \o b)))
<1> DEFINE p == Parenthesised(a \o Write(<<Sign(op)>>) \o b)
           F == Append(E, a)
           G == Append(F, b)
           n == Len(E)
           far == Far(T, G)
<1>1. F \in Seq(S) /\ Len(F) = n + 1 /\ F[n + 1] = a /\ SubSeq(F, 1, n) = E /\ n \in Nat
  BY PushFacts
<1>2. /\ Len(G) = Len(F) + 1 /\ G[Len(F) + 1] = b
      /\ \A k \in 1 .. Len(F) : G[k] = F[k]
      /\ G \in Seq(S)
  <2> HIDE DEF F
  <2> QED BY <1>1, PushFacts
<1>3. SubSeq(G, 1, n) = E
  <2>1. n \in 0 .. Len(F)
    BY <1>1
  <2> HIDE DEF F
  <2>2. SubSeq(G, 1, n) = SubSeq(F, 1, n)
    BY <1>1, <2>1, <1>2
  <2> QED BY <1>1, <2>2
<1> HIDE DEF F, G, n
<1>4. far.exps = G /\ far.tokens = T
  BY DEF Far
<1>5. Spell(far, Visit(nt, op, NoToken))
        = [far EXCEPT !.exps = Append(SubSeq(far.exps, 1, Len(far.exps) - 2),
                                      Parenthesised(far.exps[Len(far.exps) - 1] \o Write(<<Sign(op)>>)
                                                      \o far.exps[Len(far.exps)]))]
  <2>1. nt \in {"LOrExp", "LAndExp", "EqExp", "RelExp", "AddExp", "MulExp"}
    BY DEF BinaryLevel
  <2> HIDE DEF far
  <2> QED BY <2>1 DEF Spell, Visit
<1>6. Len(G) - 2 = n /\ G[Len(G)] = b /\ G[Len(G) - 1] = a
  BY <1>1, <1>2
<1>7. Parenthesised(far.exps[Len(far.exps) - 1] \o Write(<<Sign(op)>>) \o far.exps[Len(far.exps)]) = p
  BY <1>4, <1>6
<1>8. SubSeq(G, 1, Len(far.exps) - 2) = E
  BY <1>3, <1>4, <1>6
<1>9. [far EXCEPT !.exps = Append(SubSeq(far.exps, 1, Len(far.exps) - 2), p)] = Far(T, Append(E, p))
  <2> DEFINE y == Append(SubSeq(far.exps, 1, Len(far.exps) - 2), p)
  <2>1. y = Append(E, p)
    <3> HIDE DEF p, far
    <3> QED BY <1>8, <1>4
  <2> HIDE DEF y
  <2>2. [far EXCEPT !.exps = y] = Far(T, y)
    BY FarWith
  <2> QED BY <2>1, <2>2 DEF y
<1> HIDE DEF p, far
<1>10. Spell(far, Visit(nt, op, NoToken)) = Far(T, Append(E, p))
  BY <1>5, <1>7, <1>9
<1> QED BY <1>10 DEF p, far, F, G

LEMMA VisitIn ==
  ASSUME NEW S, NEW handler \in Handlers, NEW op \in Operators, NEW token \in S \cup {NoToken}
  PROVE  Visit(handler, op, token) \in VisitsOver(S) /\ <<Visit(handler, op, token)>> \in Seq(VisitsOver(S))
  BY DEF Visit, VisitsOver

LEMMA ParenthesesFacts ==
  ASSUME NEW S, Alphabet(S), NEW e \in Seq(S)
  PROVE  /\ Parenthesised(e) \in Seq(S) /\ Words(Parenthesised(e)) = Words(e)
         /\ \A v : Fits("Exp", e, v) => Fits("PrimaryExp", Parenthesised(e), v)
<1>1. Terminal("(") \in S /\ Terminal(")") \in S
  BY DEF Alphabet, Terminals
<1>2. Parenthesised(e) \in Seq(S)
  <2> DEFINE l == Terminal("(")
             r == Terminal(")")
             c == <<l>> \o e
  <2>1. Parenthesised(e) = c \o <<r>>
    <3>1. Write(<<"(">>) = <<l>> /\ Write(<<")">>) = <<r>>
      BY WriteOne
    <3> HIDE DEF l, r
    <3> QED BY <3>1 DEF Parenthesised
  <2>2. <<l>> \in Seq(S) /\ <<r>> \in Seq(S)
    BY <1>1
  <2> HIDE DEF l, r
  <2>3. c \in Seq(S)
    <3> DEFINE m == <<l>>
    <3> HIDE DEF m
    <3> QED BY <2>2, ConcatProperties DEF m
  <2> HIDE DEF c
  <2>4. c \o <<r>> \in Seq(S)
    <3> DEFINE m == <<r>>
    <3> HIDE DEF m
    <3> QED BY <2>2, <2>3, ConcatProperties DEF m
  <2> QED BY <2>1, <2>4
<1>3. ASSUME NEW v, Fits("Exp", e, v) PROVE Fits("PrimaryExp", Parenthesised(e), v)
  BY <1>1, <1>3, FitsParens
<1> QED BY <1>1, <1>2, <1>3, ParenthesesNoWords

LEMMA WrittenName ==
  ASSUME NEW S, Alphabet(S), NEW x \in S, NEW handler, handler = (IF x.kind = "ident" THEN "LVal" ELSE "Number"),
         x.kind \in {"ident", "number"}
  PROVE  Written(S, <<x>>, Mark(handler, x))
<1> DEFINE e == <<x>>
           p == Parenthesised(e)
           v == Mark(handler, x)
<1>1. handler \in {"LVal", "Number"} /\ handler \in Handlers /\ "none" \in Operators
  BY DEF Handlers, Operators
<1>2. v \in Seq(VisitsOver(S))
  BY <1>1, VisitIn DEF Mark
<1>3. e \in Seq(S)
  OBVIOUS
<1>4. Words(e) = e
  BY OneWord, NoWords
<1>5. Fits("Exp", e, v)
  <2>1. Fits("PrimaryExp", e, v)
    BY FitsName
  <2> HIDE DEF e, v
  <2> QED BY <2>1, FitsUp, RankFacts
<1>6. Pushes(S, v, p)
  <2>1. ASSUME NEW T \in Seq(S), NEW E \in Seq(Seq(S)) PROVE Run(Far(T, E), v) = Far(T, Append(E, p))
    <3>1. Run(Far(T, E), v) = Spell(Far(T, E), Visit(handler, "none", x))
      BY RunOne DEF Mark
    <3>2. Spell(Far(T, E), Visit(handler, "none", x)) = Far(T, Append(E, p))
      BY <1>1, SpellName
    <3> QED BY <3>1, <3>2
  <2> QED BY <2>1 DEF Pushes
<1> HIDE DEF e, v
<1>7. p \in Seq(S) /\ Words(p) = e /\ Fits("PrimaryExp", p, v)
  BY <1>3, <1>4, <1>5, ParenthesesFacts
<1> HIDE DEF p
<1>8. Written(S, e, v)
  BY <1>2, <1>6, <1>7 DEF Written
<1> QED BY <1>8 DEF e, v

LEMMA SignTokens ==
  ASSUME NEW S, Alphabet(S), NEW sign, sign \in UnarySigns \cup BinarySigns
  PROVE  /\ Terminal(sign) \in S /\ Write(<<sign>>) = <<Terminal(sign)>> /\ <<Terminal(sign)>> \in Seq(S)
         /\ Words(<<Terminal(sign)>>) = <<Terminal(sign)>>
<1>1. sign \in Terminals /\ sign \in WordKinds
  BY SignsWritten
<1>2. Terminal(sign) \in S /\ Terminal(sign).kind \in WordKinds
  BY <1>1, TerminalKind DEF Alphabet
<1> QED BY <1>2, WriteOne, OneWord

LEMMA WrittenUnary ==
  ASSUME NEW S, Alphabet(S), NEW sign \in UnarySigns, NEW s, NEW x, Written(S, s, x)
  PROVE  Written(S, <<Terminal(sign)>> \o s, x \o Operation("UnaryExp", UnaryOp(sign)))
<1> DEFINE op == UnaryOp(sign)
           y == Operation("UnaryExp", op)
           v == x \o y
           m == <<Terminal(sign)>>
<1>1. PICK a \in Seq(S) : Pushes(S, x, a) /\ Words(a) = s /\ Fits("PrimaryExp", a, x)
  BY DEF Written
<1>2. x \in Seq(VisitsOver(S))
  BY DEF Written
<1>3. op \in Operators /\ Sign(op) = sign
  BY SignsWritten
<1>4. y \in Seq(VisitsOver(S))
  <2> HIDE DEF op
  <2> QED BY <1>3, VisitIn DEF Operation, Handlers
<1>5. Write(<<Sign(op)>>) = m /\ m \in Seq(S) /\ Words(m) = m
  BY <1>3, SignTokens
<1> DEFINE c == m \o a
           p == Parenthesised(c)
<1>6. Fits("UnaryExp", c, v) /\ c \in Seq(S)
  <2>1. Fits("UnaryExp", a, x)
    BY <1>1, FitsUp, RankFacts
  <2>2. Terminal(sign) \in S
    BY SignTokens
  <2> QED BY <2>1, <2>2, FitsUnary
<1>7. Words(c) = m \o s
  <2> HIDE DEF m
  <2>1. Words(m \o a) = Words(m) \o Words(a)
    BY <1>1, <1>5, WordsConcat
  <2> QED BY <1>1, <1>5, <2>1
<1>8. Pushes(S, v, p)
  <2>1. ASSUME NEW T \in Seq(S), NEW E \in Seq(Seq(S)) PROVE Run(Far(T, E), v) = Far(T, Append(E, p))
    <3>1. Run(Far(T, E), x) = Far(T, Append(E, a))
      BY <1>1 DEF Pushes
    <3>2. Run(Far(T, Append(E, a)), y) = Spell(Far(T, Append(E, a)), Visit("UnaryExp", op, NoToken))
      BY RunOne DEF Operation
    <3>3. Spell(Far(T, Append(E, a)), Visit("UnaryExp", op, NoToken)) = Far(T, Append(E, p))
      <4>1. Spell(Far(T, Append(E, a)), Visit("UnaryExp", op, NoToken))
              = Far(T, Append(E, Parenthesised(Write(<<Sign(op)>>) \o a)))
        BY <1>1, SpellUnary
      <4> HIDE DEF op, m
      <4> QED BY <1>5, <4>1
    <3> HIDE DEF y, p
    <3>4. Run(Far(T, E), x \o y) = Run(Run(Far(T, E), x), y)
      BY <1>2, <1>4, RunConcat
    <3> QED BY <3>1, <3>2, <3>3, <3>4
  <2> QED BY <2>1 DEF Pushes
<1>9. v \in Seq(VisitsOver(S))
  <2> HIDE DEF y
  <2> QED BY <1>2, <1>4, ConcatProperties
<1> HIDE DEF c, v, m
<1>10. p \in Seq(S) /\ Words(p) = m \o s /\ Fits("PrimaryExp", p, v)
  <2>1. Fits("Exp", c, v)
    BY <1>6, FitsUp
  <2> QED BY <1>6, <1>7, <2>1, ParenthesesFacts
<1> HIDE DEF p
<1>11. Written(S, m \o s, v)
  BY <1>8, <1>9, <1>10 DEF Written
<1> QED BY <1>11 DEF m, v

LEMMA WrittenBinary ==
  ASSUME NEW S, Alphabet(S), NEW nt \in DOMAIN BinaryLevel, NEW sign \in BinaryLevel[nt].ops,
         NEW s, NEW r, NEW x, NEW y, Written(S, s, x), Written(S, r, y)
  PROVE  Written(S, (s \o <<Terminal(sign)>>) \o r, (x \o y) \o Operation(nt, BinaryOp(sign)))
<1> DEFINE op == BinaryOp(sign)
           z == Operation(nt, op)
           u == x \o y
           v == u \o z
           m == <<Terminal(sign)>>
<1>1. PICK a \in Seq(S) : Pushes(S, x, a) /\ Words(a) = s /\ Fits("PrimaryExp", a, x)
  BY DEF Written
<1>2. PICK b \in Seq(S) : Pushes(S, y, b) /\ Words(b) = r /\ Fits("PrimaryExp", b, y)
  BY DEF Written
<1>3. x \in Seq(VisitsOver(S)) /\ y \in Seq(VisitsOver(S))
  BY DEF Written
<1>4. sign \in BinarySigns
  BY DEF BinarySigns
<1>5. op \in Operators /\ Sign(op) = sign
  BY <1>4, SignsWritten
<1>6. z \in Seq(VisitsOver(S))
  <2>1. nt \in Handlers
    BY DEF Handlers
  <2> HIDE DEF op
  <2> QED BY <1>5, <2>1, VisitIn DEF Operation
<1>7. Write(<<Sign(op)>>) = m /\ m \in Seq(S) /\ Words(m) = m
  BY <1>4, <1>5, SignTokens
<1> DEFINE c == a \o m \o b
           p == Parenthesised(c)
<1>8. Fits(nt, c, v) /\ c \in Seq(S)
  <2>1. nt \in ExpNonTerminals /\ BinaryLevel[nt].below \in ExpNonTerminals
    BY LevelFacts, RankFacts
  <2>2. Fits(nt, a, x) /\ Fits(BinaryLevel[nt].below, b, y)
    BY <1>1, <1>2, <2>1, FitsUp
  <2>3. Terminal(sign) \in S
    BY <1>4, SignTokens
  <2> QED BY <2>2, <2>3, FitsBinary
<1>9. Words(c) = (s \o m) \o r
  <2> HIDE DEF m
  <2> DEFINE l == a \o m
  <2>1. l \in Seq(S) /\ Words(l) = Words(a) \o Words(m)
    BY <1>7, WordsConcat, ConcatProperties
  <2> HIDE DEF l
  <2>2. Words(l \o b) = Words(l) \o Words(b)
    BY <2>1, WordsConcat
  <2> QED BY <1>1, <1>2, <1>7, <2>1, <2>2 DEF l
<1>10. u \in Seq(VisitsOver(S))
  BY <1>3, ConcatProperties
<1>11. Pushes(S, v, p)
  <2>1. ASSUME NEW T \in Seq(S), NEW E \in Seq(Seq(S)) PROVE Run(Far(T, E), v) = Far(T, Append(E, p))
    <3> DEFINE F == Append(E, a)
               G == Append(F, b)
    <3>1. Run(Far(T, E), x) = Far(T, F)
      BY <1>1 DEF Pushes
    <3>0. F \in Seq(Seq(S))
      BY PushFacts
    <3>2. Run(Far(T, F), y) = Far(T, G)
      <4> HIDE DEF F
      <4> QED BY <1>2, <3>0 DEF Pushes
    <3>3. Run(Far(T, G), z) = Spell(Far(T, G), Visit(nt, op, NoToken))
      BY RunOne DEF Operation
    <3>4. Spell(Far(T, G), Visit(nt, op, NoToken)) = Far(T, Append(E, p))
      <4>1. Spell(Far(T, Append(Append(E, a), b)), Visit(nt, op, NoToken))
              = Far(T, Append(E, Parenthesised(a \o Write(<<Sign(op)>>) \o b)))
        BY <1>1, <1>2, SpellBinary
      <4> HIDE DEF op, m
      <4> QED BY <1>7, <4>1
    <3> HIDE DEF z, p, F, G
    <3>5. Run(Far(T, E), x \o y) = Run(Run(Far(T, E), x), y)
      BY <1>3, RunConcat
    <3>6. Run(Far(T, E), u \o z) = Run(Run(Far(T, E), u), z)
      <4> HIDE DEF u
      <4> QED BY <1>6, <1>10, RunConcat
    <3> QED BY <3>1, <3>2, <3>3, <3>4, <3>5, <3>6
  <2> QED BY <2>1 DEF Pushes
<1>12. v \in Seq(VisitsOver(S))
  <2> HIDE DEF z, u
  <2> QED BY <1>6, <1>10, ConcatProperties
<1> HIDE DEF c, v, m
<1>13. p \in Seq(S) /\ Words(p) = (s \o m) \o r /\ Fits("PrimaryExp", p, v)
  <2>1. Fits("Exp", c, v)
    BY <1>8, FitsUp
  <2> QED BY <1>8, <1>9, <2>1, ParenthesesFacts
<1> HIDE DEF p
<1>14. Written(S, (s \o m) \o r, v)
  BY <1>11, <1>12, <1>13 DEF Written
<1> QED BY <1>14 DEF m, v, u, z, op

\* The words of a token and of a span in parentheses.
LEMMA TokenWords ==
  ASSUME NEW S, NEW t \in Seq(S), NEW k \in 1 .. Len(t)
  PROVE  /\ t[k].kind \in WordKinds => Words(<<t[k]>>) = <<t[k]>>
         /\ t[k].kind \notin WordKinds => Words(<<t[k]>>) = <<>>
  BY OneWord

LEMMA EnclosedWords ==
  ASSUME NEW S, NEW t \in Seq(S), NEW i \in 1 .. Len(t) + 1, NEW j \in 0 .. Len(t), i < j,
         t[i].kind \notin WordKinds, t[j].kind \notin WordKinds
  PROVE  Words(SubSeq(t, i, j)) = Words(SubSeq(t, i + 1, j - 1))
<1>1. Len(t) \in Nat /\ i \in Int /\ j \in Int
  OBVIOUS
<1>2. i \in 1 .. Len(t) /\ j \in 1 .. Len(t) /\ i + 1 \in 1 .. Len(t) + 1 /\ i <= j /\ i + 1 <= j
  BY <1>1
<1> DEFINE w == Words(SubSeq(t, i + 1, j - 1))
           m == SubSeq(t, i + 1, j - 1)
<1>3. w \in Seq(S)
  <2>1. m \in Seq(S)
    <3>1. j - 1 \in 0 .. Len(t)
      BY <1>1, <1>2
    <3> QED BY <1>1, <1>2, <3>1, SubSeqProperties
  <2> HIDE DEF m
  <2>2. Words(m) \in Seq(S)
    BY <2>1, WordsType
  <2> QED BY <2>2 DEF m
<1>4. Words(<<t[i]>>) = <<>> /\ Words(<<t[j]>>) = <<>>
  BY <1>2, TokenWords
<1>5. Words(SubSeq(t, i, j)) = <<>> \o Words(SubSeq(t, i + 1, j))
  BY <1>2, <1>4, SpanFirst
<1>6. Words(SubSeq(t, i + 1, j)) = w \o <<>>
  BY <1>2, <1>4, SpanLast
<1> HIDE DEF w
<1>7. <<>> \o w = w /\ w \o <<>> = w
  BY <1>3, ConcatEmptySeq
<1> QED BY <1>5, <1>6, <1>7 DEF w

\* The visits of an expression can be written, and its words are theirs.
LEMMA ExpWritten ==
  ASSUME NEW S, Alphabet(S), NEW t \in Seq(S), NEW X, Derives(X, t)
  PROVE  \A nt \in ExpNonTerminals, i \in 1 .. Len(t) + 1, j \in 0 .. Len(t) :
           \A v : In(X, nt, i, j, v) => Written(S, Words(SubSeq(t, i, j)), v)
<1> DEFINE N == Len(t)
           Full(s) == \A v : In(X, s[1], s[2], s[3], v) => Written(S, Words(SubSeq(t, s[2], s[3])), v)
           G == {s \in ExpSpans(t) : Full(s)}
<1>1. N \in Nat
  OBVIOUS
<1>2. ASSUME NEW nt \in ExpNonTerminals, NEW i \in 1 .. N + 1, NEW j \in 0 .. N
      PROVE  <<nt, i, j>> \in G <=> \A v : In(X, nt, i, j, v) => Written(S, Words(SubSeq(t, i, j)), v)
  BY DEF ExpSpans
<1> HIDE DEF G
<1>3. ASSUME NEW nt \in ExpNonTerminals, NEW i \in 1 .. N + 1, NEW j \in 0 .. N,
             \A m \in ExpNonTerminals, p \in 1 .. N + 1, q \in 0 .. N :
               Weight(m, p, q) < Weight(nt, i, j) => <<m, p, q>> \in G,
             NEW v, In(X, nt, i, j, v)
      PROVE  Written(S, Words(SubSeq(t, i, j)), v)
  <2>1. \A m \in ExpNonTerminals, p \in 1 .. N + 1, q \in 0 .. N :
          Weight(m, p, q) < Weight(nt, i, j) => \A w : In(X, m, p, q, w) => Written(S, Words(SubSeq(t, p, q)), w)
    BY <1>2, <1>3
  <2>2. i \in Int /\ j \in Int
    BY <1>1
  <2>3. ASSUME NEW k, NEW K, Is(t, k, K) PROVE k \in 1 .. N /\ t[k].kind \in K /\ t[k] \in S
    BY <2>3 DEF Is
  <2>4. CASE nt = "Exp"
    <3>1. "LOrExp" \in ExpNonTerminals /\ Weight("LOrExp", i, j) < Weight("Exp", i, j)
      BY <1>1, InnerSpans
    <3>2. In(X, "LOrExp", i, j, v)
      BY <1>3, <2>4, ExpRule
    <3> QED BY <2>1, <2>4, <3>1, <3>2
  <2>5. CASE nt = "UnaryExp"
    <3>1. /\ "PrimaryExp" \in ExpNonTerminals /\ Weight("PrimaryExp", i, j) < Weight("UnaryExp", i, j)
          /\ i < j => i + 1 \in 1 .. N + 1 /\ Weight("UnaryExp", i + 1, j) < Weight("UnaryExp", i, j)
      BY <1>1, InnerSpans
    <3>2. CASE In(X, "PrimaryExp", i, j, v)
      BY <2>1, <2>5, <3>1, <3>2
    <3>3. CASE ~In(X, "PrimaryExp", i, j, v)
      <4>0. Signed(X, t, i, j, v)
        BY <1>3, <2>5, <3>3, UnaryRule
      <4>1. i < j /\ Is(t, i, UnarySigns)
        BY <4>0 DEF Signed
      <4>2. PICK x : In(X, "UnaryExp", i + 1, j, x) /\ v = x \o Operation("UnaryExp", UnaryOp(t[i].kind))
        BY <4>0 DEF Signed
      <4> DEFINE s == Words(SubSeq(t, i + 1, j))
                 sign == t[i].kind
      <4>3. Written(S, s, x)
        BY <2>1, <2>5, <3>1, <4>1, <4>2
      <4>4. sign \in UnarySigns /\ i \in 1 .. N /\ t[i] \in S
        BY <2>3, <4>1
      <4>5. sign \in Terminals /\ sign \in WordKinds
        BY <4>4, SignsWritten
      <4>6. t[i] = Terminal(sign)
        BY <4>4, <4>5 DEF Alphabet
      <4>7. Words(SubSeq(t, i, j)) = <<t[i]>> \o s
        <5>1. Words(<<t[i]>>) = <<t[i]>>
          BY <4>4, <4>5, TokenWords
        <5>2. i <= j
          BY <2>2, <4>1
        <5> QED BY <5>1, <5>2, SpanFirst
      <4> HIDE DEF s, sign
      <4>8. Written(S, <<Terminal(sign)>> \o s, x \o Operation("UnaryExp", UnaryOp(sign)))
        BY <4>3, <4>4, WrittenUnary
      <4> QED BY <4>2, <4>6, <4>7, <4>8 DEF sign
    <3> QED BY <3>2, <3>3
  <2>6. CASE nt = "PrimaryExp"
    <3>1. "Exp" \in ExpNonTerminals
          /\ (i < j => /\ i + 1 \in 1 .. N + 1 /\ j - 1 \in 0 .. N
                       /\ Weight("Exp", i + 1, j - 1) < Weight("PrimaryExp", i, j))
      BY <1>1, InnerSpans, RankFacts
    <3>2. ASSUME NEW handler, NEW kind, kind \in {"ident", "number"},
                 handler = (IF kind = "ident" THEN "LVal" ELSE "Number"),
                 i = j, Is(t, i, {kind}), v = Mark(handler, t[i])
          PROVE  Written(S, Words(SubSeq(t, i, j)), v)
      <4>1. i \in 1 .. N /\ t[i] \in S /\ t[i].kind = kind
        BY <2>3, <3>2
      <4>2. SubSeq(t, i, i) = <<t[i]>>
        <5> DEFINE a == SubSeq(t, i, i)
        <5>1. a \in Seq(S) /\ Len(a) = 1 /\ a[1] = t[i]
          BY <4>1, SubSeqProperties
        <5> HIDE DEF a
        <5>2. a = <<a[1]>>
          BY <5>1
        <5> QED BY <5>1, <5>2 DEF a
      <4>3. Words(<<t[i]>>) = <<t[i]>>
        BY <3>2, <4>1, TokenWords, NoWords
      <4>4. Written(S, <<t[i]>>, Mark(handler, t[i]))
        BY <3>2, <4>1, WrittenName
      <4> QED BY <3>2, <4>2, <4>3, <4>4
    <3>3. CASE i = j /\ Is(t, i, {"ident"}) /\ v = Mark("LVal", t[i])
      BY <3>2, <3>3
    <3>4. CASE i = j /\ Is(t, i, {"number"}) /\ v = Mark("Number", t[i])
      BY <3>2, <3>4
    <3>5. CASE i < j /\ Is(t, i, {"("}) /\ Is(t, j, {")"}) /\ In(X, "Exp", i + 1, j - 1, v)
      <4>1. Written(S, Words(SubSeq(t, i + 1, j - 1)), v)
        BY <2>1, <2>6, <3>1, <3>5
      <4>2. t[i].kind \notin WordKinds /\ t[j].kind \notin WordKinds
        <5>1. t[i].kind \in {"("} /\ t[j].kind \in {")"}
          BY <2>3, <3>5
        <5>2. t[i].kind = "(" /\ t[j].kind = ")"
          BY <5>1
        <5> QED BY <5>2, NoWords
      <4> QED BY <3>5, <4>1, <4>2, EnclosedWords
    <3> QED BY <1>3, <2>6, <3>3, <3>4, <3>5, PrimaryRule
  <2>7. CASE nt \in DOMAIN BinaryLevel
    <3> DEFINE low == BinaryLevel[nt].below
    <3>1. /\ low \in ExpNonTerminals /\ Weight(low, i, j) < Weight(nt, i, j)
          /\ \A k \in i + 1 .. j - 1 :
               /\ k - 1 \in 0 .. N /\ k + 1 \in 1 .. N + 1 /\ k \in 1 .. N
               /\ Weight(nt, i, k - 1) < Weight(nt, i, j)
               /\ Weight(low, k + 1, j) < Weight(nt, i, j)
      BY <1>1, <2>7, LevelSpans
    <3>2. In(X, low, i, j, v) \/ Binary(X, t, nt, i, j, v)
      BY <1>3, <2>7, LevelRule
    <3> HIDE DEF low
    <3>3. CASE In(X, low, i, j, v)
      BY <2>1, <3>1, <3>3
    <3>4. CASE Binary(X, t, nt, i, j, v)
      <4>1. PICK k \in i + 1 .. j - 1 : \E x, y :
              /\ Is(t, k, BinaryLevel[nt].ops)
              /\ In(X, nt, i, k - 1, x) /\ In(X, low, k + 1, j, y)
              /\ v = (x \o y) \o Operation(nt, BinaryOp(t[k].kind))
        BY <3>4 DEF Binary, low
      <4>2. PICK x, y : /\ Is(t, k, BinaryLevel[nt].ops)
                        /\ In(X, nt, i, k - 1, x) /\ In(X, low, k + 1, j, y)
                        /\ v = (x \o y) \o Operation(nt, BinaryOp(t[k].kind))
        BY <4>1
      <4> DEFINE s == Words(SubSeq(t, i, k - 1))
                 r == Words(SubSeq(t, k + 1, j))
                 sign == t[k].kind
      <4>3. Written(S, s, x) /\ Written(S, r, y)
        BY <2>1, <2>7, <3>1, <4>2
      <4>4. sign \in BinaryLevel[nt].ops /\ k \in 1 .. N /\ t[k] \in S
        BY <2>3, <4>2
      <4>5. sign \in BinarySigns
        BY <2>7, <4>4 DEF BinarySigns
      <4>6. sign \in Terminals /\ sign \in WordKinds
        BY <4>5, SignsWritten
      <4>7. t[k] = Terminal(sign)
        BY <4>4, <4>6 DEF Alphabet
      <4>8. Words(SubSeq(t, i, j)) = (s \o <<t[k]>>) \o r
        <5>1. Words(<<t[k]>>) = <<t[k]>>
          BY <4>4, <4>6, TokenWords
        <5>2. k \in i .. j
          BY <2>2, <4>4
        <5> QED BY <5>1, <5>2, SpanWords
      <4> HIDE DEF s, r, sign
      <4>9. Written(S, (s \o <<Terminal(sign)>>) \o r, (x \o y) \o Operation(nt, BinaryOp(sign)))
        BY <2>7, <4>3, <4>4, WrittenBinary
      <4> QED BY <4>2, <4>7, <4>8, <4>9 DEF sign
    <3> QED BY <3>2, <3>3, <3>4
  <2> QED BY <2>4, <2>5, <2>6, <2>7 DEF ExpNonTerminals
<1>4. \A nt \in ExpNonTerminals, i \in 1 .. N + 1, j \in 0 .. N :
        (\A m \in ExpNonTerminals, p \in 1 .. N + 1, q \in 0 .. N :
           Weight(m, p, q) < Weight(nt, i, j) => <<m, p, q>> \in G) => <<nt, i, j>> \in G
  BY <1>2, <1>3
<1>5. \A nt \in ExpNonTerminals, i \in 1 .. N + 1, j \in 0 .. N : <<nt, i, j>> \in G
  <2> HIDE DEF N
  <2> QED BY <1>1, <1>4, ByWeight, RankFacts
<1> QED BY <1>2, <1>5

-----------------------------------------------------------------------------
(* The spelling of definitions and statements.                             *)

LEMMA FarPut ==
  ASSUME NEW T, NEW E, NEW F PROVE [Far(T, E) EXCEPT !.tokens = F] = Far(F, E)
  BY DEF Far

LEMMA WriteMore ==
  ASSUME NEW a, NEW b, NEW c
  PROVE  /\ Write(<<a, b>>) = <<Terminal(a), Terminal(b)>>
         /\ Write(<<a, b, c>>) = <<Terminal(a), Terminal(b), Terminal(c)>>
  BY DEF Write

Extends(s, m, t) ==
  /\ Len(t) = Len(s) + Len(m)
  /\ \A i \in 1 .. Len(s) : t[i] = s[i]
  /\ \A i \in 1 .. Len(m) : t[Len(s) + i] = m[i]

LEMMA JoinedIs ==
  ASSUME NEW S, NEW s \in Seq(S), NEW m \in Seq(S), NEW t \in Seq(S), Extends(s, m, t)
  PROVE  s \o m = t
<1>0. /\ Len(t) = Len(s) + Len(m)
      /\ \A i \in 1 .. Len(s) : t[i] = s[i]
      /\ \A i \in 1 .. Len(m) : t[Len(s) + i] = m[i]
  BY DEF Extends
<1> DEFINE c == s \o m
<1>1. /\ c \in Seq(S) /\ Len(c) = Len(s) + Len(m)
      /\ \A i \in 1 .. Len(s) + Len(m) : c[i] = IF i <= Len(s) THEN s[i] ELSE m[i - Len(s)]
  BY ConcatProperties
<1> HIDE DEF c
<1>2. Len(s) \in Nat /\ Len(m) \in Nat
  OBVIOUS
<1>3. ASSUME NEW i \in 1 .. Len(s) + Len(m) PROVE c[i] = t[i]
  <2>1. CASE i \in 1 .. Len(s)
    BY <1>0, <1>1, <1>2, <2>1
  <2>2. CASE i \notin 1 .. Len(s)
    <3>1. i - Len(s) \in 1 .. Len(m) /\ Len(s) + (i - Len(s)) = i /\ ~(i <= Len(s))
      BY <1>2, <2>2
    <3>2. t[Len(s) + (i - Len(s))] = m[i - Len(s)]
      BY <1>0, <3>1
    <3> QED BY <1>1, <3>1, <3>2
  <2> QED BY <2>1, <2>2
<1>4. c = t
  BY <1>0, <1>1, <1>3, SeqEqual
<1> QED BY <1>4 DEF c

LEMMA Pair ==
  ASSUME NEW S, NEW a \in S, NEW b \in S
  PROVE  <<a>> \o <<b>> = <<a, b>>
<1> DEFINE s == <<a>>
           m == <<b>>
           t == <<a, b>>
<1>1. s \in Seq(S) /\ Len(s) = 1 /\ s[1] = a
  OBVIOUS
<1>2. m \in Seq(S) /\ Len(m) = 1 /\ m[1] = b
  OBVIOUS
<1>3. t \in Seq(S) /\ Len(t) = 2 /\ t[1] = a /\ t[2] = b
  OBVIOUS
<1> HIDE DEF s, m, t
<1>4. Extends(s, m, t)
  BY <1>1, <1>2, <1>3 DEF Extends
<1>5. s \o m = t
  BY <1>1, <1>2, <1>3, <1>4, JoinedIs
<1> QED BY <1>5 DEF s, m, t

LEMMA Triple ==
  ASSUME NEW S, NEW a \in S, NEW b \in S, NEW c \in S
  PROVE  <<a, b>> \o <<c>> = <<a, b, c>>
<1> DEFINE s == <<a, b>>
           m == <<c>>
           t == <<a, b, c>>
<1>1. s \in Seq(S) /\ Len(s) = 2 /\ s[1] = a /\ s[2] = b
  OBVIOUS
<1>2. m \in Seq(S) /\ Len(m) = 1 /\ m[1] = c
  OBVIOUS
<1>3. t \in Seq(S) /\ Len(t) = 3 /\ t[1] = a /\ t[2] = b /\ t[3] = c
  OBVIOUS
<1> HIDE DEF s, m, t
<1>4. Extends(s, m, t)
  BY <1>1, <1>2, <1>3 DEF Extends
<1>5. s \o m = t
  BY <1>1, <1>2, <1>3, <1>4, JoinedIs
<1> QED BY <1>5 DEF s, m, t

LEMMA Quadruple ==
  ASSUME NEW S, NEW a \in S, NEW b \in S, NEW c \in S, NEW d \in S
  PROVE  <<a, b, c>> \o <<d>> = <<a, b, c, d>>
<1> DEFINE s == <<a, b, c>>
           m == <<d>>
           t == <<a, b, c, d>>
<1>1. s \in Seq(S) /\ Len(s) = 3 /\ s[1] = a /\ s[2] = b /\ s[3] = c
  OBVIOUS
<1>2. m \in Seq(S) /\ Len(m) = 1 /\ m[1] = d
  OBVIOUS
<1>3. t \in Seq(S) /\ Len(t) = 4 /\ t[1] = a /\ t[2] = b /\ t[3] = c /\ t[4] = d
  OBVIOUS
<1> HIDE DEF s, m, t
<1>4. Extends(s, m, t)
  BY <1>1, <1>2, <1>3 DEF Extends
<1>5. s \o m = t
  BY <1>1, <1>2, <1>3, <1>4, JoinedIs
<1> QED BY <1>5 DEF s, m, t

LEMMA Quintuple ==
  ASSUME NEW S, NEW a \in S, NEW b \in S, NEW c \in S, NEW d \in S, NEW e \in S
  PROVE  <<a, b>> \o <<c, d, e>> = <<a, b, c, d, e>>
<1> DEFINE s == <<a, b>>
           m == <<c, d, e>>
           t == <<a, b, c, d, e>>
<1>1. s \in Seq(S) /\ Len(s) = 2 /\ s[1] = a /\ s[2] = b
  OBVIOUS
<1>2. m \in Seq(S) /\ Len(m) = 3 /\ m[1] = c /\ m[2] = d /\ m[3] = e
  OBVIOUS
<1>3. t \in Seq(S) /\ Len(t) = 5 /\ t[1] = a /\ t[2] = b /\ t[3] = c /\ t[4] = d /\ t[5] = e
  OBVIOUS
<1> HIDE DEF s, m, t
<1>4. Extends(s, m, t)
  BY <1>1, <1>2, <1>3 DEF Extends
<1>5. s \o m = t
  BY <1>1, <1>2, <1>3, <1>4, JoinedIs
<1> QED BY <1>5 DEF s, m, t

LEMMA KnownTerminals ==
  {"int", "const", "return", "(", ")", "{", "}", ";", "="} \subseteq Terminals
  BY DEF Terminals, Keywords

\* What a handler writes before, and after, what is inside.
HeadOf(handler, x) ==
  CASE handler = "BeginFunc" -> <<Terminal("int"), x, Terminal("("), Terminal(")"), Terminal("{")>>
    [] handler = "EndFunc" -> <<Terminal("}")>>
    [] handler = "EndBlock" -> <<Terminal("}")>>
    [] handler = "BeginBlock" -> <<Terminal("{")>>
    [] handler = "BeginConstDef" -> <<Terminal("const"), Terminal("int"), x, Terminal("=")>>
    [] handler = "BeginVarDef" -> <<Terminal("int"), x, Terminal("=")>>
    [] handler = "VarDefOnly" -> <<Terminal("int"), x, Terminal(";")>>
    [] handler = "BeginAssign" -> <<x, Terminal("=")>>
    [] handler = "BeginReturn" -> <<Terminal("return")>>
    [] handler = "BeginRaw" -> <<>>
Opens(S, handler, x) ==
  \A T \in Seq(S) : Spell(Far(T, <<>>), Visit(handler, "none", x)) = Far(T \o HeadOf(handler, x), <<>>)

LEMMA OpensBeginFunc ==
  ASSUME NEW S, Alphabet(S), NEW x \in S
  PROVE  Opens(S, "BeginFunc", x)
<1> DEFINE h == <<Terminal("int"), x, Terminal("("), Terminal(")"), Terminal("{")>>
           w == Write(<<"int">>) \o <<x>> \o Write(<<"(", ")", "{">>)
<1>1. ASSUME NEW T \in Seq(S) PROVE Spell(Far(T, <<>>), Visit("BeginFunc", "none", x)) = Far(T \o w, <<>>)
  <2> DEFINE far == Far(T, <<>>)
             F == far.tokens \o w
  <2>1. Spell(far, Visit("BeginFunc", "none", x)) = [far EXCEPT !.tokens = far.tokens \o w]
    <3> HIDE DEF far
    <3> QED BY DEF Spell, Visit
  <2>2. far.tokens = T
    BY DEF Far
  <2> HIDE DEF F, w
  <2>3. [far EXCEPT !.tokens = F] = Far(F, <<>>)
    BY FarPut
  <2> QED BY <2>1, <2>2, <2>3 DEF F
<1>2. w = h
  <2>1. Terminal("(") \in S /\ Terminal(")") \in S /\ Terminal("int") \in S /\ Terminal("{") \in S
    BY KnownTerminals DEF Alphabet
  <2>2. w = <<Terminal("int")>> \o <<x>> \o <<Terminal("("), Terminal(")"), Terminal("{")>>
    BY WriteOne, WriteMore, Zenon
  <2>3. <<Terminal("int")>> \o <<x>> = <<Terminal("int"), x>>
    BY <2>1, Pair
  <2>4. <<Terminal("int"), x>> \o <<Terminal("("), Terminal(")"), Terminal("{")>>
        = <<Terminal("int"), x, Terminal("("), Terminal(")"), Terminal("{")>>
    <3> DEFINE a == Terminal("int")
               c == Terminal("(")
               d == Terminal(")")
               e == Terminal("{")
    <3>1. a \in S /\ c \in S /\ d \in S /\ e \in S
      BY <2>1
    <3> HIDE DEF a, c, d, e
    <3>2. <<a, x>> \o <<c, d, e>> = <<a, x, c, d, e>>
      BY <3>1, Quintuple
    <3> QED BY <3>2 DEF a, c, d, e
  <2> QED BY <2>2, <2>3, <2>4, Zenon
<1>3. HeadOf("BeginFunc", x) = h
  BY DEF HeadOf
<1> HIDE DEF h, w
<1> QED BY <1>1, <1>2, <1>3 DEF Opens

LEMMA OpensEndFunc ==
  ASSUME NEW S, Alphabet(S), NEW x
  PROVE  Opens(S, "EndFunc", x)
<1> DEFINE h == <<Terminal("}")>>
           w == Write(<<"}">>)
<1>1. ASSUME NEW T \in Seq(S) PROVE Spell(Far(T, <<>>), Visit("EndFunc", "none", x)) = Far(T \o w, <<>>)
  <2> DEFINE far == Far(T, <<>>)
             F == far.tokens \o w
  <2>1. Spell(far, Visit("EndFunc", "none", x)) = [far EXCEPT !.tokens = far.tokens \o w]
    <3> HIDE DEF far
    <3> QED BY DEF Spell, Visit
  <2>2. far.tokens = T
    BY DEF Far
  <2> HIDE DEF F, w
  <2>3. [far EXCEPT !.tokens = F] = Far(F, <<>>)
    BY FarPut
  <2> QED BY <2>1, <2>2, <2>3 DEF F
<1>2. w = h
  <2>1. Terminal("}") \in S
    BY KnownTerminals DEF Alphabet
  <2>2. w = <<Terminal("}")>>
    BY WriteOne, WriteMore, Zenon
  <2> QED BY <2>2
<1>3. HeadOf("EndFunc", x) = h
  BY DEF HeadOf
<1> HIDE DEF h, w
<1> QED BY <1>1, <1>2, <1>3 DEF Opens

LEMMA OpensEndBlock ==
  ASSUME NEW S, Alphabet(S), NEW x
  PROVE  Opens(S, "EndBlock", x)
<1> DEFINE h == <<Terminal("}")>>
           w == Write(<<"}">>)
<1>1. ASSUME NEW T \in Seq(S) PROVE Spell(Far(T, <<>>), Visit("EndBlock", "none", x)) = Far(T \o w, <<>>)
  <2> DEFINE far == Far(T, <<>>)
             F == far.tokens \o w
  <2>1. Spell(far, Visit("EndBlock", "none", x)) = [far EXCEPT !.tokens = far.tokens \o w]
    <3> HIDE DEF far
    <3> QED BY DEF Spell, Visit
  <2>2. far.tokens = T
    BY DEF Far
  <2> HIDE DEF F, w
  <2>3. [far EXCEPT !.tokens = F] = Far(F, <<>>)
    BY FarPut
  <2> QED BY <2>1, <2>2, <2>3 DEF F
<1>2. w = h
  <2>1. Terminal("}") \in S
    BY KnownTerminals DEF Alphabet
  <2>2. w = <<Terminal("}")>>
    BY WriteOne, WriteMore, Zenon
  <2> QED BY <2>2
<1>3. HeadOf("EndBlock", x) = h
  BY DEF HeadOf
<1> HIDE DEF h, w
<1> QED BY <1>1, <1>2, <1>3 DEF Opens

LEMMA OpensBeginBlock ==
  ASSUME NEW S, Alphabet(S), NEW x
  PROVE  Opens(S, "BeginBlock", x)
<1> DEFINE h == <<Terminal("{")>>
           w == Write(<<"{">>)
<1>1. ASSUME NEW T \in Seq(S) PROVE Spell(Far(T, <<>>), Visit("BeginBlock", "none", x)) = Far(T \o w, <<>>)
  <2> DEFINE far == Far(T, <<>>)
             F == far.tokens \o w
  <2>1. Spell(far, Visit("BeginBlock", "none", x)) = [far EXCEPT !.tokens = far.tokens \o w]
    <3> HIDE DEF far
    <3> QED BY DEF Spell, Visit
  <2>2. far.tokens = T
    BY DEF Far
  <2> HIDE DEF F, w
  <2>3. [far EXCEPT !.tokens = F] = Far(F, <<>>)
    BY FarPut
  <2> QED BY <2>1, <2>2, <2>3 DEF F
<1>2. w = h
  <2>1. Terminal("{") \in S
    BY KnownTerminals DEF Alphabet
  <2>2. w = <<Terminal("{")>>
    BY WriteOne, WriteMore, Zenon
  <2> QED BY <2>2
<1>3. HeadOf("BeginBlock", x) = h
  BY DEF HeadOf
<1> HIDE DEF h, w
<1> QED BY <1>1, <1>2, <1>3 DEF Opens

LEMMA OpensBeginConstDef ==
  ASSUME NEW S, Alphabet(S), NEW x \in S
  PROVE  Opens(S, "BeginConstDef", x)
<1> DEFINE h == <<Terminal("const"), Terminal("int"), x, Terminal("=")>>
           w == Write(<<"const", "int">>) \o <<x>> \o Write(<<"=">>)
<1>1. ASSUME NEW T \in Seq(S) PROVE Spell(Far(T, <<>>), Visit("BeginConstDef", "none", x)) = Far(T \o w, <<>>)
  <2> DEFINE far == Far(T, <<>>)
             F == far.tokens \o w
  <2>1. Spell(far, Visit("BeginConstDef", "none", x)) = [far EXCEPT !.tokens = far.tokens \o w]
    <3> HIDE DEF far
    <3> QED BY DEF Spell, Visit
  <2>2. far.tokens = T
    BY DEF Far
  <2> HIDE DEF F, w
  <2>3. [far EXCEPT !.tokens = F] = Far(F, <<>>)
    BY FarPut
  <2> QED BY <2>1, <2>2, <2>3 DEF F
<1>2. w = h
  <2>1. Terminal("=") \in S /\ Terminal("const") \in S /\ Terminal("int") \in S
    BY KnownTerminals DEF Alphabet
  <2>2. w = <<Terminal("const"), Terminal("int")>> \o <<x>> \o <<Terminal("=")>>
    BY WriteOne, WriteMore, Zenon
  <2>3. <<Terminal("const"), Terminal("int")>> \o <<x>> = <<Terminal("const"), Terminal("int"), x>>
    BY <2>1, Triple
  <2>4. <<Terminal("const"), Terminal("int"), x>> \o <<Terminal("=")>> = <<Terminal("const"), Terminal("int"), x, Terminal("=")>>
    BY <2>1, Quadruple
  <2> QED BY <2>2, <2>3, <2>4, Zenon
<1>3. HeadOf("BeginConstDef", x) = h
  BY DEF HeadOf
<1> HIDE DEF h, w
<1> QED BY <1>1, <1>2, <1>3 DEF Opens

LEMMA OpensBeginVarDef ==
  ASSUME NEW S, Alphabet(S), NEW x \in S
  PROVE  Opens(S, "BeginVarDef", x)
<1> DEFINE h == <<Terminal("int"), x, Terminal("=")>>
           w == Write(<<"int">>) \o <<x>> \o Write(<<"=">>)
<1>1. ASSUME NEW T \in Seq(S) PROVE Spell(Far(T, <<>>), Visit("BeginVarDef", "none", x)) = Far(T \o w, <<>>)
  <2> DEFINE far == Far(T, <<>>)
             F == far.tokens \o w
  <2>1. Spell(far, Visit("BeginVarDef", "none", x)) = [far EXCEPT !.tokens = far.tokens \o w]
    <3> HIDE DEF far
    <3> QED BY DEF Spell, Visit
  <2>2. far.tokens = T
    BY DEF Far
  <2> HIDE DEF F, w
  <2>3. [far EXCEPT !.tokens = F] = Far(F, <<>>)
    BY FarPut
  <2> QED BY <2>1, <2>2, <2>3 DEF F
<1>2. w = h
  <2>1. Terminal("=") \in S /\ Terminal("int") \in S
    BY KnownTerminals DEF Alphabet
  <2>2. w = <<Terminal("int")>> \o <<x>> \o <<Terminal("=")>>
    BY WriteOne, WriteMore, Zenon
  <2>3. <<Terminal("int")>> \o <<x>> = <<Terminal("int"), x>>
    BY <2>1, Pair
  <2>4. <<Terminal("int"), x>> \o <<Terminal("=")>> = <<Terminal("int"), x, Terminal("=")>>
    BY <2>1, Triple
  <2> QED BY <2>2, <2>3, <2>4, Zenon
<1>3. HeadOf("BeginVarDef", x) = h
  BY DEF HeadOf
<1> HIDE DEF h, w
<1> QED BY <1>1, <1>2, <1>3 DEF Opens

LEMMA OpensVarDefOnly ==
  ASSUME NEW S, Alphabet(S), NEW x \in S
  PROVE  Opens(S, "VarDefOnly", x)
<1> DEFINE h == <<Terminal("int"), x, Terminal(";")>>
           w == Write(<<"int">>) \o <<x>> \o Write(<<";">>)
<1>1. ASSUME NEW T \in Seq(S) PROVE Spell(Far(T, <<>>), Visit("VarDefOnly", "none", x)) = Far(T \o w, <<>>)
  <2> DEFINE far == Far(T, <<>>)
             F == far.tokens \o w
  <2>1. Spell(far, Visit("VarDefOnly", "none", x)) = [far EXCEPT !.tokens = far.tokens \o w]
    <3> HIDE DEF far
    <3> QED BY DEF Spell, Visit
  <2>2. far.tokens = T
    BY DEF Far
  <2> HIDE DEF F, w
  <2>3. [far EXCEPT !.tokens = F] = Far(F, <<>>)
    BY FarPut
  <2> QED BY <2>1, <2>2, <2>3 DEF F
<1>2. w = h
  <2>1. Terminal(";") \in S /\ Terminal("int") \in S
    BY KnownTerminals DEF Alphabet
  <2>2. w = <<Terminal("int")>> \o <<x>> \o <<Terminal(";")>>
    BY WriteOne, WriteMore, Zenon
  <2>3. <<Terminal("int")>> \o <<x>> = <<Terminal("int"), x>>
    BY <2>1, Pair
  <2>4. <<Terminal("int"), x>> \o <<Terminal(";")>> = <<Terminal("int"), x, Terminal(";")>>
    BY <2>1, Triple
  <2> QED BY <2>2, <2>3, <2>4, Zenon
<1>3. HeadOf("VarDefOnly", x) = h
  BY DEF HeadOf
<1> HIDE DEF h, w
<1> QED BY <1>1, <1>2, <1>3 DEF Opens

LEMMA OpensBeginAssign ==
  ASSUME NEW S, Alphabet(S), NEW x \in S
  PROVE  Opens(S, "BeginAssign", x)
<1> DEFINE h == <<x, Terminal("=")>>
           w == <<x>> \o Write(<<"=">>)
<1>1. ASSUME NEW T \in Seq(S) PROVE Spell(Far(T, <<>>), Visit("BeginAssign", "none", x)) = Far(T \o w, <<>>)
  <2> DEFINE far == Far(T, <<>>)
             F == far.tokens \o w
  <2>1. Spell(far, Visit("BeginAssign", "none", x)) = [far EXCEPT !.tokens = far.tokens \o w]
    <3> HIDE DEF far
    <3> QED BY DEF Spell, Visit
  <2>2. far.tokens = T
    BY DEF Far
  <2> HIDE DEF F, w
  <2>3. [far EXCEPT !.tokens = F] = Far(F, <<>>)
    BY FarPut
  <2> QED BY <2>1, <2>2, <2>3 DEF F
<1>2. w = h
  <2>1. Terminal("=") \in S
    BY KnownTerminals DEF Alphabet
  <2>2. w = <<x>> \o <<Terminal("=")>>
    BY WriteOne, WriteMore, Zenon
  <2>3. <<x>> \o <<Terminal("=")>> = <<x, Terminal("=")>>
    BY <2>1, Pair
  <2> QED BY <2>2, <2>3
<1>3. HeadOf("BeginAssign", x) = h
  BY DEF HeadOf
<1> HIDE DEF h, w
<1> QED BY <1>1, <1>2, <1>3 DEF Opens

LEMMA OpensBeginReturn ==
  ASSUME NEW S, Alphabet(S), NEW x
  PROVE  Opens(S, "BeginReturn", x)
<1> DEFINE h == <<Terminal("return")>>
           w == Write(<<"return">>)
<1>1. ASSUME NEW T \in Seq(S) PROVE Spell(Far(T, <<>>), Visit("BeginReturn", "none", x)) = Far(T \o w, <<>>)
  <2> DEFINE far == Far(T, <<>>)
             F == far.tokens \o w
  <2>1. Spell(far, Visit("BeginReturn", "none", x)) = [far EXCEPT !.tokens = far.tokens \o w]
    <3> HIDE DEF far
    <3> QED BY DEF Spell, Visit
  <2>2. far.tokens = T
    BY DEF Far
  <2> HIDE DEF F, w
  <2>3. [far EXCEPT !.tokens = F] = Far(F, <<>>)
    BY FarPut
  <2> QED BY <2>1, <2>2, <2>3 DEF F
<1>2. w = h
  <2>1. Terminal("return") \in S
    BY KnownTerminals DEF Alphabet
  <2>2. w = <<Terminal("return")>>
    BY WriteOne, WriteMore, Zenon
  <2> QED BY <2>2
<1>3. HeadOf("BeginReturn", x) = h
  BY DEF HeadOf
<1> HIDE DEF h, w
<1> QED BY <1>1, <1>2, <1>3 DEF Opens

LEMMA OpensBeginRaw ==
  ASSUME NEW S, NEW x
  PROVE  Opens(S, "BeginRaw", x)
<1>1. ASSUME NEW T \in Seq(S)
      PROVE  Spell(Far(T, <<>>), Visit("BeginRaw", "none", x)) = Far(T \o <<>>, <<>>)
  <2> DEFINE far == Far(T, <<>>)
  <2>1. Spell(far, Visit("BeginRaw", "none", x)) = far
    <3> HIDE DEF far
    <3> QED BY DEF Spell, Visit
  <2>2. T \o <<>> = T
    BY ConcatEmptySeq
  <2> QED BY <2>1, <2>2
<1>2. HeadOf("BeginRaw", x) = <<>>
  BY DEF HeadOf
<1> QED BY <1>1, <1>2 DEF Opens

\* The visits v write the tokens s.
Puts(S, v, s) == \A T \in Seq(S) : Run(Far(T, <<>>), v) = Far(T \o s, <<>>)

Enders == {"EndConstDef", "EndVarDef", "EndAssign", "EndReturn", "EndRawExp"}
Semicolon == <<Terminal(";")>>

LEMMA Closes ==
  ASSUME NEW T, NEW e, NEW handler \in Enders
  PROVE  Spell(Far(T, <<e>>), Visit(handler, "none", NoToken)) = Far((T \o e) \o Semicolon, <<>>)
<1> DEFINE far == Far(T, <<e>>)
<1>1. Spell(far, Visit(handler, "none", NoToken))
        = [tokens |-> far.tokens \o far.exps[1] \o Write(<<";">>), exps |-> <<>>]
  <2> HIDE DEF far
  <2> QED BY DEF Spell, Visit, Enders
<1>2. far.tokens = T /\ far.exps[1] = e
  BY DEF Far
<1>3. Write(<<";">>) = Semicolon
  BY WriteOne DEF Semicolon
<1> HIDE DEF far
<1>4. Spell(far, Visit(handler, "none", NoToken)) = [tokens |-> (T \o e) \o Semicolon, exps |-> <<>>]
  BY <1>1, <1>2, <1>3
<1> QED BY <1>4 DEF far, Far

LEMMA OneEnd ==
  \A end \in Enders : end \in Handlers
  BY DEF Enders, Handlers
LEMMA NoneIn ==
  ASSUME NEW S PROVE <<>> \in Seq(S)
  OBVIOUS
LEMMA OneIn ==
  ASSUME NEW S, NEW e \in S PROVE <<e>> \in Seq(S) /\ Append(<<>>, e) = <<e>>
  OBVIOUS

\* The handlers begin and end are called around the visits w.
RunsAround(S, far, begin, x, w, end) ==
  /\ Run(far, Framed(begin, x, w, end))
       = Spell(Run(Spell(far, Visit(begin, "none", x)), w), Visit(end, "none", NoToken))
  /\ Framed(begin, x, w, end) \in Seq(VisitsOver(S))

LEMMA RunFramed ==
  ASSUME NEW S, NEW far, NEW begin \in Handlers, NEW x \in S \cup {NoToken}, NEW w \in Seq(VisitsOver(S)),
         NEW end \in Handlers
  PROVE  RunsAround(S, far, begin, x, w, end)
<1> DEFINE a == Mark(begin, x)
           b == Mark(end, NoToken)
           c == a \o w
<1>1. a \in Seq(VisitsOver(S)) /\ b \in Seq(VisitsOver(S))
  <2>1. "none" \in Operators
    BY DEF Operators
  <2> QED BY <2>1, VisitIn DEF Mark
<1>2. Run(far, a) = Spell(far, Visit(begin, "none", x))
  BY RunOne DEF Mark
<1>3. \A f : Run(f, b) = Spell(f, Visit(end, "none", NoToken))
  BY RunOne DEF Mark
<1>4. Framed(begin, x, w, end) = c \o b
  BY DEF Framed
<1> HIDE DEF a, b
<1>5. c \in Seq(VisitsOver(S)) /\ Run(far, c) = Run(Run(far, a), w)
  BY <1>1, RunConcat, ConcatProperties
<1> HIDE DEF c
<1>6. Run(far, c \o b) = Run(Run(far, c), b) /\ c \o b \in Seq(VisitsOver(S))
  BY <1>1, <1>5, RunConcat, ConcatProperties
<1> QED BY <1>2, <1>3, <1>4, <1>5, <1>6 DEF RunsAround

Regrouped(T, h, e, m) == ((T \o h) \o e) \o m = T \o ((h \o e) \o m)
LEMMA Associated ==
  ASSUME NEW S, NEW T \in Seq(S), NEW h \in Seq(S), NEW e \in Seq(S), NEW m \in Seq(S)
  PROVE  Regrouped(T, h, e, m)
<1> DEFINE g == h \o e
<1>1. (T \o h) \o e = T \o g /\ g \in Seq(S)
  BY ConcatAssociative, ConcatProperties
<1> HIDE DEF g
<1>2. (T \o g) \o m = T \o (g \o m)
  BY <1>1, ConcatAssociative
<1> QED BY <1>1, <1>2 DEF g, Regrouped

\* A definition or statement around an expression, and one around statements.
LEMMA PutsExp ==
  ASSUME NEW S, Terminal(";") \in S, NEW begin \in Handlers, NEW x \in S \cup {NoToken}, Opens(S, begin, x),
         HeadOf(begin, x) \in Seq(S), NEW w \in Seq(VisitsOver(S)), NEW e \in Seq(S), Pushes(S, w, e),
         NEW end \in Enders
  PROVE  Puts(S, Framed(begin, x, w, end), (HeadOf(begin, x) \o e) \o Semicolon)
<1> DEFINE h == HeadOf(begin, x)
<1>1. ASSUME NEW T \in Seq(S)
      PROVE  Run(Far(T, <<>>), Framed(begin, x, w, end)) = Far(T \o ((h \o e) \o Semicolon), <<>>)
  <2>1. end \in Handlers /\ Semicolon \in Seq(S)
    BY OneEnd, OneIn DEF Semicolon
  <2>2. Run(Far(T, <<>>), Framed(begin, x, w, end))
          = Spell(Run(Spell(Far(T, <<>>), Visit(begin, "none", x)), w), Visit(end, "none", NoToken))
    <3>1. RunsAround(S, Far(T, <<>>), begin, x, w, end)
      BY <2>1, RunFramed
    <3> QED BY <3>1 DEF RunsAround
  <2>3. Spell(Far(T, <<>>), Visit(begin, "none", x)) = Far(T \o h, <<>>)
    BY DEF Opens
  <2>0. h \in Seq(S)
    OBVIOUS
  <2>4. T \o h \in Seq(S) /\ <<>> \in Seq(Seq(S))
    <3>1. T \o h \in Seq(S)
      <4> HIDE DEF h
      <4> QED BY ConcatProperties DEF h
    <3>2. <<>> \in Seq(Seq(S))
      BY NoneIn
    <3> QED BY <3>1, <3>2
  <2> HIDE DEF h
  <2>5. Run(Far(T \o h, <<>>), w) = Far(T \o h, Append(<<>>, e))
    BY <2>4 DEF Pushes
  <2>6. Append(<<>>, e) = <<e>>
    BY OneIn
  <2>7. Spell(Far(T \o h, <<e>>), Visit(end, "none", NoToken)) = Far(((T \o h) \o e) \o Semicolon, <<>>)
    BY Closes
  <2>8. ((T \o h) \o e) \o Semicolon = T \o ((h \o e) \o Semicolon)
    <3>1. Regrouped(T, h, e, Semicolon)
      BY <2>1, <2>0, Associated
    <3> QED BY <3>1 DEF Regrouped
  <2> QED BY <2>2, <2>3, <2>5, <2>6, <2>7, <2>8
<1> QED BY <1>1 DEF Puts

LEMMA PutsItems ==
  ASSUME NEW S, NEW begin \in Handlers, NEW x \in S \cup {NoToken}, Opens(S, begin, x),
         HeadOf(begin, x) \in Seq(S), NEW w \in Seq(VisitsOver(S)), NEW e \in Seq(S), Puts(S, w, e),
         NEW end \in Handlers, Opens(S, end, NoToken), HeadOf(end, NoToken) \in Seq(S)
  PROVE  Puts(S, Framed(begin, x, w, end), (HeadOf(begin, x) \o e) \o HeadOf(end, NoToken))
<1> DEFINE h == HeadOf(begin, x)
           r == HeadOf(end, NoToken)
<1>1. ASSUME NEW T \in Seq(S)
      PROVE  Run(Far(T, <<>>), Framed(begin, x, w, end)) = Far(T \o ((h \o e) \o r), <<>>)
  <2>2. Run(Far(T, <<>>), Framed(begin, x, w, end))
          = Spell(Run(Spell(Far(T, <<>>), Visit(begin, "none", x)), w), Visit(end, "none", NoToken))
    <3>1. RunsAround(S, Far(T, <<>>), begin, x, w, end)
      BY RunFramed
    <3> QED BY <3>1 DEF RunsAround
  <2>3. Spell(Far(T, <<>>), Visit(begin, "none", x)) = Far(T \o h, <<>>)
    BY DEF Opens
  <2>0. h \in Seq(S) /\ r \in Seq(S)
    OBVIOUS
  <2>9. \A f \in Seq(S) : Spell(Far(f, <<>>), Visit(end, "none", NoToken)) = Far(f \o r, <<>>)
    BY DEF Opens
  <2> HIDE DEF h, r
  <2> DEFINE g == T \o h
             k == g \o e
  <2>4. g \in Seq(S)
    BY <2>0, ConcatProperties
  <2>5. Run(Far(g, <<>>), w) = Far(k, <<>>)
    <3> HIDE DEF g
    <3> QED BY <2>4 DEF Puts
  <2>6. k \in Seq(S)
    <3> HIDE DEF g
    <3> QED BY <2>4, ConcatProperties
  <2>7. Spell(Far(k, <<>>), Visit(end, "none", NoToken)) = Far(k \o r, <<>>)
    BY <2>6, <2>9
  <2>8. ((T \o h) \o e) \o r = T \o ((h \o e) \o r)
    <3>1. Regrouped(T, h, e, r)
      BY <2>0, Associated
    <3> QED BY <3>1 DEF Regrouped
  <2> QED BY <2>2, <2>3, <2>5, <2>7, <2>8
<1> QED BY <1>1 DEF Puts

-----------------------------------------------------------------------------
(* Lists of items, read back.                                              *)

ItemOf(L) == IF L = "CompUnit" THEN "FuncDef" ELSE "BlockItem"
EndsOf(L) == IF L = "CompUnit" THEN {"}"} ELSE {";", "}"}

\* What stands before a list, and what is an item, wherever it occurs.
Prepends(S, L, e, v, D, u, p, q, y) ==
  /\ q \in 0 .. Len(u) /\ p + Len(e) <= q /\ y \in Seq(VisitsOver(S))
  /\ In(D, L, (p + Len(e)) + 1, q, y)
  => In(D, L, p + 1, q, v \o y)
FitsList(S, L, e, v) ==
  \A D, X, u, p, q, y : Parses(D, X, u) /\ Occurs(e, u, p) => Prepends(S, L, e, v, D, u, p, q, y)
FitsItem(L, e, v) ==
  \A D, X, u, p : Parses(D, X, u) /\ Occurs(e, u, p) =>
    In(D, ItemOf(L), p + 1, p + Len(e), v) /\ Is(u, p + Len(e), EndsOf(L)) /\ Len(e) \in Nat \ {0}

\* The visits v of items with the words s can be written and read back.
ReadBack(S, L, s, v) ==
  /\ v \in Seq(VisitsOver(S))
  /\ \E e \in Seq(S) : Puts(S, v, e) /\ Words(e) = s /\ FitsList(S, L, e, v)

LEMMA ItemsIs ==
  ASSUME NEW L \in {"CompUnit", "BlockItems"},
         NEW D, NEW X, NEW t, Parses(D, X, t), NEW i \in 1 .. Len(t) + 1, NEW j \in 0 .. Len(t), NEW v
  PROVE  In(D, L, i, j, v) <=> Listed(D, t, L, ItemOf(L), EndsOf(L), i, j, v)
<1>1. CASE L = "CompUnit"
  <2>1. ItemOf(L) = "FuncDef" /\ EndsOf(L) = {"}"}
    BY <1>1 DEF ItemOf, EndsOf
  <2>2. In(D, "CompUnit", i, j, v) <=> Listed(D, t, "CompUnit", "FuncDef", {"}"}, i, j, v)
    BY CompUnitIs
  <2> QED BY <1>1, <2>1, <2>2
<1>2. CASE L = "BlockItems"
  <2>1. ItemOf(L) = "BlockItem" /\ EndsOf(L) = {";", "}"}
    BY <1>2 DEF ItemOf, EndsOf
  <2>2. In(D, "BlockItems", i, j, v) <=> Listed(D, t, "BlockItems", "BlockItem", {";", "}"}, i, j, v)
    BY BlockItemsIs
  <2> QED BY <1>2, <2>1, <2>2
<1> QED BY <1>1, <1>2

LEMMA PlaceOf ==
  ASSUME NEW D, NEW X, NEW u, Parses(D, X, u), NEW e, NEW p, Occurs(e, u, p)
  PROVE  /\ TextOf(u) /\ p \in Nat /\ Len(e) \in Nat /\ Len(u) \in Nat
         /\ p + 1 \in 1 .. Len(u) + 1 /\ p + Len(e) \in 0 .. Len(u)
         /\ (p + Len(e)) + 1 \in 1 .. Len(u) + 1 /\ p + Len(e) <= Len(u)
<1>1. TextOf(u)
  BY DEF Parses, TextOf
<1> QED BY <1>1, OccursPlaces

LEMMA ItemFits ==
  ASSUME NEW S, NEW L \in {"CompUnit", "BlockItems"}, NEW e, NEW v, FitsItem(L, e, v)
  PROVE  FitsList(S, L, e, v)
<1> SUFFICES ASSUME NEW D, NEW X, NEW u, NEW p, NEW q, NEW y, Parses(D, X, u), Occurs(e, u, p),
                    q \in 0 .. Len(u), p + Len(e) <= q, In(D, L, (p + Len(e)) + 1, q, y)
             PROVE  In(D, L, p + 1, q, v \o y)
  BY DEF FitsList, Prepends
<1> DEFINE k == p + Len(e)
           i == p + 1
<1>1. k \in Int /\ i \in 1 .. Len(u) + 1 /\ p \in Nat /\ Len(e) \in Nat /\ Len(u) \in Nat
  BY PlaceOf
<1>2. In(D, ItemOf(L), i, k, v) /\ Is(u, k, EndsOf(L)) /\ Len(e) \in Nat \ {0}
  BY DEF FitsItem
<1>3. k \in i .. q /\ In(D, L, k + 1, q, y)
  BY <1>1, <1>2
<1> HIDE DEF k, i
<1>4. Listed(D, u, L, ItemOf(L), EndsOf(L), i, q, v \o y)
  BY <1>2, <1>3 DEF Listed
<1>5. In(D, L, i, q, v \o y)
  BY <1>1, <1>4, ItemsIs
<1> QED BY <1>5 DEF i

LEMMA NothingFits ==
  ASSUME NEW S, NEW L PROVE FitsList(S, L, <<>>, <<>>)
<1> SUFFICES ASSUME NEW D, NEW X, NEW u, NEW p, NEW q, NEW y, Parses(D, X, u), Occurs(<<>>, u, p),
                    y \in Seq(VisitsOver(S)), In(D, L, (p + Len(<<>>)) + 1, q, y)
             PROVE  In(D, L, p + 1, q, <<>> \o y)
  BY DEF FitsList, Prepends
<1>1. <<>> \o y = y
  BY ConcatEmptySeq
<1>2. p \in Nat /\ Len(<<>>) = 0
  BY DEF Occurs
<1>3. p + Len(<<>>) = p
  BY <1>2
<1> QED BY <1>1, <1>3

LEMMA BothFit ==
  ASSUME NEW S, NEW L, NEW a \in Seq(S), NEW b \in Seq(S), NEW x \in Seq(VisitsOver(S)), NEW y \in Seq(VisitsOver(S)),
         FitsList(S, L, a, x), FitsList(S, L, b, y)
  PROVE  FitsList(S, L, a \o b, x \o y)
<1> SUFFICES ASSUME NEW D, NEW X, NEW u, NEW p, NEW q, NEW z, Parses(D, X, u), Occurs(a \o b, u, p),
                    q \in 0 .. Len(u), p + Len(a \o b) <= q, z \in Seq(VisitsOver(S)),
                    In(D, L, (p + Len(a \o b)) + 1, q, z)
             PROVE  In(D, L, p + 1, q, (x \o y) \o z)
  BY DEF FitsList, Prepends
<1> DEFINE c == a \o b
           w == y \o z
           k == p + Len(a)
<1>1. TextOf(u)
  BY DEF Parses, TextOf
<1>2. Occurs(a, u, p) /\ Occurs(b, u, k) /\ p + Len(c) = k + Len(b)
  <2>1. Parts(a, b, u, p)
    BY <1>1, OccursParts
  <2> QED BY <2>1 DEF Parts
<1>3. p \in Nat /\ Len(a) \in Nat /\ Len(b) \in Nat
  <2>1. Occurs(a, u, p) /\ Occurs(b, u, k)
    BY <1>2
  <2> HIDE DEF k
  <2> QED BY <2>1 DEF Occurs
<1>4. k \in Nat /\ k + Len(b) <= q /\ k <= q /\ In(D, L, (k + Len(b)) + 1, q, z)
  <2> HIDE DEF c
  <2>1. p + Len(c) <= q /\ In(D, L, (p + Len(c)) + 1, q, z)
    BY DEF c
  <2> QED BY <1>2, <1>3, <2>1
<1>5. w \in Seq(VisitsOver(S))
  BY ConcatProperties
<1> HIDE DEF c, w
<1>6. In(D, L, k + 1, q, w)
  <2>1. Occurs(b, u, k)
    BY <1>2
  <2> HIDE DEF k
  <2>2. Prepends(S, L, b, y, D, u, k, q, z)
    BY <2>1 DEF FitsList
  <2> QED BY <1>4, <2>2 DEF Prepends, w
<1>7. In(D, L, p + 1, q, x \o w)
  <2>1. Prepends(S, L, a, x, D, u, p, q, w)
    BY <1>2 DEF FitsList
  <2> QED BY <1>4, <1>5, <1>6, <2>1 DEF Prepends
<1>8. (x \o y) \o z = x \o w
  BY ConcatAssociative DEF w
<1> QED BY <1>7, <1>8

LEMMA BackNothing ==
  ASSUME NEW S, NEW L PROVE ReadBack(S, L, <<>>, <<>>)
<1> DEFINE e == <<>>
           v == <<>>
<1>1. v \in Seq(VisitsOver(S)) /\ e \in Seq(S)
  BY NoneIn
<1>2. Puts(S, v, e)
  <2>1. ASSUME NEW T \in Seq(S) PROVE Run(Far(T, <<>>), <<>>) = Far(T \o <<>>, <<>>)
    BY RunNothing, ConcatEmptySeq
  <2> QED BY <2>1 DEF Puts
<1>3. Words(e) = <<>> /\ FitsList(S, L, e, v)
  BY WordsNothing, NothingFits
<1> HIDE DEF e, v
<1>4. ReadBack(S, L, <<>>, v)
  BY <1>1, <1>2, <1>3 DEF ReadBack
<1> QED BY <1>4 DEF v

LEMMA BackBoth ==
  ASSUME NEW S, NEW L, NEW s, NEW r, NEW x, NEW y, ReadBack(S, L, s, x), ReadBack(S, L, r, y)
  PROVE  ReadBack(S, L, s \o r, x \o y)
<1>1. PICK a \in Seq(S) : Puts(S, x, a) /\ Words(a) = s /\ FitsList(S, L, a, x)
  BY DEF ReadBack
<1>2. PICK b \in Seq(S) : Puts(S, y, b) /\ Words(b) = r /\ FitsList(S, L, b, y)
  BY DEF ReadBack
<1>3. x \in Seq(VisitsOver(S)) /\ y \in Seq(VisitsOver(S))
  BY DEF ReadBack
<1> DEFINE e == a \o b
           v == x \o y
<1>4. e \in Seq(S) /\ v \in Seq(VisitsOver(S))
  BY <1>3, ConcatProperties
<1>5. Words(e) = s \o r
  BY <1>1, <1>2, WordsConcat
<1>6. FitsList(S, L, e, v)
  BY <1>1, <1>2, <1>3, BothFit
<1>7. Puts(S, v, e)
  <2>1. ASSUME NEW T \in Seq(S) PROVE Run(Far(T, <<>>), v) = Far(T \o e, <<>>)
    <3> DEFINE F == T \o a
    <3>1. Run(Far(T, <<>>), x) = Far(F, <<>>)
      BY <1>1 DEF Puts
    <3>2. F \in Seq(S)
      BY ConcatProperties
    <3>3. Run(Far(T, <<>>), x \o y) = Run(Run(Far(T, <<>>), x), y)
      BY <1>3, RunConcat
    <3>4. F \o b = T \o (a \o b)
      BY ConcatAssociative
    <3> HIDE DEF F
    <3>5. Run(Far(F, <<>>), y) = Far(F \o b, <<>>)
      BY <1>2, <3>2 DEF Puts
    <3> QED BY <3>1, <3>3, <3>4, <3>5
  <2> QED BY <2>1 DEF Puts
<1> HIDE DEF e, v
<1>8. ReadBack(S, L, s \o r, v)
  BY <1>4, <1>5, <1>6, <1>7 DEF ReadBack
<1> QED BY <1>8 DEF v

LEMMA BackItem ==
  ASSUME NEW S, NEW L \in {"CompUnit", "BlockItems"}, NEW v \in Seq(VisitsOver(S)), NEW e \in Seq(S),
         Puts(S, v, e), FitsItem(L, e, v)
  PROVE  ReadBack(S, L, Words(e), v)
  BY ItemFits DEF ReadBack

-----------------------------------------------------------------------------
(* Items around an expression, read back.                                  *)

\* A text has x at k.
Has(u, k, x) == u[k] = x /\ \A K : Is(u, k, K) <=> x.kind \in K

LEMMA OccursAt ==
  ASSUME NEW u, TextOf(u), NEW s, NEW p, Occurs(s, u, p), NEW k \in 1 .. Len(s)
  PROVE  Has(u, p + k, s[k])
  BY OccursIs DEF Has

LEMMA Occurs2 ==
  ASSUME NEW u, TextOf(u), NEW p, NEW a, NEW b, Occurs(<<a, b>>, u, p)
  PROVE  Has(u, p + 1, a) /\ Has(u, p + 2, b)
<1> DEFINE s == <<a, b>>
<1>1. Len(s) = 2 /\ s[1] = a /\ s[2] = b
  OBVIOUS
<1>2. Occurs(s, u, p)
  OBVIOUS
<1> HIDE DEF s
<1>3. ASSUME NEW k \in 1 .. 2 PROVE Has(u, p + k, s[k])
  BY <1>1, <1>2, <1>3, OccursAt
<1>4. Has(u, p + 1, s[1])
  BY <1>3
<1>5. Has(u, p + 2, s[2])
  BY <1>3
<1> QED BY <1>1, <1>4, <1>5

LEMMA Occurs3 ==
  ASSUME NEW u, TextOf(u), NEW p, NEW a, NEW b, NEW c, Occurs(<<a, b, c>>, u, p)
  PROVE  Has(u, p + 1, a) /\ Has(u, p + 2, b) /\ Has(u, p + 3, c)
<1> DEFINE s == <<a, b, c>>
<1>1. Len(s) = 3 /\ s[1] = a /\ s[2] = b /\ s[3] = c
  OBVIOUS
<1>2. Occurs(s, u, p)
  OBVIOUS
<1> HIDE DEF s
<1>3. ASSUME NEW k \in 1 .. 3 PROVE Has(u, p + k, s[k])
  BY <1>1, <1>2, <1>3, OccursAt
<1>4. Has(u, p + 1, s[1])
  BY <1>3
<1>5. Has(u, p + 2, s[2])
  BY <1>3
<1>6. Has(u, p + 3, s[3])
  BY <1>3
<1> QED BY <1>1, <1>4, <1>5, <1>6

LEMMA Occurs4 ==
  ASSUME NEW u, TextOf(u), NEW p, NEW a, NEW b, NEW c, NEW d, Occurs(<<a, b, c, d>>, u, p)
  PROVE  Has(u, p + 1, a) /\ Has(u, p + 2, b) /\ Has(u, p + 3, c) /\ Has(u, p + 4, d)
<1> DEFINE s == <<a, b, c, d>>
<1>1. Len(s) = 4 /\ s[1] = a /\ s[2] = b /\ s[3] = c /\ s[4] = d
  OBVIOUS
<1>2. Occurs(s, u, p)
  OBVIOUS
<1> HIDE DEF s
<1>3. ASSUME NEW k \in 1 .. 4 PROVE Has(u, p + k, s[k])
  BY <1>1, <1>2, <1>3, OccursAt
<1>4. Has(u, p + 1, s[1])
  BY <1>3
<1>5. Has(u, p + 2, s[2])
  BY <1>3
<1>6. Has(u, p + 3, s[3])
  BY <1>3
<1>7. Has(u, p + 4, s[4])
  BY <1>3
<1> QED BY <1>1, <1>4, <1>5, <1>6, <1>7

LEMMA Occurs5 ==
  ASSUME NEW u, TextOf(u), NEW p, NEW a, NEW b, NEW c, NEW d, NEW e, Occurs(<<a, b, c, d, e>>, u, p)
  PROVE  Has(u, p + 1, a) /\ Has(u, p + 2, b) /\ Has(u, p + 3, c) /\ Has(u, p + 4, d) /\ Has(u, p + 5, e)
<1> DEFINE s == <<a, b, c, d, e>>
<1>1. Len(s) = 5 /\ s[1] = a /\ s[2] = b /\ s[3] = c /\ s[4] = d /\ s[5] = e
  OBVIOUS
<1>2. Occurs(s, u, p)
  OBVIOUS
<1> HIDE DEF s
<1>3. ASSUME NEW k \in 1 .. 5 PROVE Has(u, p + k, s[k])
  BY <1>1, <1>2, <1>3, OccursAt
<1>4. Has(u, p + 1, s[1])
  BY <1>3
<1>5. Has(u, p + 2, s[2])
  BY <1>3
<1>6. Has(u, p + 3, s[3])
  BY <1>3
<1>7. Has(u, p + 4, s[4])
  BY <1>3
<1>8. Has(u, p + 5, s[5])
  BY <1>3
<1> QED BY <1>1, <1>4, <1>5, <1>6, <1>7, <1>8

\* The tokens h, an expression and a semicolon.
Around(h, w, X, u, p, q) ==
  /\ TextOf(u) /\ Occurs(h, u, p) /\ p \in Nat /\ Len(h) \in Nat /\ Len(u) \in Nat
  /\ q \in 1 .. Len(u) /\ (p + Len(h)) + 1 <= q - 1
  /\ Is(u, q, {";"}) /\ In(X, "Exp", (p + Len(h)) + 1, q - 1, w)
Makes(h, w, v) ==
  \A D, X, u, p, q : Parses(D, X, u) /\ Around(h, w, X, u, p, q) => In(D, "BlockItem", p + 1, q, v)

EndsAfter(a, n, b, r) == r - 1 = a + n /\ a + 1 <= r - 1 /\ b \in Nat
LEMMA EndAfter ==
  ASSUME NEW a \in Nat, NEW n \in Nat \ {0}, NEW b, NEW r, b = a + n, r = b + 1
  PROVE  EndsAfter(a, n, b, r)
  BY DEF EndsAfter
LEMMA NotNone ==
  ASSUME NEW p \in Nat, NEW n \in Nat, NEW m \in Nat, (p + n) + 1 <= (p + m) - 1
  PROVE  m # 0
  OBVIOUS
LEMMA SumNat ==
  ASSUME NEW a \in Nat, NEW b \in Nat PROVE a + b \in Nat
  OBVIOUS

LEMMA ExpPlaced ==
  ASSUME NEW S, NEW h \in Seq(S), NEW e \in Seq(S), Terminal(";") \in S, NEW w, Fits("PrimaryExp", e, w),
         NEW D, NEW X, NEW u, Parses(D, X, u), NEW p, Occurs((h \o e) \o Semicolon, u, p)
  PROVE  Around(h, w, X, u, p, p + Len((h \o e) \o Semicolon))
<1> DEFINE m == Semicolon
           g == h \o e
           c == g \o m
           q == p + Len(c)
<1>0. TextOf(u) /\ Derives(X, u)
  BY DEF Parses, TextOf
<1>1. m \in Seq(S) /\ g \in Seq(S) /\ Len(m) = 1
  <2>1. m \in Seq(S)
    BY OneIn DEF Semicolon
  <2>2. Len(m) = 1
    BY DEF Semicolon
  <2>3. g \in Seq(S)
    BY ConcatProperties
  <2> QED BY <2>1, <2>2, <2>3
<1>2. Occurs(g, u, p) /\ Occurs(m, u, p + Len(g)) /\ q = (p + Len(g)) + Len(m)
  <2> HIDE DEF g, m
  <2>0. Occurs(c, u, p)
    BY DEF g, m
  <2>1. Parts(g, m, u, p)
    BY <1>0, <1>1, <2>0, OccursParts
  <2> QED BY <2>1 DEF Parts
<1>3. Occurs(h, u, p) /\ Occurs(e, u, p + Len(h)) /\ p + Len(g) = (p + Len(h)) + Len(e)
  <2>1. Parts(h, e, u, p)
    BY <1>0, <1>2, OccursParts
  <2> QED BY <2>1 DEF Parts
<1>4. In(X, "Exp", (p + Len(h)) + 1, (p + Len(h)) + Len(e), w) /\ Len(e) \in Nat \ {0}
  <2>1. Fits("Exp", e, w) /\ "Exp" \in ExpNonTerminals
    BY FitsUp, RankFacts
  <2> QED BY <1>0, <1>3, <2>1, FitsSome
<1>5. Has(u, (p + Len(g)) + 1, Terminal(";"))
  BY <1>0, <1>2, OccursOne DEF Has, Semicolon
<1>6. p \in Nat /\ Len(h) \in Nat /\ Len(u) \in Nat
  BY <1>0, <1>3 DEF Occurs, TextOf
<1> HIDE DEF c, g, m
<1>7. q = (p + Len(g)) + 1 /\ q - 1 = (p + Len(h)) + Len(e) /\ (p + Len(h)) + 1 <= q - 1 /\ p + Len(g) \in Nat
  <2>1. p + Len(h) \in Nat
    BY <1>6, SumNat
  <2>2. Len(e) \in Nat \ {0}
    BY <1>4
  <2>3. p + Len(g) = (p + Len(h)) + Len(e)
    BY <1>3
  <2>4. q = (p + Len(g)) + 1
    BY <1>1, <1>2
  <2> HIDE DEF q
  <2>5. q - 1 = (p + Len(h)) + Len(e) /\ (p + Len(h)) + 1 <= q - 1 /\ p + Len(g) \in Nat
    <3>1. EndsAfter(p + Len(h), Len(e), p + Len(g), q)
      BY <2>1, <2>2, <2>3, <2>4, EndAfter
    <3> QED BY <3>1 DEF EndsAfter
  <2> QED BY <2>4, <2>5
<1>8. Is(u, q, {";"})
  BY <1>5, <1>7, TerminalKind DEF Has
<1>9. q \in 1 .. Len(u)
  BY <1>0, <1>8, PlaceBefore DEF TextOf
<1> HIDE DEF q
<1>10. Around(h, w, X, u, p, q)
  BY <1>0, <1>3, <1>4, <1>6, <1>7, <1>8, <1>9 DEF Around
<1> QED BY <1>10 DEF q, c, g, m

LEMMA MadeFits ==
  ASSUME NEW S, NEW h \in Seq(S), NEW e \in Seq(S), Terminal(";") \in S, NEW w, Fits("PrimaryExp", e, w),
         NEW v, Makes(h, w, v)
  PROVE  FitsItem("BlockItems", (h \o e) \o Semicolon, v)
<1> DEFINE c == (h \o e) \o Semicolon
<1>1. ASSUME NEW D, NEW X, NEW u, NEW p, Parses(D, X, u), Occurs(c, u, p)
      PROVE  /\ In(D, ItemOf("BlockItems"), p + 1, p + Len(c), v) /\ Is(u, p + Len(c), EndsOf("BlockItems"))
             /\ Len(c) \in Nat \ {0}
  <2>1. Around(h, w, X, u, p, p + Len(c))
    BY <1>1, ExpPlaced
  <2>2. Len(c) \in Nat
    BY <1>1, PlaceOf
  <2> HIDE DEF c
  <2>3. In(D, "BlockItem", p + 1, p + Len(c), v)
    BY <1>1, <2>1 DEF Makes
  <2>4. Is(u, p + Len(c), EndsOf("BlockItems"))
    BY <2>1 DEF Around, EndsOf, Is
  <2>5. Len(c) # 0
    <3>1. p \in Nat /\ Len(h) \in Nat /\ (p + Len(h)) + 1 <= (p + Len(c)) - 1
      BY <2>1 DEF Around
    <3> QED BY <2>2, <3>1, NotNone
  <2> QED BY <2>2, <2>3, <2>4, <2>5 DEF ItemOf
<1> QED BY <1>1 DEF FitsItem

LEMMA BackExp ==
  ASSUME NEW S, Alphabet(S), NEW begin \in Handlers, NEW x \in S \cup {NoToken}, Opens(S, begin, x),
         HeadOf(begin, x) \in Seq(S), NEW end \in Enders, NEW s, NEW w, Written(S, s, w),
         Makes(HeadOf(begin, x), w, Framed(begin, x, w, end))
  PROVE  ReadBack(S, "BlockItems", Words(HeadOf(begin, x)) \o s, Framed(begin, x, w, end))
<1> DEFINE h == HeadOf(begin, x)
           v == Framed(begin, x, w, end)
<1>1. PICK e \in Seq(S) : Pushes(S, w, e) /\ Words(e) = s /\ Fits("PrimaryExp", e, w)
  BY DEF Written
<1>2. w \in Seq(VisitsOver(S))
  BY DEF Written
<1>3. Terminal(";") \in S /\ Terminal(";").kind \notin WordKinds
  BY KnownTerminals, TerminalKind, NoWords DEF Alphabet
<1> DEFINE g == h \o e
           c == g \o Semicolon
<1>4. v \in Seq(VisitsOver(S))
  <2>1. RunsAround(S, Far(<<>>, <<>>), begin, x, w, end)
    BY <1>2, OneEnd, RunFramed
  <2> QED BY <2>1 DEF RunsAround
<1>5. Puts(S, v, c)
  BY <1>1, <1>2, <1>3, PutsExp
<1>6. FitsItem("BlockItems", c, v)
  BY <1>1, <1>3, MadeFits
<1>7. g \in Seq(S) /\ Words(g) = Words(h) \o s
  BY <1>1, WordsConcat, ConcatProperties
<1> HIDE DEF g, v
<1>8. c \in Seq(S) /\ Words(c) = Words(g)
  <2>1. Words(g \o <<Terminal(";")>>) = Words(g)
    BY <1>3, <1>7, LayoutBehind
  <2>2. Semicolon \in Seq(S)
    BY <1>3, OneIn DEF Semicolon
  <2>3. c \in Seq(S)
    BY <1>7, <2>2, ConcatProperties
  <2> QED BY <2>1, <2>3 DEF Semicolon
<1> HIDE DEF c
<1>9. ReadBack(S, "BlockItems", Words(c), v)
  BY <1>4, <1>5, <1>6, <1>8, BackItem
<1> QED BY <1>7, <1>8, <1>9 DEF v

Placed(u, p, q) ==
  /\ p + 1 \in 1 .. Len(u) + 1 /\ q \in 0 .. Len(u) /\ q - 1 \in 0 .. Len(u) /\ p + 1 # q /\ p + 1 <= q /\ p \in Nat

LEMMA AroundPlaced ==
  ASSUME NEW h, NEW w, NEW X, NEW u, NEW p, NEW q, Around(h, w, X, u, p, q)
  PROVE  Placed(u, p, q)
<1>1. p \in Nat /\ Len(h) \in Nat /\ Len(u) \in Nat /\ q \in 1 .. Len(u) /\ (p + Len(h)) + 1 <= q - 1
  BY DEF Around
<1> DEFINE n == Len(h)
           m == Len(u)
<1>2. p \in Nat /\ n \in Nat /\ m \in Nat /\ q \in 1 .. m /\ (p + n) + 1 <= q - 1
  BY <1>1
<1> HIDE DEF n, m
<1>3. p + 1 \in 1 .. m + 1 /\ q \in 0 .. m /\ q - 1 \in 0 .. m /\ p + 1 # q /\ p + 1 <= q
  BY <1>2
<1> QED BY <1>2, <1>3 DEF n, m, Placed

LEMMA Steps ==
  ASSUME NEW p \in Nat
  PROVE  /\ (p + 1) + 1 = p + 2 /\ (p + 1) + 2 = p + 3 /\ (p + 2) + 1 = p + 3 /\ (p + 3) + 1 = p + 4
         /\ (p + 2) + 1 = (p + 1) + 2 /\ (p + 3) + 1 = (p + 2) + 2 /\ (p + 4) + 1 = (p + 3) + 2
  OBVIOUS

LEMMA LineMade ==
  ASSUME NEW D, NEW X, NEW u, Parses(D, X, u), NEW p, NEW q, Placed(u, p, q), NEW v, Line(X, u, p + 1, q, v)
  PROVE  In(D, "BlockItem", p + 1, q, v)
<1> DEFINE i == p + 1
<1>1. i \in 1 .. Len(u) + 1 /\ q \in 0 .. Len(u) /\ Line(X, u, i, q, v)
  BY DEF Placed
<1> HIDE DEF i
<1>2. In(D, "Stmt", i, q, v)
  BY <1>1, StmtRule
<1>3. In(D, "BlockItem", i, q, v)
  BY <1>1, <1>2, BlockItemIs
<1> QED BY <1>3 DEF i

LEMMA DeclMade ==
  ASSUME NEW D, NEW X, NEW u, Parses(D, X, u), NEW p, NEW q, Placed(u, p, q), NEW v, Declared(D, u, p + 1, q, v)
  PROVE  In(D, "BlockItem", p + 1, q, v)
<1> DEFINE i == p + 1
<1>1. i \in 1 .. Len(u) + 1 /\ q \in 0 .. Len(u) /\ Declared(D, u, i, q, v)
  BY DEF Placed
<1> HIDE DEF i
<1>2. In(D, "Decl", i, q, v)
  BY <1>1, DeclIs
<1>3. In(D, "BlockItem", i, q, v)
  BY <1>1, <1>2, BlockItemIs
<1> QED BY <1>3 DEF i

LEMMA GivenAt ==
  ASSUME NEW X, NEW u, NEW i, NEW x, x.kind = "ident", Has(u, i, x), Has(u, i + 1, Terminal("=")),
         NEW j, NEW w, In(X, "Exp", i + 2, j, w), NEW begin, NEW end
  PROVE  Given(X, u, begin, end, i, j, Framed(begin, x, w, end))
<1>1. u[i] = x /\ Is(u, i, {"ident"})
  BY DEF Has
<1>2. Is(u, i + 1, {"="})
  BY TerminalKind DEF Has
<1> QED BY <1>1, <1>2 DEF Given

LEMMA WordsOfHead ==
  ASSUME NEW S, Alphabet(S), NEW x \in S, x.kind = "ident"
  PROVE  /\ Words(<<x>>) = <<x>>
         /\ Words(<<x, Terminal("=")>>) = <<x>> /\ <<x, Terminal("=")>> \in Seq(S)
         /\ Words(<<Terminal("int"), x, Terminal("=")>>) = <<x>> /\ <<Terminal("int"), x, Terminal("=")>> \in Seq(S)
<1> DEFINE int == Terminal("int")
           eq == Terminal("=")
<1>1. int \in S /\ eq \in S /\ int.kind \notin WordKinds /\ eq.kind \notin WordKinds
  BY KnownTerminals, TerminalKind, NoWords DEF Alphabet
<1>2. Words(<<x>>) = <<x>>
  BY OneWord, NoWords
<1> HIDE DEF int, eq
<1>3. <<x>> \in Seq(S) /\ <<x, eq>> \in Seq(S) /\ <<int, x>> \in Seq(S) /\ <<int, x, eq>> \in Seq(S)
  BY <1>1
<1>4. <<x>> \o <<eq>> = <<x, eq>> /\ <<int>> \o <<x>> = <<int, x>>
  BY <1>1, Pair
<1>5. <<int, x>> \o <<eq>> = <<int, x, eq>>
  BY <1>1, Triple
<1>6. Words(<<x>> \o <<eq>>) = Words(<<x>>)
  BY <1>1, <1>3, LayoutBehind
<1>7. Words(<<int>> \o <<x>>) = Words(<<x>>)
  BY <1>1, <1>3, LayoutBefore
<1>8. Words(<<int, x>> \o <<eq>>) = Words(<<int, x>>)
  BY <1>1, <1>3, LayoutBehind
<1>9. Words(<<x, eq>>) = <<x>>
  BY <1>2, <1>4, <1>6
<1>10. Words(<<int, x, eq>>) = <<x>>
  BY <1>2, <1>4, <1>5, <1>7, <1>8
<1> QED BY <1>2, <1>3, <1>9, <1>10 DEF int, eq

LEMMA WordsOfConst ==
  ASSUME NEW S, Alphabet(S), NEW x \in S, x.kind = "ident"
  PROVE  /\ Words(<<Terminal("const"), Terminal("int"), x, Terminal("=")>>) = <<x>>
         /\ <<Terminal("const"), Terminal("int"), x, Terminal("=")>> \in Seq(S)
<1> DEFINE int == Terminal("int")
           eq == Terminal("=")
           const == Terminal("const")
<1>1. /\ int \in S /\ eq \in S /\ int.kind \notin WordKinds /\ eq.kind \notin WordKinds
      /\ const \in S /\ const.kind \notin WordKinds
  BY KnownTerminals, TerminalKind, NoWords DEF Alphabet
<1>2. Words(<<x>>) = <<x>>
  BY OneWord, NoWords
<1> HIDE DEF int, eq, const
<1>3. /\ <<x>> \in Seq(S) /\ <<int>> \in Seq(S) /\ <<const, int>> \in Seq(S) /\ <<const, int, x>> \in Seq(S)
      /\ <<const, int, x, eq>> \in Seq(S)
  BY <1>1
<1>4. <<const>> \o <<int>> = <<const, int>>
  BY <1>1, Pair
<1>5. <<const, int>> \o <<x>> = <<const, int, x>>
  BY <1>1, Triple
<1>6. <<const, int, x>> \o <<eq>> = <<const, int, x, eq>>
  BY <1>1, Quadruple
<1>7. Words(<<const, int, x>> \o <<eq>>) = Words(<<const, int, x>>)
  BY <1>1, <1>3, LayoutBehind
<1>8. Words(<<const, int>> \o <<x>>) = Words(<<const, int>>) \o Words(<<x>>)
  BY <1>3, WordsConcat
<1>9. Words(<<const>> \o <<int>>) = Words(<<int>>) /\ Words(<<int>>) = <<>>
  BY <1>1, <1>3, LayoutBefore, OneWord
<1>10. <<>> \o <<x>> = <<x>>
  BY <1>3, ConcatEmptySeq
<1>11. Words(<<const, int, x, eq>>) = <<x>>
  BY <1>2, <1>4, <1>5, <1>6, <1>7, <1>8, <1>9, <1>10
<1> QED BY <1>3, <1>11 DEF int, eq, const

LEMMA BackRaw ==
  ASSUME NEW S, Alphabet(S), NEW s, NEW w, Written(S, s, w)
  PROVE  ReadBack(S, "BlockItems", s, Framed("BeginRaw", NoToken, w, "EndRawExp"))
<1> DEFINE h == HeadOf("BeginRaw", NoToken)
           v == Framed("BeginRaw", NoToken, w, "EndRawExp")
<1>1. h = <<>>
  BY DEF HeadOf
<1>2. h \in Seq(S)
  BY <1>1, NoneIn
<1>3. ASSUME NEW D, NEW X, NEW u, NEW p, NEW q, Parses(D, X, u), Around(h, w, X, u, p, q)
      PROVE  In(D, "BlockItem", p + 1, q, v)
  <2>1. Placed(u, p, q)
    BY <1>3, AroundPlaced
  <2>2. p + Len(h) = p
    BY <1>1, <2>1 DEF Placed
  <2>3. In(X, "Exp", (p + Len(h)) + 1, q - 1, w) /\ Is(u, q, {";"})
    BY <1>3 DEF Around
  <2>4. In(X, "Exp", p + 1, q - 1, w) /\ p + 1 # q
    BY <2>1, <2>2, <2>3 DEF Placed
  <2>5. Line(X, u, p + 1, q, v)
    BY <2>3, <2>4 DEF Line
  <2> QED BY <1>3, <2>1, <2>5, LineMade
<1> HIDE DEF h, v
<1>4. Makes(h, w, v)
  BY <1>3 DEF Makes
<1>5. Opens(S, "BeginRaw", NoToken) /\ "BeginRaw" \in Handlers /\ "EndRawExp" \in Enders
  BY OpensBeginRaw DEF Handlers, Enders
<1>6. ReadBack(S, "BlockItems", Words(h) \o s, v)
  BY <1>2, <1>4, <1>5, BackExp DEF h, v
<1>7. Words(h) \o s = s
  <2>1. s \in Seq(S)
    BY WordsType DEF Written
  <2> QED BY <1>1, <2>1, WordsNothing, ConcatEmptySeq
<1> QED BY <1>6, <1>7 DEF v

LEMMA BackReturn ==
  ASSUME NEW S, Alphabet(S), NEW s, NEW w, Written(S, s, w)
  PROVE  ReadBack(S, "BlockItems", <<Terminal("return")>> \o s, Framed("BeginReturn", NoToken, w, "EndReturn"))
<1> DEFINE h == HeadOf("BeginReturn", NoToken)
           v == Framed("BeginReturn", NoToken, w, "EndReturn")
<1>0. Terminal("return") \in S
  BY KnownTerminals DEF Alphabet
<1>1. h = <<Terminal("return")>> /\ Len(h) = 1
  BY DEF HeadOf
<1>2. h \in Seq(S)
  BY <1>0, <1>1, OneIn
<1>3. ASSUME NEW D, NEW X, NEW u, NEW p, NEW q, Parses(D, X, u), Around(h, w, X, u, p, q)
      PROVE  In(D, "BlockItem", p + 1, q, v)
  <2>1. Placed(u, p, q)
    BY <1>3, AroundPlaced
  <2>2. p + Len(h) = p + 1
    BY <1>1
  <2>3. In(X, "Exp", (p + Len(h)) + 1, q - 1, w) /\ Is(u, q, {";"}) /\ TextOf(u) /\ Occurs(h, u, p)
    BY <1>3 DEF Around
  <2>4. In(X, "Exp", (p + 1) + 1, q - 1, w) /\ p + 1 # q
    BY <2>1, <2>2, <2>3 DEF Placed
  <2>5. Is(u, p + 1, {"return"})
    <3>1. Occurs(<<Terminal("return")>>, u, p)
      BY <1>1, <2>3
    <3>2. \A K : Is(u, p + 1, K) <=> Terminal("return").kind \in K
      BY <2>3, <3>1, OccursOne
    <3> QED BY <3>2, TerminalKind
  <2>6. Line(X, u, p + 1, q, v)
    BY <2>3, <2>4, <2>5 DEF Line
  <2> QED BY <1>3, <2>1, <2>6, LineMade
<1> HIDE DEF h, v
<1>4. Makes(h, w, v)
  BY <1>3 DEF Makes
<1>5. Opens(S, "BeginReturn", NoToken) /\ "BeginReturn" \in Handlers /\ "EndReturn" \in Enders
  BY OpensBeginReturn DEF Handlers, Enders
<1>6. ReadBack(S, "BlockItems", Words(h) \o s, v)
  BY <1>2, <1>4, <1>5, BackExp DEF h, v
<1>7. Words(h) = <<Terminal("return")>>
  BY <1>0, <1>1, OneWord, NoWords, TerminalKind
<1> QED BY <1>6, <1>7 DEF v

LEMMA BackAssign ==
  ASSUME NEW S, Alphabet(S), NEW s, NEW w, Written(S, s, w), NEW x \in S, x.kind = "ident"
  PROVE  ReadBack(S, "BlockItems", <<x>> \o s, Framed("BeginAssign", x, w, "EndAssign"))
<1> DEFINE h == HeadOf("BeginAssign", x)
           v == Framed("BeginAssign", x, w, "EndAssign")
<1>1. h = <<x, Terminal("=")>> /\ Len(h) = 2
  BY DEF HeadOf
<1>2. h \in Seq(S) /\ Words(h) = <<x>>
  BY <1>1, WordsOfHead
<1>3. ASSUME NEW D, NEW X, NEW u, NEW p, NEW q, Parses(D, X, u), Around(h, w, X, u, p, q)
      PROVE  In(D, "BlockItem", p + 1, q, v)
  <2>1. Placed(u, p, q)
    BY <1>3, AroundPlaced
  <2>2. (p + Len(h)) + 1 = (p + 1) + 2 /\ (p + 1) + 1 = p + 2
    <3>1. p \in Nat
      BY <2>1 DEF Placed
    <3>2. p + Len(h) = p + 2
      BY <1>1
    <3> HIDE DEF h
    <3> QED BY <3>1, <3>2, Steps
  <2>3. In(X, "Exp", (p + Len(h)) + 1, q - 1, w) /\ Is(u, q, {";"}) /\ TextOf(u) /\ Occurs(h, u, p)
    BY <1>3 DEF Around
  <2>4. In(X, "Exp", (p + 1) + 2, q - 1, w) /\ p + 1 # q
    BY <2>1, <2>2, <2>3 DEF Placed
  <2>5. Has(u, p + 1, x) /\ Has(u, p + 2, Terminal("="))
    BY <1>1, <2>3, Occurs2
  <2>6. Has(u, (p + 1) + 1, Terminal("="))
    BY <2>2, <2>5
  <2>7. Given(X, u, "BeginAssign", "EndAssign", p + 1, q - 1, v)
    BY <2>4, <2>5, <2>6, GivenAt
  <2>8. Line(X, u, p + 1, q, v)
    BY <2>3, <2>4, <2>7 DEF Line
  <2> QED BY <1>3, <2>1, <2>8, LineMade
<1> HIDE DEF h, v
<1>4. Makes(h, w, v)
  BY <1>3 DEF Makes
<1>5. Opens(S, "BeginAssign", x) /\ "BeginAssign" \in Handlers /\ "EndAssign" \in Enders
  BY OpensBeginAssign DEF Handlers, Enders
<1>6. ReadBack(S, "BlockItems", Words(h) \o s, v)
  BY <1>2, <1>4, <1>5, BackExp DEF h, v
<1> QED BY <1>2, <1>6 DEF v

LEMMA BackConst ==
  ASSUME NEW S, Alphabet(S), NEW s, NEW w, Written(S, s, w), NEW x \in S, x.kind = "ident"
  PROVE  ReadBack(S, "BlockItems", <<x>> \o s, Framed("BeginConstDef", x, w, "EndConstDef"))
<1> DEFINE h == HeadOf("BeginConstDef", x)
           v == Framed("BeginConstDef", x, w, "EndConstDef")
<1>1. h = <<Terminal("const"), Terminal("int"), x, Terminal("=")>> /\ Len(h) = 4
  BY DEF HeadOf
<1>2. h \in Seq(S) /\ Words(h) = <<x>>
  BY <1>1, WordsOfConst
<1>3. ASSUME NEW D, NEW X, NEW u, NEW p, NEW q, Parses(D, X, u), Around(h, w, X, u, p, q)
      PROVE  In(D, "BlockItem", p + 1, q, v)
  <2>1. Placed(u, p, q)
    BY <1>3, AroundPlaced
  <2>2. /\ (p + Len(h)) + 1 = (p + 3) + 2 /\ (p + 1) + 1 = p + 2 /\ (p + 1) + 2 = p + 3 /\ (p + 3) + 1 = p + 4
    <3>1. p \in Nat
      BY <2>1 DEF Placed
    <3>2. p + Len(h) = p + 4
      BY <1>1
    <3> HIDE DEF h
    <3> QED BY <3>1, <3>2, Steps
  <2>3. In(X, "Exp", (p + Len(h)) + 1, q - 1, w) /\ Is(u, q, {";"}) /\ TextOf(u) /\ Occurs(h, u, p)
    BY <1>3 DEF Around
  <2>4. In(X, "Exp", (p + 3) + 2, q - 1, w)
    BY <2>2, <2>3
  <2>5. Has(u, p + 1, Terminal("const")) /\ Has(u, p + 2, Terminal("int")) /\ Has(u, p + 3, x) /\ Has(u, p + 4, Terminal("="))
    BY <1>1, <2>3, Occurs4
  <2>6. Has(u, (p + 3) + 1, Terminal("="))
    BY <2>2, <2>5
  <2>7. Given(X, u, "BeginConstDef", "EndConstDef", p + 3, q - 1, v)
    BY <2>4, <2>5, <2>6, GivenAt
  <2>8. p + 3 \in 1 .. Len(u) + 1 /\ q - 1 \in 0 .. Len(u)
    <3>1. Is(u, p + 3, {"ident"})
      BY <2>5 DEF Has
    <3>2. p + 3 \in 1 .. Len(u) /\ Len(u) \in Nat
      BY <2>3, <3>1, PlaceBefore DEF TextOf
    <3> QED BY <2>1, <3>2 DEF Placed
  <2>9. In(D, "ConstDef", p + 3, q - 1, v)
    BY <1>3, <2>7, <2>8, ConstDefIs
  <2>10. In(D, "ConstDefs", p + 3, q - 1, v)
    BY <1>3, <2>8, <2>9, ConstDefsIs DEF Defined
  <2>11. Is(u, p + 1, {"const"}) /\ Is(u, p + 2, BType)
    BY <2>5, TerminalKind DEF Has, BType
  <2>12. Declared(D, u, p + 1, q, v)
    BY <2>2, <2>3, <2>10, <2>11 DEF Declared
  <2> QED BY <1>3, <2>1, <2>12, DeclMade
<1> HIDE DEF h, v
<1>4. Makes(h, w, v)
  BY <1>3 DEF Makes
<1>5. Opens(S, "BeginConstDef", x) /\ "BeginConstDef" \in Handlers /\ "EndConstDef" \in Enders
  BY OpensBeginConstDef DEF Handlers, Enders
<1>6. ReadBack(S, "BlockItems", Words(h) \o s, v)
  BY <1>2, <1>4, <1>5, BackExp DEF h, v
<1> QED BY <1>2, <1>6 DEF v

LEMMA BackVar ==
  ASSUME NEW S, Alphabet(S), NEW s, NEW w, Written(S, s, w), NEW x \in S, x.kind = "ident"
  PROVE  ReadBack(S, "BlockItems", <<x>> \o s, Framed("BeginVarDef", x, w, "EndVarDef"))
<1> DEFINE h == HeadOf("BeginVarDef", x)
           v == Framed("BeginVarDef", x, w, "EndVarDef")
<1>1. h = <<Terminal("int"), x, Terminal("=")>> /\ Len(h) = 3
  BY DEF HeadOf
<1>2. h \in Seq(S) /\ Words(h) = <<x>>
  BY <1>1, WordsOfHead
<1>3. ASSUME NEW D, NEW X, NEW u, NEW p, NEW q, Parses(D, X, u), Around(h, w, X, u, p, q)
      PROVE  In(D, "BlockItem", p + 1, q, v)
  <2>1. Placed(u, p, q)
    BY <1>3, AroundPlaced
  <2>2. /\ (p + Len(h)) + 1 = (p + 2) + 2 /\ (p + 1) + 1 = p + 2 /\ (p + 2) + 1 = p + 3
    <3>1. p \in Nat
      BY <2>1 DEF Placed
    <3>2. p + Len(h) = p + 3
      BY <1>1
    <3> HIDE DEF h
    <3> QED BY <3>1, <3>2, Steps
  <2>3. In(X, "Exp", (p + Len(h)) + 1, q - 1, w) /\ Is(u, q, {";"}) /\ TextOf(u) /\ Occurs(h, u, p)
    BY <1>3 DEF Around
  <2>4. In(X, "Exp", (p + 2) + 2, q - 1, w)
    BY <2>2, <2>3
  <2>5. Has(u, p + 1, Terminal("int")) /\ Has(u, p + 2, x) /\ Has(u, p + 3, Terminal("="))
    BY <1>1, <2>3, Occurs3
  <2>6. Has(u, (p + 2) + 1, Terminal("="))
    BY <2>2, <2>5
  <2>7. Given(X, u, "BeginVarDef", "EndVarDef", p + 2, q - 1, v)
    BY <2>4, <2>5, <2>6, GivenAt
  <2>8. p + 2 \in 1 .. Len(u) + 1 /\ q - 1 \in 0 .. Len(u)
    <3>1. Is(u, p + 2, {"ident"})
      BY <2>5 DEF Has
    <3>2. p + 2 \in 1 .. Len(u) /\ Len(u) \in Nat
      BY <2>3, <3>1, PlaceBefore DEF TextOf
    <3> QED BY <2>1, <3>2 DEF Placed
  <2>9. In(D, "VarDef", p + 2, q - 1, v)
    BY <1>3, <2>7, <2>8, VarDefIs
  <2>10. In(D, "VarDefs", p + 2, q - 1, v)
    BY <1>3, <2>8, <2>9, VarDefsIs DEF Defined
  <2>11. Is(u, p + 1, BType)
    BY <2>5, TerminalKind DEF Has, BType
  <2>12. Declared(D, u, p + 1, q, v)
    BY <2>2, <2>3, <2>10, <2>11 DEF Declared
  <2> QED BY <1>3, <2>1, <2>12, DeclMade
<1> HIDE DEF h, v
<1>4. Makes(h, w, v)
  BY <1>3 DEF Makes
<1>5. Opens(S, "BeginVarDef", x) /\ "BeginVarDef" \in Handlers /\ "EndVarDef" \in Enders
  BY OpensBeginVarDef DEF Handlers, Enders
<1>6. ReadBack(S, "BlockItems", Words(h) \o s, v)
  BY <1>2, <1>4, <1>5, BackExp DEF h, v
<1> QED BY <1>2, <1>6 DEF v

-----------------------------------------------------------------------------
(* Blocks and functions, read back.                                        *)

LEMMA OwnPlace ==
  ASSUME NEW n \in Nat, n # 0 PROVE n \in 1 .. n
  OBVIOUS
LEMMA ConcatLen ==
  ASSUME NEW S, NEW s \in Seq(S), NEW r \in Seq(S)
  PROVE  Len(s \o r) = Len(s) + Len(r)
  BY ConcatProperties
LEMMA LenNat ==
  ASSUME NEW S, NEW s \in Seq(S) PROVE Len(s) \in Nat
  OBVIOUS
LEMMA LastOf ==
  ASSUME NEW h, NEW x, (Len(h) = 1 /\ h[1] = x) \/ (Len(h) = 5 /\ h[5] = x) PROVE h[Len(h)] = x /\ Len(h) # 0
  OBVIOUS
LEMMA OneMore ==
  ASSUME NEW k \in Nat, NEW n, n = k + 1 PROVE n \in Nat \ {0}
  OBVIOUS
LEMMA Singleton ==
  ASSUME NEW S, NEW a \in S PROVE <<a>> \in Seq(S) /\ Len(<<a>>) = 1 /\ <<a>>[1] = a
  OBVIOUS
LEMMA ThreeTuple ==
  ASSUME NEW S, NEW a \in S, NEW b \in S, NEW c \in S PROVE <<a, b, c>> \in Seq(S) /\ Len(<<a, b, c>>) = 3
  OBVIOUS
LEMMA FiveTuple ==
  ASSUME NEW S, NEW a \in S, NEW b \in S, NEW c \in S, NEW d \in S, NEW e \in S
  PROVE  <<a, b, c, d, e>> \in Seq(S) /\ Len(<<a, b, c, d, e>>) = 5 /\ <<a, b, c, d, e>>[5] = e
  OBVIOUS
LEMMA FourSteps ==
  ASSUME NEW p \in Nat
  PROVE  (p + 1) + 1 = p + 2 /\ (p + 1) + 2 = p + 3 /\ (p + 1) + 3 = p + 4 /\ (p + 1) + 4 = p + 5
  OBVIOUS
Closing == <<Terminal("}")>>

\* A block, wherever its braces and its items occur.
Braced(D, u, h, c, p, w) ==
  /\ In(D, "Block", p + Len(h), p + Len(c), w) /\ Is(u, p + Len(c), {"}"}) /\ Len(c) \in Nat \ {0}
  /\ Occurs(h, u, p) /\ p \in Nat /\ p + 1 \in 1 .. Len(u) + 1 /\ p + Len(c) \in 0 .. Len(u)
  /\ p + Len(h) \in 1 .. Len(u) + 1

Follows(q, b) == q - 1 = b /\ q - 1 < q
LEMMA Following ==
  ASSUME NEW b \in Nat, NEW q, q = b + 1 PROVE Follows(q, b)
  BY DEF Follows

Inside(p, n, m, a, b, q) ==
  /\ a \in Nat /\ b \in Nat /\ q \in Nat /\ a < q /\ p + (n + m + 1) = q /\ n + m + 1 \in Nat \ {0} /\ b + 1 = q
LEMMA InsideBraces ==
  ASSUME NEW p \in Nat, NEW n \in Nat, NEW m \in Nat, NEW a, NEW b, NEW q, a = p + n, b = a + m, q = b + 1
  PROVE  Inside(p, n, m, a, b, q)
  BY DEF Inside

Spanned(N, a, b, q) ==
  /\ a \in 1 .. N + 1 /\ a + 1 \in 1 .. N + 1 /\ q \in 0 .. N /\ q \in 1 .. N + 1 /\ q - 1 \in 0 .. N
  /\ a < q /\ b <= q - 1 /\ q > q - 1
LEMMA Spanning ==
  ASSUME NEW N \in Nat, NEW a \in 1 .. N, NEW q \in 1 .. N, NEW b \in Nat, a < q, q - 1 = b
  PROVE  Spanned(N, a, b, q)
  BY DEF Spanned

LEMMA Enclosed ==
  ASSUME NEW S, Terminal("}") \in S, NEW h \in Seq(S), h[Len(h)] = Terminal("{"), Len(h) # 0,
         NEW e \in Seq(S), NEW w \in Seq(VisitsOver(S)), FitsList(S, "BlockItems", e, w),
         NEW D, NEW X, NEW u, Parses(D, X, u), NEW p, Occurs((h \o e) \o Closing, u, p)
  PROVE  Braced(D, u, h, (h \o e) \o Closing, p, w)
<1> DEFINE m == Closing
           g == h \o e
           c == g \o m
           a == p + Len(h)
           b == a + Len(e)
           q == p + Len(c)
<1>0. TextOf(u)
  BY DEF Parses, TextOf
<1>1. m \in Seq(S) /\ g \in Seq(S) /\ Len(m) = 1
  <2>1. m \in Seq(S)
    BY OneIn DEF Closing
  <2>2. Len(m) = 1
    BY DEF Closing
  <2>3. g \in Seq(S)
    BY ConcatProperties
  <2> QED BY <2>1, <2>2, <2>3
<1>2. Occurs(g, u, p) /\ Occurs(m, u, p + Len(g)) /\ q = (p + Len(g)) + Len(m)
  <2> HIDE DEF g, m
  <2>0. Occurs(c, u, p)
    BY DEF g, m
  <2>1. Parts(g, m, u, p)
    BY <1>0, <1>1, <2>0, OccursParts
  <2> QED BY <2>1 DEF Parts
<1>3. Occurs(h, u, p) /\ Occurs(e, u, a) /\ p + Len(g) = b
  <2>1. Parts(h, e, u, p)
    BY <1>0, <1>2, OccursParts
  <2> QED BY <2>1 DEF Parts
<1>4. p \in Nat /\ Len(h) \in Nat /\ Len(e) \in Nat /\ Len(u) \in Nat
  <2> HIDE DEF a, b
  <2> QED BY <1>0, <1>3 DEF Occurs, TextOf
<1>5. Has(u, b + 1, Terminal("}"))
  <2> HIDE DEF b
  <2>1. Occurs(<<Terminal("}")>>, u, b)
    BY <1>2, <1>3 DEF Closing
  <2> QED BY <1>0, <2>1, OccursOne DEF Has
<1>6. Has(u, a, Terminal("{"))
  <2>1. Len(h) \in 1 .. Len(h)
    BY <1>4, OwnPlace
  <2> QED BY <1>0, <1>3, <2>1, OccursAt
<1>7. q = b + 1
  BY <1>1, <1>2, <1>3
<1>8. Is(u, a, {"{"}) /\ Is(u, q, {"}"})
  BY <1>5, <1>6, <1>7, TerminalKind DEF Has
<1> DEFINE n == Len(h)
           l == Len(e)
           N == Len(u)
<1>9. Inside(p, n, l, a, b, q)
  <2>1. a = p + n /\ b = a + l /\ n \in Nat /\ l \in Nat
    BY <1>4
  <2> HIDE DEF n, l, a, b, q
  <2> QED BY <1>4, <1>7, <2>1, InsideBraces
<1>10. /\ Occurs(e, u, a) /\ (a + Len(e)) + 1 = q /\ a + Len(e) = b
  <2> HIDE DEF q
  <2> QED BY <1>3, <1>7
<1>11. Len(c) \in Nat \ {0}
  <2> HIDE DEF g, m
  <2>1. Len(c) = Len(g) + Len(m)
    BY <1>1, ConcatLen
  <2>2. Len(g) \in Nat
    BY <1>1, LenNat
  <2>3. Len(c) = Len(g) + 1
    BY <1>1, <2>1
  <2> HIDE DEF c
  <2> QED BY <2>2, <2>3, OneMore
<1>12. a \in 1 .. N /\ q \in 1 .. N
  BY <1>0, <1>8, PlaceBefore DEF TextOf
<1> HIDE DEF a, b, c, g, m, n, l, q
<1>13. Follows(q, b)
  <2>1. b \in Nat
    BY <1>9 DEF Inside
  <2> QED BY <1>7, <2>1, Following
<1>14. Spanned(N, a, b, q)
  <2>1. N \in Nat
    BY <1>4
  <2>2. b \in Nat /\ a < q /\ q - 1 = b
    BY <1>9, <1>13 DEF Inside, Follows
  <2> QED BY <1>12, <2>1, <2>2, Spanning
<1>140. /\ a \in 1 .. N + 1 /\ a + 1 \in 1 .. N + 1 /\ q \in 0 .. N /\ q \in 1 .. N + 1 /\ q - 1 \in 0 .. N
        /\ a < q /\ b <= q - 1 /\ q > q - 1
  BY <1>14 DEF Spanned
<1>15. In(D, "BlockItems", q, q - 1, <<>>)
  <2>1. Listed(D, u, "BlockItems", "BlockItem", {";", "}"}, q, q - 1, <<>>)
    BY <1>140 DEF Listed
  <2> QED BY <1>140, <2>1, BlockItemsIs
<1>16. In(D, "BlockItems", a + 1, q - 1, w)
  <2>1. Prepends(S, "BlockItems", e, w, D, u, a, q - 1, <<>>)
    BY <1>10 DEF FitsList
  <2>2. <<>> \in Seq(VisitsOver(S)) /\ w \o <<>> = w
    BY NoneIn, ConcatEmptySeq
  <2>3. q - 1 \in 0 .. Len(u) /\ a + Len(e) <= q - 1 /\ In(D, "BlockItems", (a + Len(e)) + 1, q - 1, <<>>)
    BY <1>10, <1>140, <1>15
  <2> QED BY <2>1, <2>2, <2>3 DEF Prepends
<1>17. In(D, "Block", a, q, w)
  BY <1>8, <1>140, <1>16, BlockIs
<1>18. p + 1 \in 1 .. N + 1
  <2>1. Occurs(h, u, p)
    BY <1>3
  <2> QED BY <2>1, <1>0, OccursPlaces
<1> QED BY <1>3, <1>4, <1>8, <1>11, <1>140, <1>17, <1>18 DEF Braced, a, q, c, g, m

LEMMA BlockFits ==
  ASSUME NEW S, Alphabet(S), NEW e \in Seq(S), NEW w \in Seq(VisitsOver(S)), FitsList(S, "BlockItems", e, w)
  PROVE  FitsItem("BlockItems", (HeadOf("BeginBlock", NoToken) \o e) \o HeadOf("EndBlock", NoToken),
                  Framed("BeginBlock", NoToken, w, "EndBlock"))
<1> DEFINE h == <<Terminal("{")>>
           c == (h \o e) \o Closing
           v == Framed("BeginBlock", NoToken, w, "EndBlock")
<1>1. HeadOf("BeginBlock", NoToken) = h /\ HeadOf("EndBlock", NoToken) = Closing
  BY DEF HeadOf, Closing
<1>2. Terminal("{") \in S /\ Terminal("}") \in S
  BY KnownTerminals DEF Alphabet
<1>3. h \in Seq(S) /\ Len(h) = 1 /\ h[Len(h)] = Terminal("{") /\ Len(h) # 0
  <2>1. h \in Seq(S) /\ Len(h) = 1 /\ h[1] = Terminal("{")
    BY <1>2, Singleton
  <2> HIDE DEF h, c
  <2>2. h[Len(h)] = Terminal("{") /\ Len(h) # 0
    BY <2>1, LastOf
  <2> QED BY <2>1, <2>2
<1>4. ASSUME NEW D, NEW X, NEW u, NEW p, Parses(D, X, u), Occurs(c, u, p)
      PROVE  In(D, "BlockItem", p + 1, p + Len(c), v) /\ Is(u, p + Len(c), {";", "}"}) /\ Len(c) \in Nat \ {0}
  <2>1. Braced(D, u, h, c, p, w)
    <3> HIDE DEF h
    <3> QED BY <1>2, <1>3, <1>4, Enclosed
  <2> HIDE DEF h, c
  <2>2. /\ In(D, "Block", p + 1, p + Len(c), w) /\ Is(u, p + Len(c), {"}"}) /\ Len(c) \in Nat \ {0}
        /\ p + 1 \in 1 .. Len(u) + 1 /\ p + Len(c) \in 0 .. Len(u)
    BY <1>3, <2>1 DEF Braced
  <2> DEFINE i == p + 1
             j == p + Len(c)
  <2>3. In(D, "Block", i, j, w) /\ Is(u, j, {"}"}) /\ i \in 1 .. Len(u) + 1 /\ j \in 0 .. Len(u)
    BY <2>2
  <2> HIDE DEF i, j
  <2>4. In(D, "Stmt", i, j, v)
    BY <1>4, <2>3, StmtRule DEF BlockStmt
  <2>5. In(D, "BlockItem", i, j, v)
    BY <1>4, <2>3, <2>4, BlockItemIs
  <2>6. Is(u, j, {";", "}"})
    BY <2>3 DEF Is
  <2> QED BY <2>2, <2>5, <2>6 DEF i, j
<1>5. ItemOf("BlockItems") = "BlockItem" /\ EndsOf("BlockItems") = {";", "}"}
  BY DEF ItemOf, EndsOf
<1> HIDE DEF c, v
<1>6. FitsItem("BlockItems", c, v)
  BY <1>4, <1>5 DEF FitsItem
<1> QED BY <1>1, <1>6 DEF c, v

LEMMA FuncFits ==
  ASSUME NEW S, Alphabet(S), NEW x \in S, x.kind = "ident",
         NEW e \in Seq(S), NEW w \in Seq(VisitsOver(S)), FitsList(S, "BlockItems", e, w)
  PROVE  FitsItem("CompUnit", (HeadOf("BeginFunc", x) \o e) \o HeadOf("EndFunc", NoToken),
                  Framed("BeginFunc", x, w, "EndFunc"))
<1> DEFINE h == <<Terminal("int"), x, Terminal("("), Terminal(")"), Terminal("{")>>
           c == (h \o e) \o Closing
           v == Framed("BeginFunc", x, w, "EndFunc")
<1>1. HeadOf("BeginFunc", x) = h /\ HeadOf("EndFunc", NoToken) = Closing
  BY DEF HeadOf, Closing
<1>2. Terminal("int") \in S /\ Terminal("(") \in S /\ Terminal(")") \in S /\ Terminal("{") \in S /\ Terminal("}") \in S
  BY KnownTerminals DEF Alphabet
<1>3. h \in Seq(S) /\ Len(h) = 5 /\ h[Len(h)] = Terminal("{") /\ Len(h) # 0
  <2>1. h \in Seq(S) /\ Len(h) = 5 /\ h[5] = Terminal("{")
    BY <1>2, FiveTuple
  <2> HIDE DEF h, c
  <2>2. h[Len(h)] = Terminal("{") /\ Len(h) # 0
    BY <2>1, LastOf
  <2> QED BY <2>1, <2>2
<1>4. ASSUME NEW D, NEW X, NEW u, NEW p, Parses(D, X, u), Occurs(c, u, p)
      PROVE  In(D, "FuncDef", p + 1, p + Len(c), v) /\ Is(u, p + Len(c), {"}"}) /\ Len(c) \in Nat \ {0}
  <2>0. TextOf(u)
    BY <1>4 DEF Parses, TextOf
  <2>1. Braced(D, u, h, c, p, w)
    <3> HIDE DEF h
    <3> QED BY <1>2, <1>3, <1>4, Enclosed
  <2>2. Occurs(h, u, p)
    BY <2>1 DEF Braced
  <2>3. /\ Has(u, p + 1, Terminal("int")) /\ Has(u, p + 2, x) /\ Has(u, p + 3, Terminal("("))
        /\ Has(u, p + 4, Terminal(")"))
    BY <2>0, <2>2, Occurs5
  <2> HIDE DEF h, c
  <2>4. /\ In(D, "Block", p + 5, p + Len(c), w) /\ Is(u, p + Len(c), {"}"}) /\ Len(c) \in Nat \ {0}
        /\ p + 1 \in 1 .. Len(u) + 1 /\ p + Len(c) \in 0 .. Len(u) /\ p \in Nat
    BY <1>3, <2>1 DEF Braced
  <2>5. (p + 1) + 1 = p + 2 /\ (p + 1) + 2 = p + 3 /\ (p + 1) + 3 = p + 4 /\ (p + 1) + 4 = p + 5
    BY <2>4, FourSteps
  <2> DEFINE i == p + 1
             j == p + Len(c)
  <2>6. /\ Is(u, i, BType) /\ Is(u, i + 1, {"ident"}) /\ Is(u, i + 2, {"("}) /\ Is(u, i + 3, {")"}) /\ u[i + 1] = x
    BY <2>3, <2>5, TerminalKind DEF Has, BType
  <2>7. In(D, "Block", i + 4, j, w) /\ Is(u, j, {"}"}) /\ i \in 1 .. Len(u) + 1 /\ j \in 0 .. Len(u)
    BY <2>4, <2>5
  <2> HIDE DEF i, j
  <2>8. In(D, "FuncDef", i, j, v)
    BY <1>4, <2>6, <2>7, FuncDefIs
  <2> QED BY <2>4, <2>8 DEF i, j
<1>5. ItemOf("CompUnit") = "FuncDef" /\ EndsOf("CompUnit") = {"}"}
  BY DEF ItemOf, EndsOf
<1> HIDE DEF c, v
<1>6. FitsItem("CompUnit", c, v)
  BY <1>4, <1>5 DEF FitsItem
<1> QED BY <1>1, <1>6 DEF c, v

LEMMA BackItems ==
  ASSUME NEW S, Alphabet(S), NEW L \in {"CompUnit", "BlockItems"}, NEW begin \in Handlers, NEW x \in S \cup {NoToken},
         Opens(S, begin, x), HeadOf(begin, x) \in Seq(S), NEW end \in Handlers, Opens(S, end, NoToken),
         HeadOf(end, NoToken) = <<Terminal("}")>>,
         NEW e \in Seq(S), NEW w \in Seq(VisitsOver(S)), Puts(S, w, e),
         FitsItem(L, (HeadOf(begin, x) \o e) \o HeadOf(end, NoToken), Framed(begin, x, w, end))
  PROVE  ReadBack(S, L, Words(HeadOf(begin, x)) \o Words(e), Framed(begin, x, w, end))
<1> DEFINE h == HeadOf(begin, x)
           r == HeadOf(end, NoToken)
           g == h \o e
           c == g \o r
           v == Framed(begin, x, w, end)
<1>1. Terminal("}") \in S /\ Terminal("}").kind \notin WordKinds
  BY KnownTerminals, TerminalKind, NoWords DEF Alphabet
<1>2. r \in Seq(S)
  BY <1>1, OneIn
<1>3. v \in Seq(VisitsOver(S))
  <2>1. RunsAround(S, Far(<<>>, <<>>), begin, x, w, end)
    BY RunFramed
  <2> QED BY <2>1 DEF RunsAround
<1>4. Puts(S, v, c)
  BY <1>2, PutsItems
<1>5. FitsItem(L, c, v)
  OBVIOUS
<1>6. g \in Seq(S) /\ Words(g) = Words(h) \o Words(e)
  BY WordsConcat, ConcatProperties
<1>7. r = <<Terminal("}")>>
  OBVIOUS
<1> HIDE DEF g, v, r
<1>8. c \in Seq(S) /\ Words(c) = Words(g)
  <2>1. Words(g \o <<Terminal("}")>>) = Words(g)
    BY <1>1, <1>6, LayoutBehind
  <2>2. c \in Seq(S)
    BY <1>2, <1>6, ConcatProperties
  <2> QED BY <1>7, <2>1, <2>2
<1> HIDE DEF c
<1>9. ReadBack(S, L, Words(c), v)
  BY <1>3, <1>4, <1>5, <1>8, BackItem
<1> QED BY <1>6, <1>8, <1>9 DEF v

LEMMA BackBlock ==
  ASSUME NEW S, Alphabet(S), NEW s, NEW w, ReadBack(S, "BlockItems", s, w)
  PROVE  ReadBack(S, "BlockItems", s, Framed("BeginBlock", NoToken, w, "EndBlock"))
<1>1. PICK e \in Seq(S) : Puts(S, w, e) /\ Words(e) = s /\ FitsList(S, "BlockItems", e, w)
  BY DEF ReadBack
<1>2. w \in Seq(VisitsOver(S))
  BY DEF ReadBack
<1>3. Terminal("{") \in S /\ Terminal("{").kind \notin WordKinds
  BY KnownTerminals, TerminalKind, NoWords DEF Alphabet
<1>4. HeadOf("BeginBlock", NoToken) = <<Terminal("{")>> /\ HeadOf("EndBlock", NoToken) = <<Terminal("}")>>
  BY DEF HeadOf
<1>5. <<Terminal("{")>> \in Seq(S) /\ Words(<<Terminal("{")>>) = <<>>
  BY <1>3, OneIn, OneWord
<1>6. Opens(S, "BeginBlock", NoToken) /\ Opens(S, "EndBlock", NoToken) /\ {"BeginBlock", "EndBlock"} \subseteq Handlers
  BY OpensBeginBlock, OpensEndBlock DEF Handlers
<1>7. FitsItem("BlockItems", (HeadOf("BeginBlock", NoToken) \o e) \o HeadOf("EndBlock", NoToken),
               Framed("BeginBlock", NoToken, w, "EndBlock"))
  BY <1>1, <1>2, BlockFits
<1>8. ReadBack(S, "BlockItems", Words(HeadOf("BeginBlock", NoToken)) \o Words(e),
               Framed("BeginBlock", NoToken, w, "EndBlock"))
  BY <1>1, <1>2, <1>4, <1>5, <1>6, <1>7, BackItems
<1>9. <<>> \o s = s
  <2>1. s \in Seq(S)
    BY <1>1, WordsType
  <2> QED BY <2>1, ConcatEmptySeq
<1> QED BY <1>1, <1>4, <1>5, <1>8, <1>9

LEMMA BackFunc ==
  ASSUME NEW S, Alphabet(S), NEW s, NEW w, ReadBack(S, "BlockItems", s, w), NEW x \in S, x.kind = "ident"
  PROVE  ReadBack(S, "CompUnit", <<x>> \o s, Framed("BeginFunc", x, w, "EndFunc"))
<1> DEFINE int == Terminal("int")
           l == Terminal("(")
           r == Terminal(")")
           o == Terminal("{")
           h == HeadOf("BeginFunc", x)
<1>1. PICK e \in Seq(S) : Puts(S, w, e) /\ Words(e) = s /\ FitsList(S, "BlockItems", e, w)
  BY DEF ReadBack
<1>2. w \in Seq(VisitsOver(S))
  BY DEF ReadBack
<1>3. /\ int \in S /\ l \in S /\ r \in S /\ o \in S
      /\ int.kind \notin WordKinds /\ l.kind \notin WordKinds /\ r.kind \notin WordKinds /\ o.kind \notin WordKinds
  BY KnownTerminals, TerminalKind, NoWords DEF Alphabet
<1>4. h = <<int, x, l, r, o>> /\ HeadOf("EndFunc", NoToken) = <<Terminal("}")>>
  BY DEF HeadOf
<1>5. h \in Seq(S) /\ Words(h) = <<x>>
  <2> HIDE DEF int, l, r, o, h
  <2>1. <<x>> \in Seq(S) /\ <<l>> \in Seq(S) /\ <<l, r>> \in Seq(S) /\ <<l, r, o>> \in Seq(S) /\ <<int, x>> \in Seq(S)
    BY <1>3
  <2>2. h \in Seq(S)
    BY <1>3, <1>4, FiveTuple
  <2>3. <<int, x>> \o <<l, r, o>> = <<int, x, l, r, o>>
    BY <1>3, Quintuple
  <2>4. <<l>> \o <<r>> = <<l, r>> /\ <<int>> \o <<x>> = <<int, x>>
    BY <1>3, Pair
  <2>5. <<l, r>> \o <<o>> = <<l, r, o>>
    BY <1>3, Triple
  <2>6. Words(<<l>>) = <<>> /\ Words(<<x>>) = <<x>>
    BY <1>3, OneWord, NoWords
  <2>7. Words(<<l>> \o <<r>>) = Words(<<l>>)
    BY <1>3, <2>1, LayoutBehind
  <2>8. Words(<<l, r>> \o <<o>>) = Words(<<l, r>>)
    BY <1>3, <2>1, LayoutBehind
  <2>9. Words(<<int>> \o <<x>>) = Words(<<x>>)
    BY <1>3, <2>1, LayoutBefore
  <2>10. Words(<<int, x>> \o <<l, r, o>>) = Words(<<int, x>>) \o Words(<<l, r, o>>)
    BY <2>1, WordsConcat
  <2>11. <<x>> \o <<>> = <<x>>
    BY <2>1, ConcatEmptySeq
  <2>12. Words(h) = <<x>>
    BY <1>4, <2>3, <2>4, <2>5, <2>6, <2>7, <2>8, <2>9, <2>10, <2>11
  <2> QED BY <2>2, <2>12
<1>6. Opens(S, "BeginFunc", x) /\ Opens(S, "EndFunc", NoToken) /\ {"BeginFunc", "EndFunc"} \subseteq Handlers
  BY OpensBeginFunc, OpensEndFunc DEF Handlers
<1>7. FitsItem("CompUnit", (HeadOf("BeginFunc", x) \o e) \o HeadOf("EndFunc", NoToken),
               Framed("BeginFunc", x, w, "EndFunc"))
  BY <1>1, <1>2, FuncFits
<1> HIDE DEF int, l, r, o
<1>8. ReadBack(S, "CompUnit", Words(HeadOf("BeginFunc", x)) \o Words(e), Framed("BeginFunc", x, w, "EndFunc"))
  <2>1. x \in S \cup {NoToken} /\ "CompUnit" \in {"CompUnit", "BlockItems"} /\ "BeginFunc" \in Handlers /\ "EndFunc" \in Handlers
    BY <1>6
  <2>2. HeadOf("BeginFunc", x) \in Seq(S)
    BY <1>5
  <2> HIDE DEF h
  <2> QED BY <1>1, <1>2, <1>4, <1>6, <1>7, <2>1, <2>2, BackItems
<1> QED BY <1>1, <1>5, <1>8

LEMMA BackOnly ==
  ASSUME NEW S, Alphabet(S), NEW x \in S, x.kind = "ident"
  PROVE  ReadBack(S, "BlockItems", <<x>>, Mark("VarDefOnly", x))
<1> DEFINE h == <<Terminal("int"), x, Terminal(";")>>
           v == Mark("VarDefOnly", x)
<1>1. Terminal("int") \in S /\ Terminal(";") \in S /\ Terminal("int").kind \notin WordKinds /\ Terminal(";").kind \notin WordKinds
  BY KnownTerminals, TerminalKind, NoWords DEF Alphabet
<1>2. h \in Seq(S) /\ Len(h) = 3
  BY <1>1, ThreeTuple
<1>3. Words(h) = <<x>>
  <2> DEFINE int == Terminal("int")
             end == Terminal(";")
  <2>1. int \in S /\ end \in S /\ int.kind \notin WordKinds /\ end.kind \notin WordKinds
    BY <1>1
  <2> HIDE DEF int, end
  <2>2. <<int, x>> \in Seq(S) /\ <<x>> \in Seq(S)
    BY <2>1
  <2>3. <<int>> \o <<x>> = <<int, x>>
    BY <2>1, Pair
  <2>4. <<int, x>> \o <<end>> = <<int, x, end>>
    BY <2>1, Triple
  <2>5. Words(<<int, x>> \o <<end>>) = Words(<<int, x>>)
    BY <2>1, <2>2, LayoutBehind
  <2>6. Words(<<int>> \o <<x>>) = Words(<<x>>)
    BY <2>1, <2>2, LayoutBefore
  <2>7. Words(<<x>>) = <<x>>
    BY OneWord, NoWords
  <2>8. Words(<<int, x, end>>) = <<x>>
    BY <2>3, <2>4, <2>5, <2>6, <2>7
  <2> QED BY <2>8 DEF int, end
<1>4. v \in Seq(VisitsOver(S))
  <2>1. "VarDefOnly" \in Handlers /\ "none" \in Operators
    BY DEF Handlers, Operators
  <2> QED BY <2>1, VisitIn DEF Mark
<1>5. Puts(S, v, h)
  <2>1. HeadOf("VarDefOnly", x) = h
    BY DEF HeadOf
  <2>2. Opens(S, "VarDefOnly", x)
    BY OpensVarDefOnly
  <2>3. \A far : Run(far, v) = Spell(far, Visit("VarDefOnly", "none", x))
    BY RunOne DEF Mark
  <2> HIDE DEF h, v
  <2> QED BY <2>1, <2>2, <2>3 DEF Puts, Opens
<1>6. ASSUME NEW D, NEW X, NEW u, NEW p, Parses(D, X, u), Occurs(h, u, p)
      PROVE  In(D, "BlockItem", p + 1, p + 3, v) /\ Is(u, p + 3, {";", "}"})
  <2>0. TextOf(u)
    BY <1>6 DEF Parses, TextOf
  <2>1. Has(u, p + 1, Terminal("int")) /\ Has(u, p + 2, x) /\ Has(u, p + 3, Terminal(";"))
    BY <1>6, <2>0, Occurs3
  <2>2. Is(u, p + 1, BType) /\ Is(u, p + 2, {"ident"}) /\ Is(u, p + 3, {";"}) /\ Is(u, p + 3, {";", "}"}) /\ u[p + 2] = x
    BY <2>1, TerminalKind DEF Has, BType
  <2>3. /\ p + 3 \in 1 .. Len(u) /\ p + 2 \in 1 .. Len(u) /\ p + 1 \in 1 .. Len(u) /\ p \in Nat /\ Len(u) \in Nat
    <3>1. p \in Nat /\ Len(u) \in Nat
      BY <1>6, <2>0 DEF Occurs, TextOf
    <3> QED BY <2>0, <2>2, <3>1, PlaceBefore DEF TextOf
  <2> DEFINE N == Len(u)
  <2>4. /\ Placed(u, p, p + 3) /\ (p + 3) - 1 = p + 2 /\ (p + 1) + 1 = p + 2
        /\ p + 2 \in 1 .. Len(u) + 1 /\ p + 2 \in 0 .. Len(u)
    <3>1. p + 3 \in 1 .. N /\ p + 2 \in 1 .. N /\ p + 1 \in 1 .. N /\ p \in Nat /\ N \in Nat
      BY <2>3
    <3> HIDE DEF N
    <3>2. /\ p + 1 \in 1 .. N + 1 /\ p + 3 \in 0 .. N /\ (p + 3) - 1 \in 0 .. N /\ p + 1 # p + 3 /\ p + 1 <= p + 3
          /\ (p + 3) - 1 = p + 2 /\ (p + 1) + 1 = p + 2 /\ p + 2 \in 1 .. N + 1 /\ p + 2 \in 0 .. N
      BY <3>1
    <3> QED BY <3>1, <3>2 DEF N, Placed
  <2>5. In(D, "VarDef", p + 2, p + 2, v)
    <3> HIDE DEF v
    <3>1. v = Mark("VarDefOnly", u[p + 2])
      BY <2>2 DEF v
    <3> QED BY <1>6, <2>2, <2>4, <3>1, VarDefIs
  <2> HIDE DEF v
  <2>6. In(D, "VarDefs", p + 2, p + 2, v)
    BY <1>6, <2>4, <2>5, VarDefsIs DEF Defined
  <2>7. Declared(D, u, p + 1, p + 3, v)
    BY <2>2, <2>4, <2>6 DEF Declared
  <2> QED BY <1>6, <2>2, <2>4, <2>7, DeclMade
<1> HIDE DEF h, v
<1>7. FitsItem("BlockItems", h, v)
  <2>1. ItemOf("BlockItems") = "BlockItem" /\ EndsOf("BlockItems") = {";", "}"}
    BY DEF ItemOf, EndsOf
  <2>2. ASSUME NEW D, NEW X, NEW u, NEW p, Parses(D, X, u), Occurs(h, u, p)
        PROVE  In(D, "BlockItem", p + 1, p + Len(h), v) /\ Is(u, p + Len(h), {";", "}"}) /\ Len(h) \in Nat \ {0}
    <3>1. Len(h) = 3
      BY <1>2
    <3>2. p + Len(h) = p + 3 /\ Len(h) \in Nat \ {0}
      BY <3>1
    <3> QED BY <1>6, <2>2, <3>2
  <2> QED BY <2>1, <2>2 DEF FitsItem
<1>8. ReadBack(S, "BlockItems", Words(h), v)
  BY <1>2, <1>4, <1>5, <1>7, BackItem
<1> QED BY <1>3, <1>8 DEF v

-----------------------------------------------------------------------------
(* The words of a span.                                                    *)

SpanText(t, i, j) == Words(SubSeq(t, i, j))
Layout == {"(", ")", "{", "}", ";", ",", "=", "const", "int", "void"}

LEMMA SpeltIn ==
  ASSUME NEW S, NEW t \in Seq(S), NEW i \in 1 .. Len(t) + 1, NEW j \in 0 .. Len(t)
  PROVE  SpanText(t, i, j) \in Seq(S) /\ (i > j => SpanText(t, i, j) = <<>>)
<1> DEFINE m == SubSeq(t, i, j)
<1>1. Len(t) \in Nat /\ i \in Int /\ j \in Int
  OBVIOUS
<1>2. m \in Seq(S)
  BY <1>1, SubSeqProperties
<1>3. i > j => m = <<>>
  BY <1>1, SubSeqEmpty
<1> HIDE DEF m
<1>4. Words(m) \in Seq(S) /\ (i > j => Words(m) = <<>>)
  BY <1>2, <1>3, WordsType, WordsNothing
<1> QED BY <1>4 DEF m, SpanText

LEMMA KindAt ==
  ASSUME NEW S, NEW t \in Seq(S), NEW k, NEW K, Is(t, k, K)
  PROVE  k \in 1 .. Len(t) /\ t[k] \in S /\ t[k].kind \in K
<1>1. k \in DOMAIN t /\ t[k].kind \in K
  BY DEF Is
<1>2. k \in 1 .. Len(t)
  BY <1>1
<1> QED BY <1>1, <1>2

LEMMA FirstKept ==
  ASSUME NEW S, NEW t \in Seq(S), NEW i \in 1 .. Len(t) + 1, NEW j \in 0 .. Len(t), i <= j, Is(t, i, {"ident", "return"})
  PROVE  SpanText(t, i, j) = <<t[i]>> \o SpanText(t, i + 1, j)
<1>1. i \in 1 .. Len(t) /\ t[i].kind \in WordKinds
  <2>1. i \in 1 .. Len(t) /\ t[i].kind \in {"ident", "return"}
    BY KindAt
  <2> QED BY <2>1, NoWords
<1>2. Words(<<t[i]>>) = <<t[i]>>
  BY <1>1, TokenWords
<1> QED BY <1>2, SpanFirst DEF SpanText

LEMMA FirstDropped ==
  ASSUME NEW S, NEW t \in Seq(S), NEW i \in 1 .. Len(t) + 1, NEW j \in 0 .. Len(t), i <= j, Is(t, i, Layout)
  PROVE  SpanText(t, i, j) = SpanText(t, i + 1, j)
<1>1. i \in 1 .. Len(t) /\ t[i].kind \notin WordKinds
  <2>1. i \in 1 .. Len(t) /\ t[i].kind \in Layout
    BY KindAt
  <2>2. \A kind \in Layout : kind \notin WordKinds
    BY NoWords DEF Layout
  <2> QED BY <2>1, <2>2
<1>2. Words(<<t[i]>>) = <<>>
  BY <1>1, TokenWords
<1>3. SpanText(t, i, j) = <<>> \o SpanText(t, i + 1, j)
  BY <1>2, SpanFirst DEF SpanText
<1>4. SpanText(t, i + 1, j) \in Seq(S)
  <2>1. i + 1 \in 1 .. Len(t) + 1
    BY <1>1
  <2> QED BY <2>1, SpeltIn
<1> QED BY <1>3, <1>4, ConcatEmptySeq

LEMMA LastDropped ==
  ASSUME NEW S, NEW t \in Seq(S), NEW i \in 1 .. Len(t) + 1, NEW j \in 0 .. Len(t), i <= j, Is(t, j, Layout)
  PROVE  SpanText(t, i, j) = SpanText(t, i, j - 1)
<1>1. j \in 1 .. Len(t) /\ t[j].kind \notin WordKinds
  <2>1. j \in 1 .. Len(t) /\ t[j].kind \in Layout
    BY KindAt
  <2>2. \A kind \in Layout : kind \notin WordKinds
    BY NoWords DEF Layout
  <2> QED BY <2>1, <2>2
<1>2. Words(<<t[j]>>) = <<>>
  BY <1>1, TokenWords
<1>3. SpanText(t, i, j) = SpanText(t, i, j - 1) \o <<>>
  BY <1>2, SpanLast DEF SpanText
<1>4. SpanText(t, i, j - 1) \in Seq(S)
  <2>1. j - 1 \in 0 .. Len(t)
    BY <1>1
  <2> QED BY <2>1, SpeltIn
<1> QED BY <1>3, <1>4, ConcatEmptySeq

LEMMA SpeltSplit ==
  ASSUME NEW S, NEW t \in Seq(S), NEW i \in 1 .. Len(t) + 1, NEW j \in 0 .. Len(t), NEW k \in i .. j
  PROVE  SpanText(t, i, j) = SpanText(t, i, k) \o SpanText(t, k + 1, j)
<1> DEFINE a == SubSeq(t, i, k)
           b == SubSeq(t, k + 1, j)
<1>1. Len(t) \in Nat /\ i \in Int /\ j \in Int
  OBVIOUS
<1>2. k \in i - 1 .. Len(t) /\ j \in k .. Len(t) /\ k \in 0 .. Len(t) /\ k + 1 \in 1 .. Len(t) + 1 /\ k \in Int
  BY <1>1
<1>3. SubSeq(t, i, j) = a \o b
  BY <1>2, ConcatAdjacentSubSeq
<1>4. a \in Seq(S) /\ b \in Seq(S)
  BY <1>1, <1>2, SubSeqProperties
<1> HIDE DEF a, b
<1>5. Words(a \o b) = Words(a) \o Words(b)
  BY <1>4, WordsConcat
<1>6. Words(SubSeq(t, i, j)) = Words(a) \o Words(b)
  BY <1>3, <1>5
<1> QED BY <1>6 DEF a, b, SpanText

LEMMA SplitDropped ==
  ASSUME NEW S, NEW t \in Seq(S), NEW i \in 1 .. Len(t) + 1, NEW j \in 0 .. Len(t), NEW k \in i .. j, Is(t, k, Layout)
  PROVE  SpanText(t, i, j) = SpanText(t, i, k - 1) \o SpanText(t, k + 1, j)
<1>1. Len(t) \in Nat /\ i \in Int /\ j \in Int
  OBVIOUS
<1>2. k \in 0 .. Len(t) /\ i <= k
  BY <1>1
<1>3. SpanText(t, i, k) = SpanText(t, i, k - 1)
  BY <1>2, LastDropped
<1> QED BY <1>3, SpeltSplit

LEMMA LayoutIs ==
  ASSUME NEW t, NEW k, NEW K, Is(t, k, K), K \subseteq Layout PROVE Is(t, k, Layout)
  BY DEF Is

-----------------------------------------------------------------------------
(* What a nonterminal derives can be written and read back.                *)

GivenRead(S, t, begin, end, i, j, v) ==
  \E s, w : v = Framed(begin, t[i], w, end) /\ Written(S, s, w) /\ SpanText(t, i, j) = <<t[i]>> \o s
            /\ t[i] \in S /\ t[i].kind = "ident"

LEMMA ExpRead ==
  ASSUME NEW S, Alphabet(S), NEW t \in Seq(S), NEW X, Derives(X, t), NEW i \in 1 .. Len(t) + 1, NEW j \in 0 .. Len(t),
         NEW w, In(X, "Exp", i, j, w)
  PROVE  Written(S, SpanText(t, i, j), w) /\ i <= j
<1>1. Written(S, Words(SubSeq(t, i, j)), w)
  BY ExpWritten, RankFacts
<1>2. Spells(t, i, j, ExpKinds)
  BY ExpTokens, RankFacts
<1> QED BY <1>1, <1>2 DEF Spells, SpanText

LEMMA GivenIsRead ==
  ASSUME NEW S, Alphabet(S), NEW D, NEW X, NEW t \in Seq(S), Parses(D, X, t), NEW i \in 1 .. Len(t) + 1,
         NEW j \in 0 .. Len(t), NEW begin, NEW end, NEW v, Given(X, t, begin, end, i, j, v)
  PROVE  GivenRead(S, t, begin, end, i, j, v)
<1>1. /\ i \in Int /\ j \in Int /\ i + 2 \in 1 .. Len(t) + 1 /\ i + 2 <= j
      /\ Is(t, i, {"ident"}) /\ Is(t, i + 1, {"="})
  BY GivenShape
<1>2. PICK w : In(X, "Exp", i + 2, j, w) /\ v = Framed(begin, t[i], w, end)
  BY DEF Given
<1>3. Written(S, SpanText(t, i + 2, j), w)
  <2>1. Derives(X, t)
    BY DEF Parses
  <2> QED BY <1>1, <1>2, <2>1, ExpRead
<1>4. t[i] \in S /\ t[i].kind = "ident" /\ Is(t, i, {"ident", "return"}) /\ Is(t, i + 1, Layout)
  <2>1. Is(t, i + 1, Layout)
    BY <1>1, LayoutIs DEF Layout
  <2> QED BY <1>1, <2>1 DEF Is
<1>5. i <= j /\ i + 1 <= j /\ i + 1 \in 1 .. Len(t) + 1 /\ (i + 1) + 1 = i + 2
  BY <1>1
<1>6. SpanText(t, i, j) = <<t[i]>> \o SpanText(t, i + 1, j)
  BY <1>4, <1>5, FirstKept
<1>7. SpanText(t, i + 1, j) = SpanText(t, i + 2, j)
  <2>1. SpanText(t, i + 1, j) = SpanText(t, (i + 1) + 1, j)
    BY <1>4, <1>5, FirstDropped
  <2> QED BY <1>5, <2>1
<1> QED BY <1>2, <1>3, <1>4, <1>6, <1>7 DEF GivenRead

LEMMA DefRead ==
  ASSUME NEW S, Alphabet(S), NEW D, NEW X, NEW t \in Seq(S), Parses(D, X, t), NEW each \in {"ConstDef", "VarDef"},
         NEW i \in 1 .. Len(t) + 1, NEW j \in 0 .. Len(t), NEW v, In(D, each, i, j, v)
  PROVE  ReadBack(S, "BlockItems", SpanText(t, i, j), v)
<1>1. CASE each = "ConstDef"
  <2>1. Given(X, t, "BeginConstDef", "EndConstDef", i, j, v)
    BY <1>1, ConstDefIs
  <2>2. GivenRead(S, t, "BeginConstDef", "EndConstDef", i, j, v)
    BY <2>1, GivenIsRead
  <2>3. PICK s, w : /\ v = Framed("BeginConstDef", t[i], w, "EndConstDef") /\ Written(S, s, w)
                    /\ SpanText(t, i, j) = <<t[i]>> \o s /\ t[i] \in S /\ t[i].kind = "ident"
    BY <2>2 DEF GivenRead
  <2>4. ReadBack(S, "BlockItems", <<t[i]>> \o s, Framed("BeginConstDef", t[i], w, "EndConstDef"))
    BY <2>3, BackConst
  <2> QED BY <2>3, <2>4
<1>2. CASE each = "VarDef"
  <2>1. (i = j /\ Is(t, i, {"ident"}) /\ v = Mark("VarDefOnly", t[i])) \/ Given(X, t, "BeginVarDef", "EndVarDef", i, j, v)
    BY <1>2, VarDefIs
  <2>2. CASE Given(X, t, "BeginVarDef", "EndVarDef", i, j, v)
    <3>1. GivenRead(S, t, "BeginVarDef", "EndVarDef", i, j, v)
      BY <2>2, GivenIsRead
    <3>2. PICK s, w : /\ v = Framed("BeginVarDef", t[i], w, "EndVarDef") /\ Written(S, s, w)
                      /\ SpanText(t, i, j) = <<t[i]>> \o s /\ t[i] \in S /\ t[i].kind = "ident"
      BY <3>1 DEF GivenRead
    <3>3. ReadBack(S, "BlockItems", <<t[i]>> \o s, Framed("BeginVarDef", t[i], w, "EndVarDef"))
      BY <3>2, BackVar
    <3> QED BY <3>2, <3>3
  <2>3. CASE i = j /\ Is(t, i, {"ident"}) /\ v = Mark("VarDefOnly", t[i])
    <3>1. t[i] \in S /\ t[i].kind = "ident" /\ Is(t, i, {"ident", "return"}) /\ i \in 1 .. Len(t)
      BY <2>3 DEF Is
    <3>2. Len(t) \in Nat /\ i \in Int
      OBVIOUS
    <3>3. i <= j /\ i + 1 > j /\ i + 1 \in 1 .. Len(t) + 1
      BY <2>3, <3>1, <3>2
    <3>4. SpanText(t, i, j) = <<t[i]>> \o SpanText(t, i + 1, j) /\ SpanText(t, i + 1, j) = <<>>
      BY <3>1, <3>3, FirstKept, SpeltIn
    <3>5. <<t[i]>> \o <<>> = <<t[i]>>
      <4>1. <<t[i]>> \in Seq(S)
        BY <3>1, Singleton
      <4> QED BY <4>1, ConcatEmptySeq
    <3>6. ReadBack(S, "BlockItems", <<t[i]>>, Mark("VarDefOnly", t[i]))
      BY <3>1, BackOnly
    <3> QED BY <2>3, <3>4, <3>5, <3>6
  <2> QED BY <2>1, <2>2, <2>3
<1> QED BY <1>1, <1>2

LEMMA ListRead ==
  ASSUME NEW S, Alphabet(S), NEW D, NEW X, NEW t \in Seq(S), Parses(D, X, t)
  PROVE  \A nt \in Lists, i \in 1 .. Len(t) + 1, j \in 0 .. Len(t) :
           \A v : In(D, nt, i, j, v) => ReadBack(S, "BlockItems", SpanText(t, i, j), v)
<1> DEFINE N == Len(t)
           Full(s) == \A v : In(D, s[1], s[2], s[3], v) => ReadBack(S, "BlockItems", SpanText(t, s[2], s[3]), v)
           G == {s \in Lists \X (1 .. N + 1) \X (0 .. N) : Full(s)}
<1>1. N \in Nat
  BY DEF Parses
<1>2. ASSUME NEW nt \in Lists, NEW i \in 1 .. N + 1, NEW j \in 0 .. N
      PROVE  <<nt, i, j>> \in G <=> \A v : In(D, nt, i, j, v) => ReadBack(S, "BlockItems", SpanText(t, i, j), v)
  OBVIOUS
<1> HIDE DEF G
<1>3. ASSUME NEW nt \in Lists, NEW i \in 1 .. N + 1, NEW j \in 0 .. N,
             \A m \in Lists, p \in 1 .. N + 1, q \in 0 .. N :
               Weight(m, p, q) < Weight(nt, i, j) => <<m, p, q>> \in G,
             NEW v, In(D, nt, i, j, v)
      PROVE  ReadBack(S, "BlockItems", SpanText(t, i, j), v)
  <2> DEFINE each == EachOf(nt)
  <2>1. Defined(D, t, nt, each, i, j, v)
    BY <1>3, ListIs
  <2>2. Rank[nt] \in 0 .. 8 /\ Rank[each] \in 0 .. 8 /\ Rank[each] < Rank[nt] /\ each \in {"ConstDef", "VarDef"}
    BY ListFacts
  <2> HIDE DEF each
  <2>3. CASE In(D, each, i, j, v)
    BY <2>2, <2>3, DefRead
  <2>4. CASE ~In(D, each, i, j, v)
    <3>1. PICK k \in i .. j : \E x, y : /\ Is(t, k, {","}) /\ In(D, each, i, k - 1, x) /\ In(D, nt, k + 1, j, y)
                                        /\ v = x \o y
      BY <2>1, <2>4 DEF Defined
    <3>2. PICK x, y : /\ Is(t, k, {","}) /\ In(D, each, i, k - 1, x) /\ In(D, nt, k + 1, j, y)
                      /\ v = x \o y
      BY <3>1
    <3>3. k - 1 \in 0 .. N /\ k + 1 \in 1 .. N + 1 /\ Weight(nt, k + 1, j) < Weight(nt, i, j)
      <4>1. \A m \in i .. j : /\ m - 1 \in 0 .. N /\ m + 1 \in 1 .. N + 1
                              /\ Weight(nt, m + 1, j) < Weight(nt, i, j)
        BY <1>1, <2>2, ListSpans
      <4> QED BY <4>1
    <3>4. ReadBack(S, "BlockItems", SpanText(t, i, k - 1), x)
      BY <2>2, <3>2, <3>3, DefRead
    <3>5. ReadBack(S, "BlockItems", SpanText(t, k + 1, j), y)
      BY <1>2, <1>3, <3>2, <3>3
    <3>6. SpanText(t, i, j) = SpanText(t, i, k - 1) \o SpanText(t, k + 1, j)
      <4>1. Is(t, k, Layout)
        BY <3>2, LayoutIs DEF Layout
      <4> QED BY <4>1, SplitDropped
    <3>7. ReadBack(S, "BlockItems", SpanText(t, i, k - 1) \o SpanText(t, k + 1, j), x \o y)
      BY <3>4, <3>5, BackBoth
    <3> QED BY <3>2, <3>6, <3>7
  <2> QED BY <2>3, <2>4
<1>4. \A nt \in Lists, i \in 1 .. N + 1, j \in 0 .. N :
        (\A m \in Lists, p \in 1 .. N + 1, q \in 0 .. N :
           Weight(m, p, q) < Weight(nt, i, j) => <<m, p, q>> \in G) => <<nt, i, j>> \in G
  BY <1>2, <1>3
<1>5. \A nt \in Lists, i \in 1 .. N + 1, j \in 0 .. N : <<nt, i, j>> \in G
  <2> HIDE DEF N
  <2>1. \A nt \in Lists : Rank[nt] \in 0 .. 8
    BY ListFacts
  <2> QED BY <1>1, <1>4, <2>1, ByWeight
<1> QED BY <1>2, <1>5

LEMMA DeclRead ==
  ASSUME NEW S, Alphabet(S), NEW D, NEW X, NEW t \in Seq(S), Parses(D, X, t),
         NEW i \in 1 .. Len(t) + 1, NEW j \in 0 .. Len(t), NEW v, In(D, "Decl", i, j, v)
  PROVE  ReadBack(S, "BlockItems", SpanText(t, i, j), v)
<1>1. Len(t) \in Nat /\ DOMAIN t = 1 .. Len(t) /\ i \in Int /\ j \in Int
  BY DEF Parses
<1>2. Declared(D, t, i, j, v)
  BY DeclIs
<1>3. Is(t, j, {";"}) /\ j \in 1 .. Len(t) /\ j - 1 \in 0 .. Len(t) /\ Is(t, j, Layout)
  <2>1. Is(t, j, {";"})
    BY <1>2, Zenon DEF Declared
  <2>2. Is(t, j, Layout)
    BY <2>1, LayoutIs DEF Layout
  <2> QED BY <1>1, <2>1, <2>2, PlaceBefore
<1>4. ASSUME NEW nt \in Lists, NEW p \in 1 .. Len(t) + 1, In(D, nt, p, j - 1, v)
      PROVE  p <= j - 1 /\ ReadBack(S, "BlockItems", SpanText(t, p, j - 1), v)
  <2>1. Spells(t, p, j - 1, ListKinds)
    BY <1>3, <1>4, ListTokens
  <2>2. ReadBack(S, "BlockItems", SpanText(t, p, j - 1), v)
    BY <1>3, <1>4, ListRead
  <2> QED BY <2>1, <2>2 DEF Spells
<1>5. BType \subseteq Layout /\ {"const"} \subseteq Layout
  BY DEF BType, Layout
<1>6. CASE Is(t, i, {"const"}) /\ Is(t, i + 1, BType) /\ In(D, "ConstDefs", i + 2, j - 1, v)
  <2>1. Is(t, i, Layout) /\ Is(t, i + 1, Layout)
    BY <1>5, <1>6, LayoutIs
  <2>2. i + 2 \in 1 .. Len(t) + 1 /\ i + 1 \in 1 .. Len(t) + 1
    BY <1>1, <1>6 DEF Is
  <2>3. i + 2 <= j - 1 /\ ReadBack(S, "BlockItems", SpanText(t, i + 2, j - 1), v)
    BY <1>4, <1>6, <2>2 DEF Lists
  <2>4. i <= j /\ i <= j - 1 /\ i + 1 <= j - 1 /\ (i + 1) + 1 = i + 2
    BY <1>1, <2>3
  <2>5. SpanText(t, i, j) = SpanText(t, i, j - 1)
    BY <1>3, <2>4, LastDropped
  <2>6. SpanText(t, i, j - 1) = SpanText(t, i + 1, j - 1)
    BY <1>3, <2>1, <2>4, FirstDropped
  <2>7. SpanText(t, i + 1, j - 1) = SpanText(t, (i + 1) + 1, j - 1)
    BY <1>3, <2>1, <2>2, <2>4, FirstDropped
  <2> QED BY <2>3, <2>4, <2>5, <2>6, <2>7
<1>7. CASE Is(t, i, BType) /\ In(D, "VarDefs", i + 1, j - 1, v)
  <2>1. Is(t, i, Layout)
    BY <1>5, <1>7, LayoutIs
  <2>2. i + 1 \in 1 .. Len(t) + 1
    BY <1>1, <1>7 DEF Is
  <2>3. i + 1 <= j - 1 /\ ReadBack(S, "BlockItems", SpanText(t, i + 1, j - 1), v)
    BY <1>4, <1>7, <2>2 DEF Lists
  <2>4. i <= j /\ i <= j - 1
    BY <1>1, <2>3
  <2>5. SpanText(t, i, j) = SpanText(t, i, j - 1)
    BY <1>3, <2>4, LastDropped
  <2>6. SpanText(t, i, j - 1) = SpanText(t, i + 1, j - 1)
    BY <1>3, <2>1, <2>4, FirstDropped
  <2> QED BY <2>3, <2>5, <2>6
<1> QED BY <1>2, <1>6, <1>7 DEF Declared

LEMMA SpellingIs ==
  ASSUME NEW v
  PROVE  Spelling(v) = Run(Far(<<>>, <<>>), v).tokens
  BY DEF Spelling, Run, Far

LEMMA OccursWhole ==
  ASSUME NEW e, Len(e) \in Nat
  PROVE  Occurs(e, e, 0)
<1>1. \A k \in 1 .. Len(e) : 0 + k = k
  OBVIOUS
<1>2. 0 \in Nat /\ 0 + Len(e) <= Len(e)
  OBVIOUS
<1> QED BY <1>1, <1>2 DEF Occurs

-----------------------------------------------------------------------------
(* A program is read back.                                                 *)

LEMMA LineRead ==
  ASSUME NEW S, Alphabet(S), NEW D, NEW X, NEW t \in Seq(S), Parses(D, X, t),
         NEW i \in 1 .. Len(t) + 1, NEW j \in 0 .. Len(t), NEW v, Line(X, t, i, j, v)
  PROVE  ReadBack(S, "BlockItems", SpanText(t, i, j), v)
<1>1. Len(t) \in Nat /\ DOMAIN t = 1 .. Len(t) /\ i \in Int /\ j \in Int /\ Derives(X, t)
  BY DEF Parses
<1>2. Is(t, j, {";"}) /\ j \in 1 .. Len(t) /\ j - 1 \in 0 .. Len(t) /\ Is(t, j, Layout)
  <2>1. Is(t, j, {";"})
    BY Zenon DEF Line
  <2>2. Is(t, j, Layout)
    BY <2>1, LayoutIs DEF Layout
  <2> QED BY <1>1, <2>1, <2>2, PlaceBefore
<1>3. i <= j
  <2>1. FirstEnd(t, i, j)
    BY LineShape
  <2> QED BY <2>1 DEF FirstEnd
<1>4. SpanText(t, i, j) = SpanText(t, i, j - 1)
  BY <1>2, <1>3, LastDropped
<1>5. CASE i = j /\ v = <<>>
  <2>1. i > j - 1
    BY <1>1, <1>5
  <2>2. SpanText(t, i, j - 1) = <<>>
    BY <1>2, <2>1, SpeltIn
  <2>3. ReadBack(S, "BlockItems", <<>>, <<>>)
    BY BackNothing
  <2> QED BY <1>4, <1>5, <2>2, <2>3
<1>6. CASE \E w : In(X, "Exp", i, j - 1, w) /\ v = Framed("BeginRaw", NoToken, w, "EndRawExp")
  <2>1. PICK w : In(X, "Exp", i, j - 1, w) /\ v = Framed("BeginRaw", NoToken, w, "EndRawExp")
    BY <1>6
  <2>2. Written(S, SpanText(t, i, j - 1), w)
    BY <1>1, <1>2, <2>1, ExpRead
  <2>3. ReadBack(S, "BlockItems", SpanText(t, i, j - 1), Framed("BeginRaw", NoToken, w, "EndRawExp"))
    BY <2>2, BackRaw
  <2> QED BY <1>4, <2>1, <2>3
<1>7. CASE /\ Is(t, i, {"return"})
           /\ \E w : In(X, "Exp", i + 1, j - 1, w) /\ v = Framed("BeginReturn", NoToken, w, "EndReturn")
  <2>1. PICK w : In(X, "Exp", i + 1, j - 1, w) /\ v = Framed("BeginReturn", NoToken, w, "EndReturn")
    BY <1>7
  <2>2. i \in 1 .. Len(t) /\ t[i] \in S /\ t[i].kind \in {"return"}
    BY <1>7, KindAt
  <2>3. i + 1 \in 1 .. Len(t) + 1
    BY <1>1, <2>2
  <2>4. Written(S, SpanText(t, i + 1, j - 1), w) /\ i + 1 <= j - 1
    BY <1>1, <1>2, <2>1, <2>3, ExpRead
  <2>5. t[i] = Terminal("return")
    <3>1. t[i].kind = "return"
      BY <2>2
    <3>2. "return" \in Terminals
      BY KnownTerminals
    <3> QED BY <2>2, <3>1, <3>2 DEF Alphabet
  <2>6. SpanText(t, i, j - 1) = <<t[i]>> \o SpanText(t, i + 1, j - 1)
    <3>1. Is(t, i, {"ident", "return"})
      BY <1>7 DEF Is
    <3>2. i <= j - 1
      BY <1>1, <2>4
    <3> QED BY <1>2, <3>1, <3>2, FirstKept
  <2>7. ReadBack(S, "BlockItems", <<Terminal("return")>> \o SpanText(t, i + 1, j - 1),
                 Framed("BeginReturn", NoToken, w, "EndReturn"))
    BY <2>4, BackReturn
  <2> QED BY <1>4, <2>1, <2>5, <2>6, <2>7
<1>8. CASE Given(X, t, "BeginAssign", "EndAssign", i, j - 1, v)
  <2>1. GivenRead(S, t, "BeginAssign", "EndAssign", i, j - 1, v)
    BY <1>2, <1>8, GivenIsRead
  <2>2. PICK s, w : /\ v = Framed("BeginAssign", t[i], w, "EndAssign") /\ Written(S, s, w)
                    /\ SpanText(t, i, j - 1) = <<t[i]>> \o s /\ t[i] \in S /\ t[i].kind = "ident"
    BY <2>1 DEF GivenRead
  <2>3. ReadBack(S, "BlockItems", <<t[i]>> \o s, Framed("BeginAssign", t[i], w, "EndAssign"))
    BY <2>2, BackAssign
  <2> QED BY <1>4, <2>2, <2>3
<1> QED BY <1>5, <1>6, <1>7, <1>8 DEF Line

\* Where a nonterminal's items are read back: a program's, and a block's.
ListOf(nt) == IF nt \in {"FuncDef", "CompUnit"} THEN "CompUnit" ELSE "BlockItems"
Readable(S, D, t, nt, i, j) ==
  \A v : In(D, nt, i, j, v) => ReadBack(S, ListOf(nt), SpanText(t, i, j), v)

LEMMA ListOfIs ==
  /\ \A nt \in {"Block", "Stmt", "BlockItem", "BlockItems"} : ListOf(nt) = "BlockItems"
  /\ ListOf("FuncDef") = "CompUnit" /\ ListOf("CompUnit") = "CompUnit"
  BY DEF ListOf

LEMMA BlockReadable ==
  ASSUME NEW S, Alphabet(S), NEW D, NEW X, NEW t \in Seq(S), Parses(D, X, t), NEW i \in 1 .. Len(t) + 1,
         NEW j \in 0 .. Len(t), i < j => Readable(S, D, t, "BlockItems", i + 1, j - 1)
  PROVE  Readable(S, D, t, "Block", i, j)
<1> SUFFICES ASSUME NEW v, In(D, "Block", i, j, v) PROVE ReadBack(S, "BlockItems", SpanText(t, i, j), v)
  BY ListOfIs DEF Readable
<1>1. i < j /\ Is(t, i, {"{"}) /\ Is(t, j, {"}"}) /\ In(D, "BlockItems", i + 1, j - 1, v)
  BY BlockIs
<1>2. ReadBack(S, "BlockItems", SpanText(t, i + 1, j - 1), v)
  BY <1>1, ListOfIs DEF Readable
<1>3. t[i].kind \notin WordKinds /\ t[j].kind \notin WordKinds
  <2>1. t[i].kind \in {"{"} /\ t[j].kind \in {"}"}
    BY <1>1, KindAt
  <2>2. t[i].kind = "{" /\ t[j].kind = "}"
    BY <2>1
  <2> QED BY <2>2, NoWords
<1>4. SpanText(t, i, j) = SpanText(t, i + 1, j - 1)
  BY <1>1, <1>3, EnclosedWords DEF SpanText
<1> QED BY <1>2, <1>4

LEMMA StmtReadable ==
  ASSUME NEW S, Alphabet(S), NEW D, NEW X, NEW t \in Seq(S), Parses(D, X, t), NEW i \in 1 .. Len(t) + 1,
         NEW j \in 0 .. Len(t), Readable(S, D, t, "Block", i, j)
  PROVE  Readable(S, D, t, "Stmt", i, j)
<1> SUFFICES ASSUME NEW v, In(D, "Stmt", i, j, v) PROVE ReadBack(S, "BlockItems", SpanText(t, i, j), v)
  BY ListOfIs DEF Readable
<1>1. BlockStmt(D, i, j, v) \/ Line(X, t, i, j, v)
  BY StmtRule
<1>2. CASE BlockStmt(D, i, j, v)
  <2>1. PICK w : In(D, "Block", i, j, w) /\ v = Framed("BeginBlock", NoToken, w, "EndBlock")
    BY <1>2 DEF BlockStmt
  <2>2. ReadBack(S, "BlockItems", SpanText(t, i, j), w)
    BY <2>1, ListOfIs DEF Readable
  <2> QED BY <2>1, <2>2, BackBlock
<1>3. CASE Line(X, t, i, j, v)
  BY <1>3, LineRead
<1> QED BY <1>1, <1>2, <1>3

LEMMA BlockItemReadable ==
  ASSUME NEW S, Alphabet(S), NEW D, NEW X, NEW t \in Seq(S), Parses(D, X, t), NEW i \in 1 .. Len(t) + 1,
         NEW j \in 0 .. Len(t), Readable(S, D, t, "Stmt", i, j)
  PROVE  Readable(S, D, t, "BlockItem", i, j)
<1> SUFFICES ASSUME NEW v, In(D, "BlockItem", i, j, v) PROVE ReadBack(S, "BlockItems", SpanText(t, i, j), v)
  BY ListOfIs DEF Readable
<1>1. In(D, "Stmt", i, j, v) \/ In(D, "Decl", i, j, v)
  BY BlockItemIs
<1>2. CASE In(D, "Stmt", i, j, v)
  BY <1>2, ListOfIs DEF Readable
<1>3. CASE In(D, "Decl", i, j, v)
  BY <1>3, DeclRead
<1> QED BY <1>1, <1>2, <1>3

LEMMA ItemsReadable ==
  ASSUME NEW S, Alphabet(S), NEW L \in {"CompUnit", "BlockItems"}, NEW D, NEW X, NEW t \in Seq(S), Parses(D, X, t),
         NEW i \in 1 .. Len(t) + 1, NEW j \in 0 .. Len(t),
         \A k \in i .. j : Readable(S, D, t, ItemOf(L), i, k) /\ Readable(S, D, t, L, k + 1, j)
  PROVE  Readable(S, D, t, L, i, j)
<1>1. ListOf(L) = L /\ ListOf(ItemOf(L)) = L
  BY ListOfIs DEF ItemOf
<1> SUFFICES ASSUME NEW v, In(D, L, i, j, v) PROVE ReadBack(S, L, SpanText(t, i, j), v)
  BY <1>1 DEF Readable
<1>2. Listed(D, t, L, ItemOf(L), EndsOf(L), i, j, v)
  BY ItemsIs
<1>3. CASE i > j /\ v = <<>>
  <2>1. SpanText(t, i, j) = <<>>
    BY <1>3, SpeltIn
  <2>2. ReadBack(S, L, <<>>, <<>>)
    BY BackNothing
  <2> QED BY <1>3, <2>1, <2>2
<1>4. CASE ~(i > j /\ v = <<>>)
  <2>1. PICK k \in i .. j : \E x, y : /\ In(D, ItemOf(L), i, k, x) /\ In(D, L, k + 1, j, y) /\ v = x \o y
    BY <1>2, <1>4 DEF Listed
  <2>2. PICK x, y : In(D, ItemOf(L), i, k, x) /\ In(D, L, k + 1, j, y) /\ v = x \o y
    BY <2>1
  <2>3. Readable(S, D, t, ItemOf(L), i, k) /\ Readable(S, D, t, L, k + 1, j)
    OBVIOUS
  <2>4. ReadBack(S, L, SpanText(t, i, k), x) /\ ReadBack(S, L, SpanText(t, k + 1, j), y)
    BY <1>1, <2>2, <2>3 DEF Readable
  <2>5. ReadBack(S, L, SpanText(t, i, k) \o SpanText(t, k + 1, j), x \o y)
    BY <2>4, BackBoth
  <2>6. SpanText(t, i, j) = SpanText(t, i, k) \o SpanText(t, k + 1, j)
    BY SpeltSplit
  <2> QED BY <2>2, <2>5, <2>6
<1> QED BY <1>3, <1>4

LEMMA HeadWords ==
  ASSUME NEW S, NEW t \in Seq(S), NEW i \in 1 .. Len(t) + 1, NEW j \in 0 .. Len(t), i + 4 < j,
         Is(t, i, BType), Is(t, i + 1, {"ident"}), Is(t, i + 2, {"("}), Is(t, i + 3, {")"})
  PROVE  SpanText(t, i, j) = <<t[i + 1]>> \o SpanText(t, i + 4, j)
<1>1. Len(t) \in Nat /\ i \in Int /\ j \in Int
  OBVIOUS
<1>2. /\ i + 1 \in 1 .. Len(t) + 1 /\ i + 2 \in 1 .. Len(t) + 1 /\ i + 3 \in 1 .. Len(t) + 1
      /\ i <= j /\ i + 1 <= j /\ i + 2 <= j /\ i + 3 <= j
      /\ (i + 1) + 1 = i + 2 /\ (i + 2) + 1 = i + 3 /\ (i + 3) + 1 = i + 4
  BY <1>1
<1>3. /\ Is(t, i, Layout) /\ Is(t, i + 2, Layout) /\ Is(t, i + 3, Layout) /\ Is(t, i + 1, {"ident", "return"})
  <2>1. BType \subseteq Layout /\ {"("} \subseteq Layout /\ {")"} \subseteq Layout
    BY DEF BType, Layout
  <2>2. Is(t, i + 1, {"ident", "return"})
    BY DEF Is
  <2> QED BY <2>1, <2>2, LayoutIs
<1>4. SpanText(t, i, j) = SpanText(t, i + 1, j)
  BY <1>2, <1>3, FirstDropped
<1> DEFINE a == i + 1
           b == i + 2
           c == i + 3
<1>5. a \in 1 .. Len(t) + 1 /\ b \in 1 .. Len(t) + 1 /\ c \in 1 .. Len(t) + 1 /\ a <= j /\ b <= j /\ c <= j
  BY <1>2
<1>6. Is(t, b, Layout) /\ Is(t, c, Layout) /\ Is(t, a, {"ident", "return"})
  BY <1>3
<1>7. a + 1 = b /\ b + 1 = c /\ c + 1 = i + 4
  BY <1>2
<1> HIDE DEF a, b, c
<1>8. SpanText(t, a, j) = <<t[a]>> \o SpanText(t, a + 1, j)
  BY <1>5, <1>6, FirstKept
<1>9. SpanText(t, b, j) = SpanText(t, b + 1, j)
  BY <1>5, <1>6, FirstDropped
<1>10. SpanText(t, c, j) = SpanText(t, c + 1, j)
  BY <1>5, <1>6, FirstDropped
<1>11. SpanText(t, a, j) = <<t[a]>> \o SpanText(t, i + 4, j)
  BY <1>7, <1>8, <1>9, <1>10
<1> QED BY <1>4, <1>11 DEF a

LEMMA FuncDefReadable ==
  ASSUME NEW S, Alphabet(S), NEW D, NEW X, NEW t \in Seq(S), Parses(D, X, t), NEW i \in 1 .. Len(t) + 1,
         NEW j \in 0 .. Len(t), i + 4 \in 1 .. Len(t) + 1 => Readable(S, D, t, "Block", i + 4, j)
  PROVE  Readable(S, D, t, "FuncDef", i, j)
<1> SUFFICES ASSUME NEW v, In(D, "FuncDef", i, j, v) PROVE ReadBack(S, "CompUnit", SpanText(t, i, j), v)
  BY ListOfIs DEF Readable
<1>1. /\ Is(t, i, BType) /\ Is(t, i + 1, {"ident"}) /\ Is(t, i + 2, {"("}) /\ Is(t, i + 3, {")"})
      /\ \E w : In(D, "Block", i + 4, j, w) /\ v = Framed("BeginFunc", t[i + 1], w, "EndFunc")
  BY FuncDefIs
<1>2. PICK w : In(D, "Block", i + 4, j, w) /\ v = Framed("BeginFunc", t[i + 1], w, "EndFunc")
  BY <1>1
<1>3. i + 4 \in 1 .. Len(t) + 1
  <2>1. Len(t) \in Nat /\ DOMAIN t = 1 .. Len(t)
    BY DEF Parses
  <2>2. i + 3 \in 1 .. Len(t)
    BY <1>1, <2>1, PlaceBefore
  <2> QED BY <2>1, <2>2
<1>4. ReadBack(S, "BlockItems", SpanText(t, i + 4, j), w)
  BY <1>2, <1>3, ListOfIs DEF Readable
<1>5. i + 4 < j
  BY <1>2, <1>3, BlockIs
<1>6. SpanText(t, i, j) = <<t[i + 1]>> \o SpanText(t, i + 4, j)
  BY <1>1, <1>5, HeadWords
<1>7. t[i + 1] \in S /\ t[i + 1].kind = "ident"
  <2>1. t[i + 1] \in S /\ t[i + 1].kind \in {"ident"}
    BY <1>1, KindAt
  <2> QED BY <2>1
<1>8. ReadBack(S, "CompUnit", <<t[i + 1]>> \o SpanText(t, i + 4, j), Framed("BeginFunc", t[i + 1], w, "EndFunc"))
  BY <1>4, <1>7, BackFunc
<1> QED BY <1>2, <1>6, <1>8

LEMMA TreesReadable ==
  ASSUME NEW S, Alphabet(S), NEW D, NEW X, NEW t \in Seq(S), Parses(D, X, t)
  PROVE  \A nt \in Trees, i \in 1 .. Len(t) + 1, j \in 0 .. Len(t) : Readable(S, D, t, nt, i, j)
<1> DEFINE N == Len(t)
           G == {s \in Trees \X (1 .. N + 1) \X (0 .. N) : Readable(S, D, t, s[1], s[2], s[3])}
<1>1. N \in Nat
  BY DEF Parses
<1>2. ASSUME NEW nt \in Trees, NEW i \in 1 .. N + 1, NEW j \in 0 .. N
      PROVE  <<nt, i, j>> \in G <=> Readable(S, D, t, nt, i, j)
  <2> DEFINE s == <<nt, i, j>>
  <2>1. s \in Trees \X (1 .. N + 1) \X (0 .. N) /\ s[1] = nt /\ s[2] = i /\ s[3] = j
    OBVIOUS
  <2> HIDE DEF s
  <2>2. s \in G <=> Readable(S, D, t, s[1], s[2], s[3])
    BY <2>1, Zenon
  <2> QED BY <2>1, <2>2 DEF s
<1> HIDE DEF G
<1>3. ASSUME NEW nt \in Trees, NEW i \in 1 .. N + 1, NEW j \in 0 .. N,
             \A m \in Trees, p \in 1 .. N + 1, q \in 0 .. N :
               Weight(m, p, q) < Weight(nt, i, j) => <<m, p, q>> \in G
      PROVE  Readable(S, D, t, nt, i, j)
  <2>1. ASSUME NEW m \in Trees, NEW p \in 1 .. N + 1, NEW q \in 0 .. N, Weight(m, p, q) < Weight(nt, i, j)
        PROVE  Readable(S, D, t, m, p, q)
    BY <1>2, <1>3, <2>1
  <2>2. i \in Int /\ j \in Int
    BY <1>1
  <2>3. CASE nt = "Block"
    <3>1. i < j => i + 1 \in 1 .. N + 1 /\ j - 1 \in 0 .. N /\ Weight("BlockItems", i + 1, j - 1) < Weight("Block", i, j)
      BY <1>1, InsideBlock
    <3>2. i < j => Readable(S, D, t, "BlockItems", i + 1, j - 1)
      BY <2>1, <2>3, <3>1 DEF Trees
    <3> QED BY <2>3, <3>2, BlockReadable
  <2>4. CASE nt = "Stmt"
    <3>1. Weight("Block", i, j) < Weight("Stmt", i, j)
      BY <2>2, LowerRank, TreeRanks
    <3>2. Readable(S, D, t, "Block", i, j)
      BY <2>1, <2>4, <3>1 DEF Trees
    <3> QED BY <2>4, <3>2, StmtReadable
  <2>5. CASE nt = "BlockItem"
    <3>1. Weight("Stmt", i, j) < Weight("BlockItem", i, j)
      BY <2>2, LowerRank, TreeRanks
    <3>2. Readable(S, D, t, "Stmt", i, j)
      BY <2>1, <2>5, <3>1 DEF Trees
    <3> QED BY <2>5, <3>2, BlockItemReadable
  <2>6. CASE nt = "FuncDef"
    <3>1. ASSUME i + 4 \in 1 .. N + 1 PROVE Readable(S, D, t, "Block", i + 4, j)
      <4>1. i <= i + 4 /\ j <= j
        BY <2>2
      <4>2. Weight("Block", i + 4, j) < Weight("FuncDef", i, j)
        BY <1>1, <3>1, <4>1, ShorterSpan, TreeRanks
      <4> QED BY <2>1, <2>6, <3>1, <4>2 DEF Trees
    <3> QED BY <2>6, <3>1, FuncDefReadable
  <2>7. CASE nt = "BlockItems"
    <3>1. \A k \in i .. j : /\ k \in 0 .. N /\ k + 1 \in 1 .. N + 1
                            /\ Weight("BlockItem", i, k) < Weight("BlockItems", i, j)
                            /\ Weight("BlockItems", k + 1, j) < Weight("BlockItems", i, j)
      BY <1>1, ListSpans, TreeRanks
    <3>2. \A k \in i .. j : Readable(S, D, t, "BlockItem", i, k) /\ Readable(S, D, t, "BlockItems", k + 1, j)
      BY <2>1, <2>7, <3>1 DEF Trees
    <3>3. ItemOf("BlockItems") = "BlockItem"
      BY DEF ItemOf
    <3> QED BY <2>7, <3>2, <3>3, ItemsReadable
  <2>8. CASE nt = "CompUnit"
    <3>1. \A k \in i .. j : /\ k \in 0 .. N /\ k + 1 \in 1 .. N + 1
                            /\ Weight("FuncDef", i, k) < Weight("CompUnit", i, j)
                            /\ Weight("CompUnit", k + 1, j) < Weight("CompUnit", i, j)
      BY <1>1, ListSpans, TreeRanks
    <3>2. \A k \in i .. j : Readable(S, D, t, "FuncDef", i, k) /\ Readable(S, D, t, "CompUnit", k + 1, j)
      BY <2>1, <2>8, <3>1 DEF Trees
    <3>3. ItemOf("CompUnit") = "FuncDef"
      BY DEF ItemOf
    <3> QED BY <2>8, <3>2, <3>3, ItemsReadable
  <2> QED BY <2>3, <2>4, <2>5, <2>6, <2>7, <2>8 DEF Trees
<1>4. \A nt \in Trees, i \in 1 .. N + 1, j \in 0 .. N :
        (\A m \in Trees, p \in 1 .. N + 1, q \in 0 .. N :
           Weight(m, p, q) < Weight(nt, i, j) => <<m, p, q>> \in G) => <<nt, i, j>> \in G
  BY <1>2, <1>3
<1>5. \A nt \in Trees, i \in 1 .. N + 1, j \in 0 .. N : <<nt, i, j>> \in G
  <2> HIDE DEF N
  <2>1. \A nt \in Trees : Rank[nt] \in 0 .. 8
    BY ProgramRanks DEF Trees, NonTerminals
  <2> QED BY <1>1, <1>4, <2>1, ByWeight
<1> QED BY <1>2, <1>5

\* What a program's tokens derive can be written, with the same words, and has
\* then one derivation, the same.
WrittenAgain(t, v) ==
  Words(Spelling(v)) = Words(t) /\ Derivations(Spelling(v)) = {v}

LEMMA ProgramsAreRead ==
  ASSUME NEW S, Alphabet(S), NEW t \in Seq(S), NEW v \in Derivations(t)
  PROVE  WrittenAgain(t, v)
<1> DEFINE X == Expressions(t)
           s == Words(t)
<1>1. Len(t) \in Nat /\ DOMAIN t = 1 .. Len(t)
  OBVIOUS
<1>2. PICK D : Produces(D, X, t) /\ Derivations(t) = D[<<"CompUnit", 1, Len(t)>>]
  BY <1>1, DerivationsAre
<1>3. Parses(D, X, t)
  BY <1>1, <1>2, ExpressionsDerive DEF Parses
<1>4. In(D, "CompUnit", 1, Len(t), v)
  BY <1>2, Zenon DEF In
<1> HIDE DEF X
<1>5. ReadBack(S, "CompUnit", s, v)
  <2>1. 1 \in 1 .. Len(t) + 1 /\ Len(t) \in 0 .. Len(t)
    BY <1>1
  <2>2. Readable(S, D, t, "CompUnit", 1, Len(t))
    BY <1>3, <2>1, TreesReadable DEF Trees
  <2>3. SubSeq(t, 1, Len(t)) = t
    BY SubSeqFull
  <2> QED BY <1>4, <2>2, <2>3, ListOfIs DEF Readable, SpanText
<1>6. PICK e \in Seq(S) : Puts(S, v, e) /\ Words(e) = s /\ FitsList(S, "CompUnit", e, v)
  BY <1>5 DEF ReadBack
<1>7. v \in Seq(VisitsOver(S))
  BY <1>5 DEF ReadBack
<1>8. Spelling(v) = e
  <2>1. Spelling(v) = Run(Far(<<>>, <<>>), v).tokens
    BY <1>7, SpellingIs
  <2>2. Run(Far(<<>>, <<>>), v) = Far(<<>> \o e, <<>>)
    BY <1>6, NoneIn DEF Puts
  <2>3. <<>> \o e = e
    BY ConcatEmptySeq
  <2> QED BY <2>1, <2>2, <2>3 DEF Far
<1>9. v \in Derivations(e)
  <2> DEFINE Y == Expressions(e)
  <2>1. Len(e) \in Nat /\ DOMAIN e = 1 .. Len(e)
    OBVIOUS
  <2>2. PICK E : Produces(E, Y, e) /\ Derivations(e) = E[<<"CompUnit", 1, Len(e)>>]
    BY <2>1, DerivationsAre
  <2>3. Parses(E, Y, e)
    BY <2>1, <2>2, ExpressionsDerive DEF Parses
  <2> HIDE DEF Y
  <2>4. Occurs(e, e, 0)
    BY <2>1, OccursWhole
  <2>5. In(E, "CompUnit", Len(e) + 1, Len(e), <<>>)
    <3>1. Len(e) + 1 \in 1 .. Len(e) + 1 /\ Len(e) \in 0 .. Len(e) /\ Len(e) + 1 > Len(e)
      BY <2>1
    <3>2. Listed(E, e, "CompUnit", "FuncDef", {"}"}, Len(e) + 1, Len(e), <<>>)
      BY <3>1 DEF Listed
    <3> QED BY <2>3, <3>1, <3>2, CompUnitIs
  <2>6. Prepends(S, "CompUnit", e, v, E, e, 0, Len(e), <<>>)
    BY <1>6, <2>3, <2>4 DEF FitsList
  <2>7. Len(e) \in 0 .. Len(e) /\ 0 + Len(e) <= Len(e) /\ (0 + Len(e)) + 1 = Len(e) + 1 /\ 0 + 1 = 1
    BY <2>1
  <2>8. <<>> \in Seq(VisitsOver(S)) /\ v \o <<>> = v
    BY <1>7, NoneIn, ConcatEmptySeq
  <2>9. In(E, "CompUnit", 1, Len(e), v)
    BY <2>5, <2>6, <2>7, <2>8 DEF Prepends
  <2> QED BY <2>2, <2>9, Zenon DEF In
<1>10. Derivations(e) = {v}
  BY <1>9, OneDerivation
<1> QED BY <1>6, <1>8, <1>10 DEF WrittenAgain

\* The tokens of a text, and those of the grammar.
AllTokens(t) == TokensIn(t) \cup {Terminal(kind) : kind \in Terminals}

LEMMA AllTokensAre ==
  ASSUME NEW t PROVE Alphabet(AllTokens(t))
<1>1. "none" \notin Terminals /\ "ident" \notin Terminals /\ "number" \notin Terminals
  BY DEF Terminals, Keywords
<1>2. ASSUME NEW r \in Rules \ Skipped, NEW l PROVE TokenOf(r, l).kind \in Terminals => TokenOf(r, l) = Terminal(TokenOf(r, l).kind)
  <2>1. CASE r = "literal"
    <3>1. TokenOf(r, l) = Terminal(CHOOSE u \in Terminals : Spelt(u) = l)
      BY <2>1 DEF TokenOf
    <3> DEFINE c == CHOOSE u \in Terminals : Spelt(u) = l
    <3> HIDE DEF c
    <3>2. TokenOf(r, l) = Terminal(c)
      BY <3>1 DEF c
    <3> QED BY <3>2, TerminalKind
  <2>2. CASE r = "ident"
    <3>1. TokenOf(r, l) = Ident(l)
      BY <2>2 DEF TokenOf
    <3> QED BY <1>1, <3>1 DEF Ident, Token
  <2>3. CASE r \in {"decimal", "octal", "hex"}
    <3>1. \A b, x : IntConst(b, x).kind \in {"none", "number"}
      <4> TAKE b, x
      <4>1. \E n : IntConst(b, x) = IF n <= MaxInt THEN Number(n) ELSE NoToken
        BY DEF IntConst
      <4> QED BY <4>1 DEF Number, NoToken, Token
    <3>2. \E b, x : TokenOf(r, l) = IntConst(b, x)
      BY <2>3 DEF TokenOf
    <3>3. TokenOf(r, l).kind \in {"none", "number"}
      BY <3>1, <3>2
    <3> QED BY <1>1, <3>3
  <2> QED BY <2>1, <2>2, <2>3 DEF Rules, Skipped
<1>3. NoToken.kind \notin Terminals
  BY <1>1 DEF NoToken, Token
<1>4. ASSUME NEW x \in AllTokens(t), x.kind \in Terminals PROVE x = Terminal(x.kind)
  <2>1. CASE x = NoToken
    BY <1>3, <1>4, <2>1
  <2>2. CASE \E kind \in Terminals : x = Terminal(kind)
    BY <2>2, TerminalKind
  <2>3. CASE \E r \in Rules \ Skipped, i \in 1 .. Len(t), e \in 1 .. Len(t) + 1 : x = TokenOf(r, SubSeq(t, i, e - 1))
    BY <1>2, <1>4, <2>3
  <2> QED BY <2>1, <2>2, <2>3 DEF AllTokens, TokensIn
<1>5. \A kind \in Terminals : Terminal(kind) \in AllTokens(t)
  BY DEF AllTokens
<1> QED BY <1>4, <1>5 DEF Alphabet

\* A program has one derivation at most, however long it is and however deep
\* its blocks and its expressions; what the handlers visit is all that is
\* written, in its order, and they visit the same when it is written again
\* (sysy.lalrpop:17-101, the productions from CompUnit to Stmt).
THEOREM ProgramsRead == SyntaxSpec => []ProgramsReadBack
<1>1. TextType => ProgramsReadBack
  <2> SUFFICES ASSUME TextType PROVE ProgramsReadBack
    OBVIOUS
  <2> DEFINE t == Lex(text)
             S == AllTokens(text)
             R == Derivations(t)
  <2>1. Len(text) \in Nat
    BY DEF TextType
  <2>2. t \in Seq(S)
    <3>1. t \in Seq(TokensIn(text)) /\ TokensIn(text) \subseteq S
      BY <2>1, LexType DEF AllTokens
    <3> HIDE DEF t, S
    <3> QED BY <3>1, WiderSeq
  <2>3. Alphabet(S)
    BY AllTokensAre
  <2> HIDE DEF t, S, R
  <2>4. Cardinality(R) <= 1
    <3>1. \A v, w \in R : v = w
      BY <2>2, OneDerivation DEF R
    <3>2. CASE R = {}
      BY <3>2, FS_EmptySet
    <3>3. CASE R # {}
      <4>1. PICK v : R = {v}
        BY <3>1, <3>3
      <4>2. Cardinality({v}) = 1
        BY FS_Singleton
      <4> QED BY <4>1, <4>2
    <3> QED BY <3>2, <3>3
  <2>5. ASSUME NEW v \in R PROVE Words(Spelling(v)) = Words(t) /\ Derivations(Spelling(v)) = {v}
    BY <2>2, <2>3, ProgramsAreRead DEF WrittenAgain, R
  <2> QED BY <2>4, <2>5 DEF ProgramsReadBack, R, t
<1> QED BY <1>1, TextIsAText, PTL
=============================================================================
