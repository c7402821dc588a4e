---------------------------- MODULE SyntaxProofs ----------------------------
(***************************************************************************)
(* The comments, the literals and the expressions of a source text, for    *)
(* every text of any length: proof that CommentsOnOneLine, LiteralsAsInC   *)
(* and ExpressionsAsInC are invariants of Syntax.                          *)
(*                                                                         *)
(* The lexer and C walk over the same text with different steps: C's from  *)
(* comment to comment, the lexer's from match to match. The proof goes     *)
(* backwards over the places outside the comments: from each of them the   *)
(* text and the text without comments give the same tokens if they do from *)
(* the later ones, for the next match is a comment of C's, white space, or *)
(* one that ends before the next comment and is the same in both texts.    *)
(*                                                                         *)
(* A text that reads as one number is one match of one of the three rules  *)
(* of literals, and such a match is the longest of any rule; by induction  *)
(* on the length, the value from_str_radix gives its digits is n exactly   *)
(* if they are zeros and the numeral of n.                                 *)
(*                                                                         *)
(* What derives anything closes its parentheses, so an operator that a     *)
(* level splits at is one that C counts as binary; by induction on what    *)
(* the productions refer to, each level derives what C reads where no      *)
(* operator of a lower level is outermost, and nothing otherwise.          *)
(***************************************************************************)
EXTENDS Syntax, SequenceTheorems, FiniteSetTheorems, WellFoundedInduction, TLAPS

-----------------------------------------------------------------------------
(* Places of a text.                                                       *)

LEMMA LeastPlace ==
  ASSUME NEW S \in SUBSET Nat, S # {}
  PROVE  Min(S) \in S /\ \A y \in S : Min(S) <= y
<1> DEFINE R == {ss \in Nat \X Nat : ss[1] < ss[2]}
<1>1. IsWellFoundedOn(R, Nat)
  BY NatLessThanWellFounded DEF OpToRel
<1>2. PICK x \in S : \A u \in S : ~ (<<u, x>> \in R)
  <2> HIDE DEF R
  <2> QED BY <1>1, WFMin
<1>3. ASSUME NEW y \in S PROVE x <= y
  <2>1. ~ (<<y, x>> \in R) /\ x \in Nat /\ y \in Nat
    BY <1>2
  <2> QED BY <2>1
<1> QED BY <1>3 DEF Min

LEMMA LastPlace ==
  ASSUME NEW n \in Nat, NEW S \in SUBSET (0 .. n), S # {}
  PROVE  Max(S) \in S /\ \A y \in S : Max(S) >= y
<1> DEFINE T == {n - x : x \in S}
<1>1. T \in SUBSET Nat /\ T # {}
  <2>1. T \subseteq Nat
    OBVIOUS
  <2>2. T # {}
    OBVIOUS
  <2> QED BY <2>1, <2>2
<1>2. Min(T) \in T /\ \A y \in T : Min(T) <= y
  <2> HIDE DEF T
  <2> QED BY <1>1, LeastPlace
<1>3. PICK x \in S : Min(T) = n - x
  BY <1>2
<1>4. \A y \in S : x >= y
  <2> SUFFICES ASSUME NEW y \in S PROVE x >= y
    OBVIOUS
  <2>1. n - y \in T
    OBVIOUS
  <2> HIDE DEF T
  <2> QED BY <1>2, <1>3, <2>1
<1> QED BY <1>4 DEF Max

\* Induction upwards, and from the end of a text down to its beginning.
LEMMA Upwards ==
  ASSUME NEW i \in Nat, NEW N \in Nat, NEW S, i \in S,
         \A k \in i .. N - 1 : k \in S => k + 1 \in S
  PROVE  \A k \in i .. N : k \in S
<1> DEFINE T == {k \in i .. N : k \notin S}
<1> SUFFICES ASSUME T # {} PROVE FALSE
  OBVIOUS
<1>1. Min(T) \in T /\ \A k \in T : Min(T) <= k
  <2>1. T \in SUBSET Nat
    OBVIOUS
  <2> HIDE DEF T
  <2> QED BY <2>1, LeastPlace
<1> DEFINE k == Min(T)
<1>2. k \in i .. N /\ k \notin S /\ k # i
  BY <1>1
<1>3. k - 1 \notin T
  <2> HIDE DEF T
  <2> QED BY <1>1, <1>2
<1> HIDE DEF k
<1>4. k - 1 \in i .. N - 1 /\ k - 1 \in i .. N /\ k - 1 + 1 = k
  BY <1>2
<1>5. k - 1 \in S
  BY <1>3, <1>4
<1> QED BY <1>2, <1>4, <1>5

LEMMA Backwards ==
  ASSUME NEW N \in Nat, NEW S,
         \A i \in 1 .. N + 1 : (\A j \in i + 1 .. N + 1 : j \in S) => i \in S
  PROVE  \A i \in 1 .. N + 1 : i \in S
<1> DEFINE T == {i \in 1 .. N + 1 : i \notin S}
<1> SUFFICES ASSUME T # {} PROVE FALSE
  OBVIOUS
<1>1. Max(T) \in T /\ \A i \in T : Max(T) >= i
  <2>1. T \in SUBSET (0 .. N + 1) /\ N + 1 \in Nat
    OBVIOUS
  <2> HIDE DEF T
  <2> QED BY <2>1, LastPlace
<1> DEFINE m == Max(T)
<1>2. m \in 1 .. N + 1 /\ m \notin S
  BY <1>1
<1>3. \A j \in m + 1 .. N + 1 : j \notin T
  <2> HIDE DEF T
  <2> QED BY <1>1, <1>2
<1>4. \A j \in m + 1 .. N + 1 : j \in S
  BY <1>2, <1>3
<1> QED BY <1>2, <1>4

\* The first of K at or after i, or the place after the end.
LEMMA FirstOf ==
  ASSUME NEW N \in Nat, NEW i \in 1 .. N + 1, NEW K \in SUBSET (i .. N),
         NEW w, w = Min(K \cup {Max({i, N + 1})})
  PROVE  w \in i .. N + 1 /\ (w = N + 1 \/ w \in K) /\ \A k \in K : w <= k
<1>1. Max({i, N + 1}) = N + 1
  <2>1. {i, N + 1} \in SUBSET (0 .. N + 1) /\ {i, N + 1} # {} /\ N + 1 \in Nat
    OBVIOUS
  <2> HIDE DEF Max
  <2>2. Max({i, N + 1}) \in {i, N + 1} /\ \A y \in {i, N + 1} : Max({i, N + 1}) >= y
    BY <2>1, LastPlace
  <2> QED BY <2>2
<1> DEFINE S == K \cup {N + 1}
<1>2. S \in SUBSET Nat /\ S # {} /\ w = Min(S)
  BY <1>1
<1>3. w \in S /\ \A y \in S : w <= y
  <2> HIDE DEF S
  <2>1. Min(S) \in S /\ \A y \in S : Min(S) <= y
    BY <1>2, LeastPlace
  <2> QED BY <1>2, <2>1
<1>4. w \in K \/ w = N + 1
  BY <1>3
<1>5. w <= N + 1 /\ \A k \in K : w <= k
  BY <1>3
<1>6. w \in i .. N + 1
  <2>1. N + 1 \in i .. N + 1 /\ i .. N \subseteq i .. N + 1
    OBVIOUS
  <2>2. K \subseteq i .. N
    OBVIOUS
  <2> QED BY <1>4, <2>1, <2>2
<1> QED BY <1>4, <1>5, <1>6

LEMMA NextOf ==
  ASSUME NEW N \in Nat, NEW i \in 1 .. N + 1, NEW K \in SUBSET (i .. N)
  PROVE  \E d \in i .. N + 1 : (d = N + 1 \/ d \in K) /\ \A k \in K : d <= k
<1>1. CASE K = {}
  BY <1>1
<1>2. CASE K # {}
  <2>1. K \in SUBSET Nat
    OBVIOUS
  <2>2. Min(K) \in K /\ \A y \in K : Min(K) <= y
    BY <1>2, <2>1, LeastPlace
  <2>3. K \subseteq i .. N
    OBVIOUS
  <2>4. i .. N \subseteq i .. N + 1
    OBVIOUS
  <2>5. Min(K) \in i .. N + 1
    BY <2>2, <2>3, <2>4
  <2> QED BY <2>2, <2>5
<1> QED BY <1>1, <1>2

\* From i up to w there are only characters of the set, or none of them.
RunOf(t, i, chars, w) ==
  /\ w \in i .. Len(t) + 1 /\ \A k \in i .. w - 1 : t[k] \in chars
  /\ w <= Len(t) => t[w] \notin chars
RunWithout(t, i, chars, w) ==
  /\ w \in i .. Len(t) + 1 /\ \A k \in i .. w - 1 : t[k] \notin chars
  /\ w <= Len(t) => t[w] \in chars

\* While, of these two.
EndOfRun(t, i, chars)    == Min({k \in i .. Len(t) : ~(t[k] \in chars)} \cup {Max({i, Len(t) + 1})})
EndOfOthers(t, i, chars) == Min({k \in i .. Len(t) : ~(t[k] \notin chars)} \cup {Max({i, Len(t) + 1})})

LEMMA RunFacts ==
  ASSUME NEW t, Len(t) \in Nat, NEW i \in 1 .. Len(t) + 1, NEW chars,
         NEW w, w = EndOfRun(t, i, chars)
  PROVE  RunOf(t, i, chars, w)
<1> DEFINE K == {k \in i .. Len(t) : ~(t[k] \in chars)}
<1>1. w = Min(K \cup {Max({i, Len(t) + 1})})
  BY DEF EndOfRun
<1>2. K \in SUBSET (i .. Len(t))
  OBVIOUS
<1>3. w \in i .. Len(t) + 1 /\ (w = Len(t) + 1 \/ w \in K) /\ \A k \in K : w <= k
  <2> HIDE DEF K
  <2> QED BY <1>1, <1>2, FirstOf
<1>4. \A k \in i .. w - 1 : t[k] \in chars
  <2> SUFFICES ASSUME NEW k \in i .. w - 1 PROVE t[k] \in chars
    OBVIOUS
  <2>1. k \in i .. Len(t) /\ ~(w <= k)
    BY <1>3
  <2>2. k \notin K
    <3> HIDE DEF K
    <3> QED BY <1>3, <2>1
  <2> QED BY <2>1, <2>2
<1>5. w <= Len(t) => ~(t[w] \in chars)
  <2>1. w <= Len(t) => w \in K
    BY <1>3
  <2> QED BY <2>1
<1> QED BY <1>3, <1>4, <1>5 DEF RunOf

LEMMA OthersFacts ==
  ASSUME NEW t, Len(t) \in Nat, NEW i \in 1 .. Len(t) + 1, NEW chars,
         NEW w, w = EndOfOthers(t, i, chars)
  PROVE  RunWithout(t, i, chars, w)
<1> DEFINE K == {k \in i .. Len(t) : ~(t[k] \notin chars)}
<1>1. w = Min(K \cup {Max({i, Len(t) + 1})})
  BY DEF EndOfOthers
<1>2. K \in SUBSET (i .. Len(t))
  OBVIOUS
<1>3. w \in i .. Len(t) + 1 /\ (w = Len(t) + 1 \/ w \in K) /\ \A k \in K : w <= k
  <2> HIDE DEF K
  <2> QED BY <1>1, <1>2, FirstOf
<1>4. \A k \in i .. w - 1 : t[k] \notin chars
  <2> SUFFICES ASSUME NEW k \in i .. w - 1 PROVE t[k] \notin chars
    OBVIOUS
  <2>1. k \in i .. Len(t) /\ ~(w <= k)
    BY <1>3
  <2>2. k \notin K
    <3> HIDE DEF K
    <3> QED BY <1>3, <2>1
  <2> QED BY <2>1, <2>2
<1>5. w <= Len(t) => ~(t[w] \notin chars)
  <2>1. w <= Len(t) => w \in K
    BY <1>3
  <2> QED BY <2>1
<1> QED BY <1>3, <1>4, <1>5 DEF RunWithout

-----------------------------------------------------------------------------
(* Rules.                                                                  *)

LEMMA AtOne ==
  ASSUME NEW t, NEW i \in Nat, NEW a
  PROVE  At(t, i, <<a>>) <=> i <= Len(t) /\ t[i] = a
<1>1. Len(<<a>>) = 1 /\ DOMAIN <<a>> = {1} /\ <<a>>[1] = a /\ i + 1 - 1 = i
  OBVIOUS
<1> DEFINE s == <<a>>
<1> HIDE DEF s
<1>2. Len(s) = 1 /\ DOMAIN s = {1} /\ s[1] = a
  BY <1>1 DEF s
<1>3. At(t, i, s) <=> i <= Len(t) /\ t[i] = a
  BY <1>1, <1>2 DEF At
<1> QED BY <1>3 DEF s

LEMMA AtTwo ==
  ASSUME NEW t, NEW i \in Nat, NEW a, NEW b
  PROVE  At(t, i, <<a, b>>) <=> i + 1 <= Len(t) /\ t[i] = a /\ t[i + 1] = b
<1> DEFINE s == <<a, b>>
<1>1. Len(s) = 2 /\ DOMAIN s = {1, 2} /\ s[1] = a /\ s[2] = b
  OBVIOUS
<1> HIDE DEF s
<1>2. i + Len(s) - 1 = i + 1 /\ i + 1 - 1 = i /\ i + 2 - 1 = i + 1
  BY <1>1
<1>3. (\A k \in DOMAIN s : t[i + k - 1] = s[k]) <=> t[i] = a /\ t[i + 1] = b
  BY <1>1, <1>2
<1>4. At(t, i, s) <=> i + 1 <= Len(t) /\ t[i] = a /\ t[i + 1] = b
  BY <1>2, <1>3 DEF At
<1> QED BY <1>4 DEF s

LEMMA ClassIs ==
  ASSUME NEW t, NEW i, NEW first, NEW others
  PROVE  Class(t, i, first, others) =
           IF i <= Len(t) /\ t[i] \in first THEN {EndOfRun(t, i + 1, others)} ELSE {}
  BY DEF Class, While, EndOfRun

LEMMA LineCommentIs ==
  ASSUME NEW t, NEW i
  PROVE  LineComment(t, i) =
           IF At(t, i, <<"/", "/">>)
           THEN {EndOfRun(t, EndOfOthers(t, i + 2, NewLine), NewLine)} ELSE {}
  BY DEF LineComment, While, EndOfRun, EndOfOthers

\* How a terminal is spelt.
LEMMA SpeltFacts ==
  ASSUME NEW t \in Terminals, NEW s, s = Spelt(t)
  PROVE  \/ \E a : s = <<a>> /\ a \notin Space
         \/ \E a, b : s = <<a, b>> /\ a \notin Space \cup {"/"} /\ b \notin {"/", " "}
<1>1. CASE t \in {"||", "&&", "==", "!=", "<=", ">="}
  <2> DEFINE Pair(a, b) == s = <<a, b>>
  <2>1. \/ Pair("|", "|") \/ Pair("&", "&") \/ Pair("=", "=")
        \/ Pair("!", "=") \/ Pair("<", "=") \/ Pair(">", "=")
    BY <1>1 DEF Spelt
  <2> HIDE DEF Pair
  <2>2. \E a \in {"|", "&", "=", "!", "<", ">"}, b \in {"|", "&", "="} : Pair(a, b)
    BY <2>1
  <2>3. PICK a \in {"|", "&", "=", "!", "<", ">"}, b \in {"|", "&", "="} : Pair(a, b)
    BY <2>2
  <2>4. a \notin Space \cup {"/"} /\ b \notin {"/", " "}
    BY <2>3 DEF Space, NewLine
  <2> QED BY <2>3, <2>4 DEF Pair
<1>2. CASE t \notin {"||", "&&", "==", "!=", "<=", ">="}
  <2>1. s = <<t>>
    BY <1>2 DEF Spelt
  <2>2. t \notin Space
    BY DEF Terminals, Keywords, Space, NewLine
  <2> QED BY <2>1, <2>2
<1> QED BY <1>1, <1>2

\* Where a match of any rule at i may end.
Rules         == {"space", "line", "block", "ident", "decimal", "octal", "hex", "literal"}
EndsAny(t, i) == UNION {Ends(t, i)[r] : r \in DOMAIN Ends(t, i)}

LEMMA RulesAre ==
  ASSUME NEW t, NEW i
  PROVE  /\ DOMAIN Ends(t, i) = Rules
         /\ \A e : e \in EndsAny(t, i) <=> \E r \in Rules : e \in Ends(t, i)[r]
<1>1. DOMAIN Ends(t, i) = Rules
  BY DEF Ends, Rules
<1> QED BY <1>1 DEF EndsAny

LEMMA ClassWithin ==
  ASSUME NEW t, Len(t) \in Nat, NEW i \in 1 .. Len(t) + 1, NEW first, NEW others,
         NEW e \in Class(t, i, first, others)
  PROVE  i <= Len(t) /\ t[i] \in first /\ RunOf(t, i + 1, others, e)
<1>1. i <= Len(t) /\ t[i] \in first /\ e = EndOfRun(t, i + 1, others)
  BY ClassIs
<1>2. i + 1 \in 1 .. Len(t) + 1
  BY <1>1
<1> QED BY <1>1, <1>2, RunFacts

LEMMA LineWithin ==
  ASSUME NEW t, Len(t) \in Nat, NEW i \in 1 .. Len(t), NEW e \in LineComment(t, i)
  PROVE  /\ At(t, i, <<"/", "/">>)
         /\ \E w : RunWithout(t, i + 2, NewLine, w) /\ RunOf(t, w, NewLine, e)
<1> DEFINE w == EndOfOthers(t, i + 2, NewLine)
<1>1. At(t, i, <<"/", "/">>) /\ e = EndOfRun(t, w, NewLine)
  BY LineCommentIs
<1>2. i + 2 \in 1 .. Len(t) + 1
  <2>1. i + 1 <= Len(t)
    BY <1>1, AtTwo
  <2> QED BY <2>1
<1>3. RunWithout(t, i + 2, NewLine, w)
  BY <1>2, OthersFacts
<1> HIDE DEF w
<1>4. w \in 1 .. Len(t) + 1
  BY <1>2, <1>3 DEF RunWithout
<1>5. RunOf(t, w, NewLine, e)
  BY <1>1, <1>4, RunFacts
<1> QED BY <1>1, <1>3, <1>5

LEMMA HexWithin ==
  ASSUME NEW t, Len(t) \in Nat, NEW i \in 1 .. Len(t), NEW e \in HexLiteral(t, i)
  PROVE  /\ t[i] = "0" /\ i < Len(t) /\ t[i + 1] \in HexMark
         /\ e \in Class(t, i + 2, DigitsOf(16), DigitsOf(16))
<1>1. At(t, i, <<"0">>) /\ i < Len(t) /\ t[i + 1] \in HexMark
      /\ e \in Class(t, i + 2, DigitsOf(16), DigitsOf(16))
  BY DEF HexLiteral
<1> QED BY <1>1, AtOne

LiteralEnds(t, i) == {i + Len(Spelt(u)) : u \in {v \in Terminals : At(t, i, Spelt(v))}}

\* A terminal is one character, or two of which the second is no "/".
LEMMA LiteralWithin ==
  ASSUME NEW t, NEW i \in Nat, NEW e \in LiteralEnds(t, i)
  PROVE  /\ t[i] \notin Space
         /\ \/ e = i + 1 /\ i <= Len(t)
            \/ e = i + 2 /\ i + 1 <= Len(t) /\ t[i] # "/" /\ t[i + 1] \notin {"/", " "}
<1>1. PICK u \in Terminals : At(t, i, Spelt(u)) /\ e = i + Len(Spelt(u))
  BY DEF LiteralEnds
<1> DEFINE s == Spelt(u)
<1>2. \/ \E a : s = <<a>> /\ a \notin Space
      \/ \E a, b : s = <<a, b>> /\ a \notin Space \cup {"/"} /\ b \notin {"/", " "}
  BY SpeltFacts
<1>3. ASSUME NEW a, s = <<a>>, a \notin Space
      PROVE  t[i] \notin Space /\ e = i + 1 /\ i <= Len(t)
  <2>1. Len(s) = 1 /\ At(t, i, <<a>>)
    BY <1>1, <1>3
  <2> QED BY <1>1, <1>3, <2>1, AtOne
<1>4. ASSUME NEW a, NEW b, s = <<a, b>>, a \notin Space \cup {"/"}, b \notin {"/", " "}
      PROVE  /\ t[i] \notin Space /\ e = i + 2 /\ i + 1 <= Len(t)
             /\ t[i] # "/" /\ t[i + 1] \notin {"/", " "}
  <2>1. Len(s) = 2 /\ At(t, i, <<a, b>>)
    BY <1>1, <1>4
  <2>2. i + 1 <= Len(t) /\ t[i] = a /\ t[i + 1] = b
    BY <2>1, AtTwo
  <2> QED BY <1>1, <1>4, <2>1, <2>2
<1> HIDE DEF s
<1> QED BY <1>2, <1>3, <1>4

LEMMA EndsFields ==
  ASSUME NEW t, NEW i
  PROVE  /\ Ends(t, i).space = Class(t, i, Space, Space)
         /\ Ends(t, i).line = LineComment(t, i) /\ Ends(t, i).block = BlockComment(t, i)
         /\ Ends(t, i).ident = Class(t, i, Letters, Letters \cup DigitsOf(10))
         /\ Ends(t, i).decimal = Class(t, i, DigitsOf(10) \ {"0"}, DigitsOf(10))
         /\ Ends(t, i).octal = Class(t, i, {"0"}, DigitsOf(8))
         /\ Ends(t, i).hex = HexLiteral(t, i) /\ Ends(t, i).literal = LiteralEnds(t, i)
  BY DEF Ends, LiteralEnds

\* A match is not empty and ends within the text.
LEMMA EndsWithin ==
  ASSUME NEW t, Len(t) \in Nat, NEW i \in 1 .. Len(t), NEW e \in EndsAny(t, i)
  PROVE  e \in i + 1 .. Len(t) + 1
<1>1. PICK r \in Rules : e \in Ends(t, i)[r]
  BY RulesAre
<1>2. i \in 1 .. Len(t) + 1 /\ i \in Nat
  OBVIOUS
<1>3. ASSUME NEW first, NEW others, e \in Class(t, i, first, others)
      PROVE  e \in i + 1 .. Len(t) + 1
  BY <1>2, <1>3, ClassWithin DEF RunOf
<1>4. CASE r \in {"space", "ident", "decimal", "octal"}
  BY <1>1, <1>3, <1>4, EndsFields
<1>5. CASE r = "line"
  <2>1. e \in LineComment(t, i)
    BY <1>1, <1>5, EndsFields
  <2>2. PICK w : RunWithout(t, i + 2, NewLine, w) /\ RunOf(t, w, NewLine, e)
    BY <2>1, LineWithin
  <2> QED BY <2>2 DEF RunWithout, RunOf
<1>6. CASE r = "block"
  <2>1. e \in BlockComment(t, i)
    BY <1>1, <1>6, EndsFields
  <2>2. PICK m \in i + 2 .. Len(t) : At(t, m, <<"*", "/">>) /\ e = m + 2
    BY <2>1 DEF BlockComment
  <2>3. m \in Nat
    BY <1>2
  <2>4. m + 1 <= Len(t)
    BY <2>2, <2>3, AtTwo
  <2> QED BY <2>2, <2>4
<1>7. CASE r = "hex"
  <2>1. i < Len(t) /\ e \in Class(t, i + 2, DigitsOf(16), DigitsOf(16))
    BY <1>1, <1>7, EndsFields, HexWithin
  <2>2. i + 2 \in 1 .. Len(t) + 1
    BY <2>1
  <2>3. RunOf(t, i + 2 + 1, DigitsOf(16), e)
    BY <2>1, <2>2, ClassWithin
  <2> QED BY <2>3 DEF RunOf
<1>8. CASE r = "literal"
  <2>1. e \in LiteralEnds(t, i)
    BY <1>1, <1>8, EndsFields
  <2>2. (e = i + 1 /\ i <= Len(t)) \/ (e = i + 2 /\ i + 1 <= Len(t))
    BY <1>2, <2>1, LiteralWithin
  <2> QED BY <2>2
<1> QED BY <1>1, <1>4, <1>5, <1>6, <1>7, <1>8 DEF Rules

\* The longest match at i, and the first rule it is one of.
Longest(t, i) == Max(EndsAny(t, i))
RuleAt(t, i)  == CHOOSE r \in DOMAIN Ends(t, i) : Longest(t, i) \in Ends(t, i)[r]

LEMMA LongestFacts ==
  ASSUME NEW t, Len(t) \in Nat, NEW i \in 1 .. Len(t), EndsAny(t, i) # {}
  PROVE  /\ Longest(t, i) \in EndsAny(t, i) /\ Longest(t, i) \in i + 1 .. Len(t) + 1
         /\ \A e \in EndsAny(t, i) : Longest(t, i) >= e
<1> DEFINE E == EndsAny(t, i)
<1>1. E \subseteq i + 1 .. Len(t) + 1
  BY EndsWithin
<1> HIDE DEF E
<1>2. E \in SUBSET (0 .. Len(t) + 1) /\ E # {} /\ Len(t) + 1 \in Nat
  BY <1>1 DEF E
<1>3. Max(E) \in E /\ \A y \in E : Max(E) >= y
  BY <1>2, LastPlace
<1> QED BY <1>1, <1>3 DEF Longest, E

\* The tokens from i on, when a has those further on.
Skipped == {"space", "line", "block"}
LexFrom(t, i, a) ==
  IF i > Len(t) THEN <<>>
  ELSE IF EndsAny(t, i) = {} THEN <<NoToken>>
  ELSE IF RuleAt(t, i) \in Skipped THEN a[Longest(t, i)]
  ELSE <<TokenOf(RuleAt(t, i), SubSeq(t, i, Longest(t, i) - 1))>> \o a[Longest(t, i)]

Lexes(a, t, i) == a = [k \in i .. Len(t) + 1 |-> LexFrom(t, k, a)]

LEMMA LexFromSame ==
  ASSUME NEW t, Len(t) \in Nat, NEW i \in 1 .. Len(t) + 1, NEW a, NEW b,
         \A j \in i + 1 .. Len(t) + 1 : a[j] = b[j]
  PROVE  LexFrom(t, i, a) = LexFrom(t, i, b)
<1>1. CASE i > Len(t) \/ EndsAny(t, i) = {}
  BY <1>1 DEF LexFrom
<1>2. CASE ~(i > Len(t)) /\ EndsAny(t, i) # {}
  <2>1. i \in 1 .. Len(t)
    BY <1>2
  <2>2. Longest(t, i) \in i + 1 .. Len(t) + 1
    BY <1>2, <2>1, LongestFacts
  <2>3. a[Longest(t, i)] = b[Longest(t, i)]
    BY <2>2
  <2> QED BY <2>3 DEF LexFrom
<1> QED BY <1>1, <1>2

LEMMA LexExists ==
  ASSUME NEW t, Len(t) \in Nat
  PROVE  \E a : Lexes(a, t, 1)
<1> DEFINE N == Len(t)
           S == {i \in 1 .. N + 1 : \E a : Lexes(a, t, i)}
<1>1. ASSUME NEW i \in 1 .. N + 1, \A j \in i + 1 .. N + 1 : j \in S
      PROVE  i \in S
  <2>1. PICK f : \A k \in i + 1 .. N + 1 : f[k] = LexFrom(t, k, f)
    <3>1. CASE i = N + 1
      BY <3>1
    <3>2. CASE i # N + 1
      <4>1. i + 1 \in i + 1 .. N + 1
        BY <3>2
      <4>2. PICK f : Lexes(f, t, i + 1)
        BY <1>1, <4>1
      <4>3. \A k \in i + 1 .. N + 1 : f[k] = LexFrom(t, k, f)
        BY <4>2 DEF Lexes
      <4> QED BY <4>3
    <3> QED BY <3>1, <3>2
  <2> DEFINE g == [k \in i .. N + 1 |-> IF k = i THEN LexFrom(t, i, f) ELSE f[k]]
  <2>2. g[i] = LexFrom(t, i, f) /\ \A k \in i + 1 .. N + 1 : g[k] = f[k]
    OBVIOUS
  <2>3. g = [k \in i .. N + 1 |-> g[k]]
    OBVIOUS
  <2> HIDE DEF g
  <2>4. ASSUME NEW k \in i .. N + 1 PROVE g[k] = LexFrom(t, k, g)
    <3>1. k \in 1 .. N + 1 /\ \A j \in k + 1 .. N + 1 : j \in i + 1 .. N + 1
      OBVIOUS
    <3>2. \A j \in k + 1 .. N + 1 : f[j] = g[j]
      BY <2>2, <3>1
    <3>3. LexFrom(t, k, f) = LexFrom(t, k, g)
      BY <3>1, <3>2, LexFromSame
    <3>4. CASE k = i
      BY <2>2, <3>3, <3>4
    <3>5. CASE k # i
      <4>1. k \in i + 1 .. N + 1
        BY <3>5
      <4> QED BY <2>1, <2>2, <3>3, <4>1
    <3> QED BY <3>4, <3>5
  <2>5. Lexes(g, t, i)
    BY <2>3, <2>4 DEF Lexes
  <2> QED BY <2>5
<1>2. \A i \in 1 .. N + 1 : i \in S
  <2> HIDE DEF S
  <2>1. N \in Nat
    OBVIOUS
  <2> HIDE DEF N
  <2> QED BY <1>1, <2>1, Backwards
<1>3. 1 \in S
  BY <1>2
<1> QED BY <1>3

LEMMA LexIs ==
  ASSUME NEW t, Len(t) \in Nat
  PROVE  \E a : Lexes(a, t, 1) /\ Lex(t) = a[1]
<1> DEFINE lex == CHOOSE a : a = [i \in 1 .. Len(t) + 1 |->
                     IF i > Len(t) THEN <<>>
                     ELSE IF EndsAny(t, i) = {} THEN <<NoToken>>
                     ELSE IF RuleAt(t, i) \in {"space", "line", "block"} THEN a[Max(EndsAny(t, i))]
                     ELSE <<TokenOf(RuleAt(t, i), SubSeq(t, i, Max(EndsAny(t, i)) - 1))>>
                            \o a[Max(EndsAny(t, i))]]
<1>1. Lex(t) = lex[1]
  BY DEF Lex, EndsAny, RuleAt, Longest
<1>2. \A a : Lexes(a, t, 1) <=>
               a = [i \in 1 .. Len(t) + 1 |->
                     IF i > Len(t) THEN <<>>
                     ELSE IF EndsAny(t, i) = {} THEN <<NoToken>>
                     ELSE IF RuleAt(t, i) \in {"space", "line", "block"} THEN a[Max(EndsAny(t, i))]
                     ELSE <<TokenOf(RuleAt(t, i), SubSeq(t, i, Max(EndsAny(t, i)) - 1))>>
                            \o a[Max(EndsAny(t, i))]]
  BY DEF Lexes, LexFrom, Skipped, Longest
<1>3. \E a : a = [i \in 1 .. Len(t) + 1 |->
                     IF i > Len(t) THEN <<>>
                     ELSE IF EndsAny(t, i) = {} THEN <<NoToken>>
                     ELSE IF RuleAt(t, i) \in {"space", "line", "block"} THEN a[Max(EndsAny(t, i))]
                     ELSE <<TokenOf(RuleAt(t, i), SubSeq(t, i, Max(EndsAny(t, i)) - 1))>>
                            \o a[Max(EndsAny(t, i))]]
  BY <1>2, LexExists
<1>4. lex = [i \in 1 .. Len(t) + 1 |->
                     IF i > Len(t) THEN <<>>
                     ELSE IF EndsAny(t, i) = {} THEN <<NoToken>>
                     ELSE IF RuleAt(t, i) \in {"space", "line", "block"} THEN lex[Max(EndsAny(t, i))]
                     ELSE <<TokenOf(RuleAt(t, i), SubSeq(t, i, Max(EndsAny(t, i)) - 1))>>
                            \o lex[Max(EndsAny(t, i))]]
  BY <1>3
<1> HIDE DEF lex
<1>5. Lexes(lex, t, 1)
  BY <1>2, <1>4
<1> QED BY <1>1, <1>5

-----------------------------------------------------------------------------
(* The comments of C.                                                      *)

CommentAt(i) ==
  /\ i <= Len(text)
  /\ At(text, i, <<"/", "/">>) \/ (At(text, i, <<"/", "*">>) /\ \E k \in BlockEnds : k >= i + 3)
CommentEnd(i) ==
  IF At(text, i, <<"/", "/">>) THEN EndOfOthers(text, i, NewLine) - 1
                               ELSE Min({k \in BlockEnds : k >= i + 3})

\* The comments from i on, when a has those further on.
CommentsFrom(i, a) ==
  IF i > Len(text) THEN {}
  ELSE IF CommentAt(i) THEN {i .. CommentEnd(i)} \cup a[CommentEnd(i) + 1]
  ELSE a[i + 1]

\* A comment is in the text and has its first two characters, and in the case
\* of a block comment its first end.
LEMMA CommentFacts ==
  ASSUME text \in Seq(STRING), NEW i \in 1 .. Len(text), CommentAt(i)
  PROVE  /\ CommentEnd(i) \in i + 1 .. Len(text) /\ text[i] = "/"
         /\ \/ At(text, i, <<"/", "/">>) /\ RunWithout(text, i, NewLine, CommentEnd(i) + 1)
            \/ /\ At(text, i, <<"/", "*">>) /\ CommentEnd(i) \in BlockEnds /\ CommentEnd(i) >= i + 3
               /\ \A k \in BlockEnds : k >= i + 3 => CommentEnd(i) <= k
<1> DEFINE N == Len(text)
<1>1. N \in Nat /\ i \in 1 .. N + 1 /\ i \in Nat
  OBVIOUS
<1>2. CASE At(text, i, <<"/", "/">>)
  <2>1. i + 1 <= N /\ text[i] = "/" /\ text[i + 1] = "/"
    BY <1>1, <1>2, AtTwo
  <2>2. CommentEnd(i) = EndOfOthers(text, i, NewLine) - 1
    BY <1>2 DEF CommentEnd
  <2> DEFINE w == EndOfOthers(text, i, NewLine)
  <2>3. RunWithout(text, i, NewLine, w)
    BY <1>1, OthersFacts
  <2> HIDE DEF w
  <2>4. w \in i .. N + 1 /\ (w <= N => text[w] \in NewLine)
    BY <2>3 DEF RunWithout
  <2>5. w # i /\ w # i + 1
    BY <2>1, <2>4 DEF NewLine
  <2>6. w - 1 \in i + 1 .. N /\ w - 1 + 1 = w
    BY <2>4, <2>5
  <2> QED BY <1>2, <2>1, <2>2, <2>3, <2>6 DEF w
<1>3. CASE ~At(text, i, <<"/", "/">>)
  <2> DEFINE K == {k \in BlockEnds : k >= i + 3}
  <2>1. At(text, i, <<"/", "*">>) /\ K # {}
    BY <1>3 DEF CommentAt
  <2>2. text[i] = "/"
    BY <1>1, <2>1, AtTwo
  <2>3. K \in SUBSET Nat
    BY DEF BlockEnds
  <2>4. CommentEnd(i) = Min(K)
    BY <1>3 DEF CommentEnd
  <2>5. Min(K) \in K /\ \A y \in K : Min(K) <= y
    <3> HIDE DEF K
    <3> QED BY <2>1, <2>3, LeastPlace
  <2>6. CommentEnd(i) \in BlockEnds /\ CommentEnd(i) >= i + 3
        /\ \A k \in BlockEnds : k >= i + 3 => CommentEnd(i) <= k
    BY <2>4, <2>5
  <2>7. CommentEnd(i) \in i + 1 .. N
    BY <2>6 DEF BlockEnds
  <2> QED BY <2>1, <2>2, <2>6, <2>7
<1> QED BY <1>2, <1>3

LEMMA CommentsFromSame ==
  ASSUME text \in Seq(STRING), NEW i \in 1 .. Len(text) + 1, NEW a, NEW b,
         \A j \in i + 1 .. Len(text) + 1 : a[j] = b[j]
  PROVE  CommentsFrom(i, a) = CommentsFrom(i, b)
<1>1. CASE i > Len(text)
  BY <1>1 DEF CommentsFrom
<1>2. CASE ~(i > Len(text)) /\ CommentAt(i)
  <2>1. i \in 1 .. Len(text)
    BY <1>2
  <2>2. CommentEnd(i) + 1 \in i + 1 .. Len(text) + 1
    <3>1. CommentEnd(i) \in i + 1 .. Len(text)
      BY <1>2, <2>1, CommentFacts
    <3> QED BY <3>1
  <2>3. a[CommentEnd(i) + 1] = b[CommentEnd(i) + 1]
    BY <2>2
  <2> QED BY <2>3 DEF CommentsFrom
<1>3. CASE ~(i > Len(text)) /\ ~CommentAt(i)
  <2>1. i + 1 \in i + 1 .. Len(text) + 1
    BY <1>3
  <2>2. a[i + 1] = b[i + 1]
    BY <2>1
  <2> QED BY <1>3, <2>2 DEF CommentsFrom
<1> QED BY <1>1, <1>2, <1>3

Comments(a, i) == a = [k \in i .. Len(text) + 1 |-> CommentsFrom(k, a)]

LEMMA CommentsExist ==
  ASSUME text \in Seq(STRING)
  PROVE  \E a : Comments(a, 1)
<1> DEFINE N == Len(text)
           S == {i \in 1 .. N + 1 : \E a : Comments(a, i)}
<1>1. ASSUME NEW i \in 1 .. N + 1, \A j \in i + 1 .. N + 1 : j \in S
      PROVE  i \in S
  <2>1. PICK f : \A k \in i + 1 .. N + 1 : f[k] = CommentsFrom(k, f)
    <3>1. CASE i = N + 1
      BY <3>1
    <3>2. CASE i # N + 1
      <4>1. i + 1 \in i + 1 .. N + 1
        BY <3>2
      <4>2. PICK f : Comments(f, i + 1)
        BY <1>1, <4>1
      <4>3. \A k \in i + 1 .. N + 1 : f[k] = CommentsFrom(k, f)
        BY <4>2 DEF Comments
      <4> QED BY <4>3
    <3> QED BY <3>1, <3>2
  <2> DEFINE g == [k \in i .. N + 1 |-> IF k = i THEN CommentsFrom(i, f) ELSE f[k]]
  <2>2. g[i] = CommentsFrom(i, f) /\ \A k \in i + 1 .. N + 1 : g[k] = f[k]
    OBVIOUS
  <2>3. g = [k \in i .. N + 1 |-> g[k]]
    OBVIOUS
  <2> HIDE DEF g
  <2>4. ASSUME NEW k \in i .. N + 1 PROVE g[k] = CommentsFrom(k, g)
    <3>1. k \in 1 .. N + 1 /\ \A j \in k + 1 .. N + 1 : j \in i + 1 .. N + 1
      OBVIOUS
    <3>2. \A j \in k + 1 .. N + 1 : f[j] = g[j]
      BY <2>2, <3>1
    <3>3. CommentsFrom(k, f) = CommentsFrom(k, g)
      BY <3>1, <3>2, CommentsFromSame
    <3>4. CASE k = i
      BY <2>2, <3>3, <3>4
    <3>5. CASE k # i
      <4>1. k \in i + 1 .. N + 1
        BY <3>5
      <4> QED BY <2>1, <2>2, <3>3, <4>1
    <3> QED BY <3>4, <3>5
  <2>5. Comments(g, i)
    BY <2>3, <2>4 DEF Comments
  <2> QED BY <2>5
<1>2. \A i \in 1 .. N + 1 : i \in S
  <2> HIDE DEF S
  <2>1. N \in Nat
    OBVIOUS
  <2> HIDE DEF N
  <2> QED BY <1>1, <2>1, Backwards
<1>3. 1 \in S
  BY <1>2
<1> QED BY <1>3

LEMMA CommentsAre ==
  ASSUME text \in Seq(STRING)
  PROVE  \E a : Comments(a, 1) /\ CComments = a[1]
<1> DEFINE comments == CHOOSE a : a = [i \in 1 .. Len(text) + 1 |->
             IF i > Len(text) THEN {}
             ELSE IF At(text, i, <<"/", "/">>)
                  THEN {i .. EndOfOthers(text, i, NewLine) - 1}
                         \cup a[EndOfOthers(text, i, NewLine) - 1 + 1]
             ELSE IF At(text, i, <<"/", "*">>) /\ \E k \in BlockEnds : k >= i + 3
                  THEN {i .. Min({k \in BlockEnds : k >= i + 3})}
                         \cup a[Min({k \in BlockEnds : k >= i + 3}) + 1]
             ELSE a[i + 1]]
<1>1. CComments = comments[1]
  BY DEF CComments, While, EndOfOthers
<1>2. ASSUME NEW a, NEW i \in 1 .. Len(text) + 1
      PROVE  CommentsFrom(i, a) =
             IF i > Len(text) THEN {}
             ELSE IF At(text, i, <<"/", "/">>)
                  THEN {i .. EndOfOthers(text, i, NewLine) - 1}
                         \cup a[EndOfOthers(text, i, NewLine) - 1 + 1]
             ELSE IF At(text, i, <<"/", "*">>) /\ \E k \in BlockEnds : k >= i + 3
                  THEN {i .. Min({k \in BlockEnds : k >= i + 3})}
                         \cup a[Min({k \in BlockEnds : k >= i + 3}) + 1]
             ELSE a[i + 1]
  <2>1. CASE i > Len(text)
    BY <2>1 DEF CommentsFrom
  <2> DEFINE line == At(text, i, <<"/", "/">>)
             open == At(text, i, <<"/", "*">>)
             ends == \E k \in BlockEnds : k >= i + 3
  <2>2. CASE ~(i > Len(text))
    <3>1. i <= Len(text)
      BY <2>2
    <3>2. CommentAt(i) <=> line \/ (open /\ ends)
      BY <3>1 DEF CommentAt
    <3>3. CASE line
      BY <2>2, <3>2, <3>3 DEF CommentsFrom, CommentEnd
    <3>4. CASE ~line
      BY <2>2, <3>2, <3>4 DEF CommentsFrom, CommentEnd
    <3> QED BY <3>3, <3>4
  <2> QED BY <2>1, <2>2
<1>3. \A a : Comments(a, 1) <=> a = [i \in 1 .. Len(text) + 1 |->
             IF i > Len(text) THEN {}
             ELSE IF At(text, i, <<"/", "/">>)
                  THEN {i .. EndOfOthers(text, i, NewLine) - 1}
                         \cup a[EndOfOthers(text, i, NewLine) - 1 + 1]
             ELSE IF At(text, i, <<"/", "*">>) /\ \E k \in BlockEnds : k >= i + 3
                  THEN {i .. Min({k \in BlockEnds : k >= i + 3})}
                         \cup a[Min({k \in BlockEnds : k >= i + 3}) + 1]
             ELSE a[i + 1]]
  BY <1>2 DEF Comments
<1>4. \E a : Comments(a, 1)
  BY CommentsExist
<1>5. Comments(comments, 1)
  BY <1>3, <1>4
<1> HIDE DEF comments
<1> QED BY <1>1, <1>5

LEMMA CommentsAhead ==
  ASSUME text \in Seq(STRING), NEW a, Comments(a, 1)
  PROVE  \A i \in 1 .. Len(text) + 1 : \A c \in a[i] : c \in SUBSET (i .. Len(text))
<1> DEFINE N == Len(text)
           S == {i \in 1 .. N + 1 : \A c \in a[i] : c \in SUBSET (i .. N)}
<1>1. N \in Nat /\ \A i \in 1 .. N + 1 : a[i] = CommentsFrom(i, a)
  BY DEF Comments
<1>2. ASSUME NEW i \in 1 .. N + 1, \A j \in i + 1 .. N + 1 : j \in S
      PROVE  i \in S
  <2> SUFFICES ASSUME NEW c \in a[i] PROVE c \in SUBSET (i .. N)
    OBVIOUS
  <2>1. c \in CommentsFrom(i, a)
    BY <1>1
  <2>2. i <= N
    BY <2>1 DEF CommentsFrom
  <2>3. CASE CommentAt(i)
    <3>1. CommentEnd(i) \in i + 1 .. N
      BY <2>2, <2>3, CommentFacts
    <3>2. c = i .. CommentEnd(i) \/ c \in a[CommentEnd(i) + 1]
      BY <1>1, <2>1, <2>2, <2>3 DEF CommentsFrom
    <3>3. CommentEnd(i) + 1 \in i + 1 .. N + 1 /\ i .. CommentEnd(i) \in SUBSET (i .. N)
      BY <3>1
    <3>4. \A d \in a[CommentEnd(i) + 1] : d \in SUBSET (CommentEnd(i) + 1 .. N)
      BY <1>2, <3>3
    <3>5. CommentEnd(i) + 1 .. N \subseteq i .. N
      BY <3>1
    <3> QED BY <3>2, <3>3, <3>4, <3>5
  <2>4. CASE ~CommentAt(i)
    <3>1. c \in a[i + 1] /\ i + 1 \in i + 1 .. N + 1
      BY <1>1, <2>1, <2>2, <2>4 DEF CommentsFrom
    <3>2. c \in SUBSET (i + 1 .. N)
      BY <1>2, <3>1
    <3> QED BY <3>2
  <2> QED BY <2>3, <2>4
<1>3. \A i \in 1 .. N + 1 : i \in S
  <2> HIDE DEF S, N
  <2> QED BY <1>1, <1>2, Backwards
<1> QED BY <1>3

\* i is not inside a comment: the comments are those from i on and those
\* before i.
Before(c, i) == c \subseteq 1 .. i - 1
Outside(a, i) ==
  /\ i \in 1 .. Len(text) + 1 /\ a[i] \subseteq a[1]
  /\ \A c \in a[1] : c \in a[i] \/ Before(c, i)

LEMMA OutsideComment ==
  ASSUME text \in Seq(STRING), NEW a, Comments(a, 1),
         NEW i \in 1 .. Len(text), Outside(a, i), CommentAt(i)
  PROVE  Outside(a, CommentEnd(i) + 1) /\ \A k \in i .. CommentEnd(i) : k \in UNION a[1]
<1> DEFINE e == CommentEnd(i)
<1>1. e \in i + 1 .. Len(text) /\ Len(text) \in Nat
  BY CommentFacts
<1>2. a[i] = {i .. e} \cup a[e + 1]
  <2>1. a[i] = CommentsFrom(i, a)
    BY DEF Comments
  <2> QED BY <2>1 DEF CommentsFrom
<1> HIDE DEF e
<1>3. e + 1 \in 1 .. Len(text) + 1 /\ i - 1 \in Int /\ (e + 1) - 1 = e
  BY <1>1
<1>4. ASSUME NEW c \in a[1] PROVE c \in a[e + 1] \/ Before(c, e + 1)
  <2> DEFINE I == i .. e
  <2>1. I \subseteq 1 .. (e + 1) - 1 /\ 1 .. i - 1 \subseteq 1 .. (e + 1) - 1
    BY <1>1
  <2>2. a[i] = {I} \cup a[e + 1]
    BY <1>2
  <2> HIDE DEF I
  <2>3. c = I \/ c \in a[e + 1] \/ Before(c, i)
    BY <2>2 DEF Outside
  <2>4. Before(I, e + 1)
    <3>1. I \subseteq 1 .. (e + 1) - 1
      BY <2>1
    <3> QED BY <3>1 DEF Before
  <2>5. ASSUME Before(c, i) PROVE Before(c, e + 1)
    <3>1. 1 .. i - 1 \subseteq 1 .. (e + 1) - 1
      BY <2>1
    <3>2. c \subseteq 1 .. i - 1
      BY <2>5 DEF Before
    <3>3. c \subseteq 1 .. (e + 1) - 1
      BY <3>1, <3>2
    <3> QED BY <3>3 DEF Before
  <2> QED BY <2>3, <2>4, <2>5
<1>5. a[e + 1] \subseteq a[1] /\ i .. e \in a[1]
  BY <1>2 DEF Outside
<1>6. Outside(a, e + 1)
  BY <1>3, <1>4, <1>5 DEF Outside
<1>7. \A k \in i .. e : k \in UNION a[1]
  BY <1>5
<1> QED BY <1>6, <1>7 DEF e

LEMMA OutsidePlain ==
  ASSUME text \in Seq(STRING), NEW a, Comments(a, 1),
         NEW i \in 1 .. Len(text), Outside(a, i), ~CommentAt(i)
  PROVE  Outside(a, i + 1) /\ i \notin UNION a[1]
<1>1. a[i] = a[i + 1] /\ i + 1 \in 1 .. Len(text) + 1
  <2>1. a[i] = CommentsFrom(i, a)
    BY DEF Comments
  <2> QED BY <2>1 DEF CommentsFrom
<1>2. ASSUME NEW c \in a[1]
      PROVE  (c \in a[i + 1] \/ Before(c, i + 1)) /\ i \notin c
  <2>1. c \in a[i + 1] \/ Before(c, i)
    BY <1>1 DEF Outside
  <2>2. CASE c \in a[i + 1]
    <3>1. c \in SUBSET (i + 1 .. Len(text))
      BY <1>1, <2>2, CommentsAhead
    <3> QED BY <2>2, <3>1
  <2>3. CASE Before(c, i)
    <3>1. i \notin 1 .. i - 1 /\ 1 .. i - 1 \subseteq 1 .. (i + 1) - 1
      OBVIOUS
    <3>2. Before(c, i + 1) /\ i \notin c
      BY <2>3, <3>1 DEF Before
    <3> QED BY <3>2
  <2> QED BY <2>1, <2>2, <2>3
<1>3. Outside(a, i + 1)
  BY <1>1, <1>2 DEF Outside
<1> QED BY <1>2, <1>3

\* The two texts, compared.
LEMMA BlanksForComments ==
  ASSUME text \in Seq(STRING), NEW a, CComments = a[1]
  PROVE  /\ Len(text) \in Nat /\ WithoutComments \in Seq(STRING \cup {" "})
         /\ Len(WithoutComments) = Len(text)
         /\ \A k \in 1 .. Len(text) :
              WithoutComments[k] = IF k \in UNION a[1] THEN " " ELSE text[k]
<1> DEFINE N == Len(text)
<1>1. N \in Nat /\ DOMAIN text = 1 .. N /\ \A k \in 1 .. N : text[k] \in STRING
  OBVIOUS
<1>2. WithoutComments = [k \in 1 .. N |-> IF k \in UNION a[1] THEN " " ELSE text[k]]
  BY <1>1 DEF WithoutComments
<1> DEFINE W == WithoutComments
<1>3. \A k \in 1 .. N : W[k] = IF k \in UNION a[1] THEN " " ELSE text[k]
  BY <1>2
<1>4. ASSUME NEW k \in 1 .. N PROVE W[k] \in STRING \cup {" "}
  <2>1. text[k] \in STRING
    BY <1>1
  <2> QED BY <1>3, <2>1
<1>5. W = [k \in 1 .. N |-> W[k]]
  BY <1>2
<1> HIDE DEF W
<1>6. W \in [1 .. N -> STRING \cup {" "}]
  BY <1>4, <1>5
<1> HIDE DEF N
<1>7. N \in Nat
  BY <1>1
<1> DEFINE Chars == STRING \cup {" "}
<1>8. W \in Seq(Chars) /\ Len(W) = N
  <2>1. W \in [1 .. N -> Chars]
    BY <1>6
  <2> HIDE DEF Chars
  <2>2. W \in Seq(Chars)
    BY <1>7, <2>1
  <2>3. DOMAIN W = 1 .. N
    BY <2>1
  <2> QED BY <1>7, <2>2, <2>3
<1> QED BY <1>1, <1>3, <1>8 DEF W, N

\* From a place outside the comments the two texts are the same up to d: the
\* next comment, or the end.
Alike(i, d) ==
  /\ d \in i + 1 .. Len(text) + 1 /\ \A k \in i .. d - 1 : ~CommentAt(k)
  /\ \A k \in i .. d - 1 : WithoutComments[k] = text[k]
  /\ d <= Len(text) => text[d] = "/" /\ WithoutComments[d] = " "

LEMMA AlikeUpTo ==
  ASSUME text \in Seq(STRING), NEW a, Comments(a, 1), CComments = a[1],
         NEW i \in 1 .. Len(text), Outside(a, i), ~CommentAt(i)
  PROVE  \E d : Alike(i, d) /\ \A k \in i .. d : Outside(a, k)
<1> DEFINE N == Len(text)
           K == {k \in i .. N : CommentAt(k)}
<1>1. N \in Nat /\ i \in 1 .. N + 1 /\ K \in SUBSET (i .. N)
  OBVIOUS
<1>2. PICK d \in i .. N + 1 : (d = N + 1 \/ d \in K) /\ \A k \in K : d <= k
  <2> HIDE DEF K
  <2> QED BY <1>1, NextOf
<1>3. d # i
  BY <1>2
<1>4. d \in i + 1 .. N + 1
  BY <1>1, <1>2, <1>3
<1>5. ASSUME NEW k \in i .. d - 1 PROVE ~CommentAt(k) /\ k \in 1 .. N
  <2>1. k \in i .. N /\ k \in 1 .. N /\ ~(d <= k)
    BY <1>4
  <2>2. k \notin K
    <3> HIDE DEF K
    <3> QED BY <1>2, <2>1
  <2> QED BY <2>1, <2>2
<1>6. \A k \in i .. d : Outside(a, k)
  <2> DEFINE S == {k \in 1 .. N + 1 : Outside(a, k)}
  <2>1. ASSUME NEW k \in i .. d - 1, k \in S PROVE k + 1 \in S
    <3>1. Outside(a, k + 1)
      BY <1>5, <2>1, OutsidePlain
    <3>2. k + 1 \in 1 .. N + 1
      BY <1>5
    <3> QED BY <3>1, <3>2
  <2>2. i \in S /\ i \in Nat /\ d \in Nat
    BY <1>4
  <2>3. \A k \in i .. d : k \in S
    <3> HIDE DEF S, N
    <3> QED BY <2>1, <2>2, Upwards
  <2> QED BY <2>3
<1>7. \A k \in i .. d - 1 : WithoutComments[k] = text[k]
  <2> SUFFICES ASSUME NEW k \in i .. d - 1 PROVE WithoutComments[k] = text[k]
    OBVIOUS
  <2>1. k \in i .. d /\ ~CommentAt(k) /\ k \in 1 .. N
    BY <1>4, <1>5
  <2>2. k \notin UNION a[1]
    BY <1>6, <2>1, OutsidePlain
  <2> QED BY <2>1, <2>2, BlanksForComments
<1>8. d <= N => text[d] = "/" /\ WithoutComments[d] = " "
  <2> SUFFICES ASSUME d <= N PROVE text[d] = "/" /\ WithoutComments[d] = " "
    OBVIOUS
  <2>1. d \in K
    BY <1>1, <1>4, <1>2
  <2>2. CommentAt(d) /\ d \in 1 .. N /\ d \in i .. d
    BY <1>4, <2>1
  <2>3. text[d] = "/" /\ CommentEnd(d) \in d + 1 .. N
    BY <2>2, CommentFacts
  <2>4. d \in d .. CommentEnd(d)
    BY <2>2, <2>3
  <2>5. d \in UNION a[1]
    BY <1>6, <2>2, <2>4, OutsideComment
  <2> QED BY <2>2, <2>3, <2>5, BlanksForComments
<1> QED BY <1>4, <1>5, <1>6, <1>7, <1>8 DEF Alike

-----------------------------------------------------------------------------
(* Steps of the lexer.                                                     *)

LEMMA NotInNames ==
  /\ \A c \in Letters \cup DigitsOf(10) \cup DigitsOf(8) \cup DigitsOf(16) \cup {"0"} :
       c \notin Space \cup {"/"}
  /\ \A c \in HexMark : c \notin Space \cup {"/"}
<1>1. ASSUME NEW base \in 1 .. 16, NEW c \in DigitsOf(base) PROVE c \notin Space \cup {"/"}
  <2>1. PICK k \in 1 .. base : c = Digits[k]
    BY DEF DigitsOf
  <2>2. k \in 1 .. 16
    OBVIOUS
  <2>3. \A m \in 1 .. 16 : Digits[m] \notin {" ", "nl", "/"}
    <3> SUFFICES ASSUME NEW m \in 1 .. 16 PROVE Digits[m] \notin {" ", "nl", "/"}
      OBVIOUS
    <3>d. /\ Digits[1] = "0" /\ Digits[2] = "1" /\ Digits[3] = "2" /\ Digits[4] = "3"
          /\ Digits[5] = "4" /\ Digits[6] = "5" /\ Digits[7] = "6" /\ Digits[8] = "7"
          /\ Digits[9] = "8" /\ Digits[10] = "9" /\ Digits[11] = "a" /\ Digits[12] = "b"
          /\ Digits[13] = "c" /\ Digits[14] = "d" /\ Digits[15] = "e" /\ Digits[16] = "f"
      BY DEF Digits
    <3>1. m \in {1, 2, 3, 4, 5, 6, 7, 8} \/ m \in {9, 10, 11, 12, 13, 14, 15, 16}
      OBVIOUS
    <3>2. CASE m \in {1, 2, 3, 4, 5, 6, 7, 8}
      BY <3>d, <3>2
    <3>3. CASE m \in {9, 10, 11, 12, 13, 14, 15, 16}
      BY <3>d, <3>3
    <3> QED BY <3>1, <3>2, <3>3
  <2>4. c \notin {" ", "nl", "/"}
    BY <2>1, <2>2, <2>3
  <2> QED BY <2>4 DEF Space, NewLine
<1>2. \A c \in Letters \cup {"0"} \cup HexMark : c \notin Space \cup {"/"}
  BY DEF Letters, HexMark, Space, NewLine
<1>3. 10 \in 1 .. 16 /\ 8 \in 1 .. 16 /\ 16 \in 1 .. 16
  OBVIOUS
<1> QED BY <1>1, <1>2, <1>3

\* What the first character of a match says of the rule.
LEMMA FirstCharacter ==
  ASSUME NEW t, Len(t) \in Nat, NEW i \in 1 .. Len(t), NEW r \in Rules, NEW e \in Ends(t, i)[r]
  PROVE  /\ r = "space" <=> t[i] \in Space
         /\ r = "line" => At(t, i, <<"/", "/">>)
         /\ r = "block" => At(t, i, <<"/", "*">>)
         /\ r \notin {"line", "block"} /\ t[i] = "/" => e = i + 1
<1>1. ASSUME NEW first, NEW others, e \in Class(t, i, first, others) PROVE t[i] \in first
  BY <1>1, ClassWithin
<1>2. i \in Nat /\ "/" \notin Space
  BY DEF Space, NewLine
<1>3. CASE r = "space"
  BY <1>1, <1>2, <1>3, EndsFields
<1>4. CASE r = "line"
  <2>1. At(t, i, <<"/", "/">>)
    BY <1>4, EndsFields, LineWithin
  <2>2. t[i] = "/"
    BY <1>2, <2>1, AtTwo
  <2> QED BY <1>2, <1>4, <2>1, <2>2
<1>5. CASE r = "block"
  <2>1. At(t, i, <<"/", "*">>)
    <3>1. e \in BlockComment(t, i)
      BY <1>5, EndsFields
    <3> QED BY <3>1 DEF BlockComment
  <2>2. t[i] = "/"
    BY <1>2, <2>1, AtTwo
  <2> QED BY <1>2, <1>5, <2>1, <2>2
<1>6. CASE r \in {"ident", "decimal", "octal", "hex"}
  <2>1. t[i] \in Letters \/ t[i] \in DigitsOf(10) \/ t[i] \in {"0"}
    BY <1>1, <1>6, EndsFields, HexWithin
  <2>2. t[i] \notin Space \cup {"/"}
    BY <2>1, NotInNames
  <2> QED BY <1>6, <2>2
<1>7. CASE r = "literal"
  <2>1. e \in LiteralEnds(t, i)
    BY <1>7, EndsFields
  <2>2. t[i] \notin Space /\ (e = i + 1 \/ t[i] # "/")
    BY <1>2, <2>1, LiteralWithin
  <2> QED BY <1>7, <2>2
<1> QED BY <1>3, <1>4, <1>5, <1>6, <1>7 DEF Rules

\* A match that is longer than every other rule's is the one taken.
LEMMA LongestIs ==
  ASSUME NEW t, Len(t) \in Nat, NEW i \in 1 .. Len(t), NEW r \in Rules, NEW e \in Ends(t, i)[r],
         \A q \in Rules : \A x \in Ends(t, i)[q] : x <= e /\ (x = e => q = r)
  PROVE  EndsAny(t, i) # {} /\ Longest(t, i) = e /\ RuleAt(t, i) = r
<1>1. e \in EndsAny(t, i)
  BY RulesAre
<1>2. Longest(t, i) \in EndsAny(t, i) /\ Longest(t, i) \in i + 1 .. Len(t) + 1 /\ Longest(t, i) >= e
  BY <1>1, LongestFacts
<1>3. e \in i + 1 .. Len(t) + 1
  BY <1>1, EndsWithin
<1>4. PICK q \in Rules : Longest(t, i) \in Ends(t, i)[q]
  BY <1>2, RulesAre
<1>5. Longest(t, i) = e
  BY <1>2, <1>3, <1>4
<1>6. RuleAt(t, i) = r
  BY <1>5, RulesAre DEF RuleAt
<1> QED BY <1>1, <1>5, <1>6

\* Two runs that overlap end together.
LEMMA SameRun ==
  ASSUME NEW t, Len(t) \in Nat, NEW i \in Nat, NEW j \in Nat, NEW chars, NEW v, NEW w,
         RunOf(t, i, chars, v), RunOf(t, j, chars, w), v \in j .. w \/ w \in i .. v
  PROVE  v = w
<1>1. v \in i .. Len(t) + 1 /\ w \in j .. Len(t) + 1
  BY DEF RunOf
<1>2. ASSUME v < w, v \in j .. w PROVE FALSE
  <2>1. v \in j .. w - 1 /\ v <= Len(t)
    BY <1>1, <1>2
  <2> QED BY <2>1 DEF RunOf
<1>3. ASSUME w < v, w \in i .. v PROVE FALSE
  <2>1. w \in i .. v - 1 /\ w <= Len(t)
    BY <1>1, <1>3
  <2> QED BY <2>1 DEF RunOf
<1> QED BY <1>1, <1>2, <1>3

LEMMA SpaceMatch ==
  ASSUME NEW t, Len(t) \in Nat, NEW i \in 1 .. Len(t), t[i] \in Space, NEW a, Lexes(a, t, 1)
  PROVE  a[i] = a[EndOfRun(t, i + 1, Space)] /\ RunOf(t, i + 1, Space, EndOfRun(t, i + 1, Space))
<1> DEFINE w == EndOfRun(t, i + 1, Space)
<1>1. Ends(t, i)["space"] = {w}
  BY EndsFields, ClassIs
<1>2. RunOf(t, i + 1, Space, w)
  BY RunFacts
<1> HIDE DEF w
<1>3. w \in i + 1 .. Len(t) + 1
  BY <1>2 DEF RunOf
<1>4. \A q \in Rules : \A x \in Ends(t, i)[q] : x <= w /\ (x = w => q = "space")
  BY <1>1, <1>3, FirstCharacter
<1>5. "space" \in Rules
  BY DEF Rules
<1>6. EndsAny(t, i) # {} /\ Longest(t, i) = w /\ RuleAt(t, i) = "space"
  BY <1>1, <1>4, <1>5, LongestIs
<1>7. a[i] = LexFrom(t, i, a)
  BY DEF Lexes
<1>8. a[i] = a[w]
  BY <1>6, <1>7 DEF LexFrom, Skipped
<1> QED BY <1>2, <1>8 DEF w

\* White space is skipped one character at a time as well as at once.
LEMMA SpaceStep ==
  ASSUME NEW t, Len(t) \in Nat, NEW i \in 1 .. Len(t), t[i] \in Space, NEW a, Lexes(a, t, 1)
  PROVE  a[i] = a[i + 1]
<1> DEFINE w == EndOfRun(t, i + 1, Space)
<1>1. a[i] = a[w] /\ RunOf(t, i + 1, Space, w)
  BY SpaceMatch
<1> HIDE DEF w
<1>2. w \in i + 1 .. Len(t) + 1 /\ (w <= Len(t) => t[w] \notin Space)
      /\ \A k \in i + 1 .. w - 1 : t[k] \in Space
  BY <1>1 DEF RunOf
<1>3. CASE w # i + 1
  <2>1. i + 1 \in i + 1 .. w - 1 /\ i + 1 \in 1 .. Len(t)
    BY <1>2, <1>3
  <2>2. t[i + 1] \in Space
    BY <1>2, <2>1
  <2> DEFINE v == EndOfRun(t, i + 1 + 1, Space)
  <2>3. a[i + 1] = a[v] /\ RunOf(t, i + 1 + 1, Space, v)
    BY <2>1, <2>2, SpaceMatch
  <2> HIDE DEF v
  <2>4. v \in i + 1 + 1 .. Len(t) + 1
    BY <2>3 DEF RunOf
  <2>5. v \in i + 1 .. w \/ w \in i + 1 + 1 .. v
    BY <1>2, <1>3, <2>4
  <2>6. i + 1 \in Nat /\ i + 1 + 1 \in Nat
    OBVIOUS
  <2>7. v = w
    BY <1>1, <2>3, <2>5, <2>6, SameRun
  <2> QED BY <1>1, <2>3, <2>7
<1> QED BY <1>1, <1>3

LEMMA SpaceSteps ==
  ASSUME NEW t, Len(t) \in Nat, NEW i \in 1 .. Len(t) + 1, NEW j \in i .. Len(t) + 1,
         \A k \in i .. j - 1 : t[k] \in Space, NEW a, Lexes(a, t, 1)
  PROVE  a[i] = a[j]
<1> DEFINE S == {k \in i .. j : a[i] = a[k]}
<1>1. ASSUME NEW k \in i .. j - 1, k \in S PROVE k + 1 \in S
  <2>1. k \in 1 .. Len(t) /\ k + 1 \in i .. j
    OBVIOUS
  <2>2. a[k] = a[k + 1]
    BY <2>1, SpaceStep
  <2> QED BY <1>1, <2>1, <2>2
<1>2. i \in S /\ i \in Nat /\ j \in Nat
  OBVIOUS
<1>3. \A k \in i .. j : k \in S
  <2> HIDE DEF S
  <2> QED BY <1>1, <1>2, Upwards
<1> QED BY <1>3

LEMMA SameLine ==
  ASSUME NEW t, Len(t) \in Nat, NEW i \in Nat, NEW v, NEW w, At(t, i, <<"/", "/">>),
         RunWithout(t, i + 2, NewLine, v), RunWithout(t, i, NewLine, w)
  PROVE  v = w
<1>1. v \in i + 2 .. Len(t) + 1 /\ w \in i .. Len(t) + 1
  BY DEF RunWithout
<1>2. t[i] = "/" /\ t[i + 1] = "/" /\ i + 1 <= Len(t)
  BY AtTwo
<1>3. w \in i + 2 .. Len(t) + 1
  <2>1. w <= Len(t) => t[w] \in NewLine
    BY DEF RunWithout
  <2>2. w # i /\ w # i + 1
    BY <1>2, <2>1 DEF NewLine
  <2> QED BY <1>1, <2>2
<1>4. ASSUME v < w PROVE FALSE
  <2>1. v \in i .. w - 1 /\ v <= Len(t)
    BY <1>1, <1>4
  <2> QED BY <2>1 DEF RunWithout
<1>5. ASSUME w < v PROVE FALSE
  <2>1. w \in i + 2 .. v - 1 /\ w <= Len(t)
    BY <1>1, <1>3, <1>5
  <2> QED BY <2>1 DEF RunWithout
<1> QED BY <1>1, <1>4, <1>5

\* A line comment is skipped up to its end, with the new lines after it.
LEMMA LineStep ==
  ASSUME NEW t, Len(t) \in Nat, NEW i \in 1 .. Len(t), At(t, i, <<"/", "/">>),
         NEW w, RunWithout(t, i, NewLine, w), NEW a, Lexes(a, t, 1)
  PROVE  a[i] = a[w]
<1> DEFINE v == EndOfOthers(t, i + 2, NewLine)
           e == EndOfRun(t, v, NewLine)
<1>1. t[i] = "/" /\ t[i + 1] = "/" /\ i + 1 <= Len(t) /\ i + 2 \in 1 .. Len(t) + 1 /\ i \in Nat
  <2>1. i \in Nat
    OBVIOUS
  <2>2. t[i] = "/" /\ t[i + 1] = "/" /\ i + 1 <= Len(t)
    BY <2>1, AtTwo
  <2> QED BY <2>1, <2>2
<1>2. RunWithout(t, i + 2, NewLine, v)
  BY <1>1, OthersFacts
<1>3. LineComment(t, i) = {e}
  BY LineCommentIs
<1>4. v \in i + 2 .. Len(t) + 1
  BY <1>2 DEF RunWithout
<1>5. v \in 1 .. Len(t) + 1
  BY <1>4
<1> HIDE DEF v
<1>6. RunOf(t, v, NewLine, e)
  BY <1>5, RunFacts
<1> HIDE DEF e
<1>7. v = w
  BY <1>1, <1>2, SameLine
<1>8. e \in v .. Len(t) + 1 /\ \A k \in v .. e - 1 : t[k] \in Space
  BY <1>6 DEF RunOf, Space
<1>9. ASSUME NEW q \in Rules, NEW x \in Ends(t, i)[q] PROVE x <= e /\ (x = e => q = "line")
  <2>1. CASE q = "line"
    <3>1. x = e
      BY <1>3, <2>1, EndsFields
    <3> QED BY <1>4, <1>8, <2>1, <3>1
  <2>2. CASE q = "block"
    <3>1. At(t, i, <<"/", "*">>)
      BY <2>2, FirstCharacter
    <3>2. t[i + 1] = "*"
      BY <1>1, <3>1, AtTwo
    <3> QED BY <1>1, <3>2
  <2>3. CASE q \notin {"line", "block"}
    <3>1. x = i + 1
      BY <1>1, <2>3, FirstCharacter
    <3>2. e # i + 1 /\ i + 1 <= e
      BY <1>4, <1>8
    <3> QED BY <3>1, <3>2
  <2> QED BY <2>1, <2>2, <2>3
<1>10. e \in Ends(t, i)["line"] /\ "line" \in Rules
  BY <1>3, EndsFields DEF Rules
<1>11. EndsAny(t, i) # {} /\ Longest(t, i) = e /\ RuleAt(t, i) = "line"
  BY <1>9, <1>10, LongestIs
<1>12. a[i] = a[e]
  <2>1. a[i] = LexFrom(t, i, a)
    BY DEF Lexes
  <2> QED BY <1>11, <2>1 DEF LexFrom, Skipped
<1>13. a[v] = a[e]
  BY <1>5, <1>8, SpaceSteps
<1> QED BY <1>7, <1>12, <1>13

\* In a text of one-liners, the only end of a block comment the lexer's rule
\* takes is the first.
LEMMA OneBlockEnd ==
  ASSUME text \in Seq(STRING), OneLiners, NEW i \in 1 .. Len(text), At(text, i, <<"/", "*">>),
         NEW k \in BlockEnds, k >= i + 3, \A m \in BlockEnds : m >= i + 3 => k <= m,
         \A c \in i .. k : text[c] \notin NewLine
  PROVE  BlockComment(text, i) = {k + 1}
<1> DEFINE N == Len(text)
<1>1. N \in Nat /\ k \in 2 .. N /\ k - 1 \in i + 2 .. N /\ At(text, k - 1, <<"*", "/">>)
  BY DEF BlockEnds
<1>2. k + 1 \in BlockComment(text, i)
  <2> DEFINE m == k - 1
  <2>1. m \in i + 2 .. N /\ At(text, m, <<"*", "/">>) /\ m \in i + 2 .. m /\ k + 1 = m + 2
    BY <1>1
  <2>2. \A c \in i + 2 .. m - 1 : text[c] \in NewLine <=> c >= m
    <3>1. \A c \in i + 2 .. m - 1 : c \in i .. k /\ ~(c >= m)
      BY <1>1
    <3> QED BY <3>1
  <2> HIDE DEF m
  <2> QED BY <2>1, <2>2 DEF BlockComment
<1>3. ASSUME NEW x \in BlockComment(text, i) PROVE x = k + 1
  <2>1. PICK m \in i + 2 .. N :
          /\ x = m + 2 /\ At(text, m, <<"*", "/">>)
          /\ \E line \in i + 2 .. m : \A c \in i + 2 .. m - 1 : text[c] \in NewLine <=> c >= line
    BY DEF BlockComment
  <2>2. PICK line \in i + 2 .. m : \A c \in i + 2 .. m - 1 : text[c] \in NewLine <=> c >= line
    BY <2>1
  <2>3. m \in Nat /\ m + 1 <= N /\ text[m] = "*"
    BY <2>1, AtTwo
  <2>4. m + 1 \in BlockEnds /\ m + 1 >= i + 3 /\ (m + 1) - 1 = m
    <3>1. (m + 1) - 1 = m /\ m + 1 \in 2 .. N /\ m + 1 >= i + 3
      BY <2>3
    <3> QED BY <2>1, <3>1 DEF BlockEnds
  <2>5. k <= m + 1
    BY <2>4
  <2>6. CASE line = m
    <3>1. ASSUME NEW c \in k .. m PROVE text[c] \notin NewLine
      <4>1. CASE c = m
        BY <2>3, <4>1 DEF NewLine
      <4>2. CASE c # m
        <5>1. c \in i + 2 .. m - 1 /\ ~(c >= m)
          BY <1>1, <2>3, <4>2
        <5> QED BY <2>2, <2>6, <5>1
      <4> QED BY <4>1, <4>2
    <3>2. {c \in 1 .. k - 1 : text[c] \in NewLine} = {c \in 1 .. (m + 1) - 1 : text[c] \in NewLine}
      <4>1. 1 .. k - 1 \subseteq 1 .. (m + 1) - 1
        BY <1>1, <2>3, <2>5
      <4>2. \A c \in 1 .. (m + 1) - 1 : c \in 1 .. k - 1 \/ c \in k .. m
        BY <1>1, <2>3, <2>5
      <4> QED BY <3>1, <4>1, <4>2
    <3>3. LineOf(k) = LineOf(m + 1)
      BY <3>2 DEF LineOf
    <3>4. k = m + 1
      BY <2>4, <3>3 DEF OneLiners
    <3> QED BY <1>1, <2>1, <2>3, <3>4
  <2>7. CASE line # m
    <3>1. m - 1 \in i + 2 .. m - 1 /\ m - 1 >= line /\ (m + 1) - 2 = m - 1 /\ m + 1 # 2
      BY <2>3, <2>7
    <3>2. text[m - 1] \in NewLine
      BY <2>2, <3>1
    <3>3. text[(m + 1) - 2] \notin NewLine
      BY <2>4, <3>1 DEF OneLiners
    <3> QED BY <3>1, <3>2, <3>3
  <2> QED BY <2>6, <2>7
<1> QED BY <1>2, <1>3

LEMMA BlockStep ==
  ASSUME text \in Seq(STRING), NEW i \in 1 .. Len(text), NEW e \in Nat, e > i + 1,
         BlockComment(text, i) = {e}, NEW a, Lexes(a, text, 1)
  PROVE  a[i] = a[e]
<1>1. At(text, i, <<"/", "*">>) /\ i \in Nat /\ Len(text) \in Nat
  <2>1. e \in BlockComment(text, i)
    OBVIOUS
  <2> QED BY <2>1 DEF BlockComment
<1>2. text[i] = "/" /\ text[i + 1] = "*"
  BY <1>1, AtTwo
<1>3. ASSUME NEW q \in Rules, NEW x \in Ends(text, i)[q] PROVE x <= e /\ (x = e => q = "block")
  <2>1. CASE q = "block"
    <3>1. x = e
      BY <2>1, EndsFields
    <3> QED BY <2>1, <3>1
  <2>2. CASE q = "line"
    <3>1. At(text, i, <<"/", "/">>)
      BY <1>1, <2>2, FirstCharacter
    <3>2. text[i + 1] = "/"
      BY <1>1, <3>1, AtTwo
    <3> QED BY <1>2, <3>2
  <2>3. CASE q \notin {"line", "block"}
    <3>1. x = i + 1
      BY <1>1, <1>2, <2>3, FirstCharacter
    <3> QED BY <3>1
  <2> QED BY <2>1, <2>2, <2>3
<1>4. e \in Ends(text, i)["block"] /\ "block" \in Rules
  BY EndsFields DEF Rules
<1>5. EndsAny(text, i) # {} /\ Longest(text, i) = e /\ RuleAt(text, i) = "block"
  BY <1>1, <1>3, <1>4, LongestIs
<1>6. a[i] = LexFrom(text, i, a)
  BY DEF Lexes
<1> QED BY <1>5, <1>6 DEF LexFrom, Skipped

-----------------------------------------------------------------------------
(* Outside the comments the lexer takes the same token from the two texts. *)

LEMMA SameClass ==
  ASSUME NEW t, NEW u, Len(t) \in Nat, Len(u) = Len(t), NEW i \in 1 .. Len(t), NEW d \in i .. Len(t) + 1,
         \A k \in i .. d - 1 : t[k] = u[k], NEW first, NEW others,
         d <= Len(t) => {t[d], u[d]} \cap (first \cup others) = {}
  PROVE  /\ Class(t, i, first, others) = Class(u, i, first, others)
         /\ \A e \in Class(t, i, first, others) : e <= d
<1>1. CASE t[i] \notin first
  <2>1. u[i] \notin first
    <3>1. CASE i = d
      BY <3>1
    <3>2. CASE i # d
      <4>1. i \in i .. d - 1
        BY <3>2
      <4> QED BY <1>1, <4>1
    <3> QED BY <3>1, <3>2
  <2> QED BY <1>1, <2>1, ClassIs
<1>2. CASE t[i] \in first
  <2> DEFINE v == EndOfRun(t, i + 1, others)
             w == EndOfRun(u, i + 1, others)
  <2>1. i # d /\ i \in i .. d - 1
    <3>1. i # d
      BY <1>2
    <3> QED BY <3>1
  <2>2. u[i] \in first
    BY <1>2, <2>1
  <2>3. Class(t, i, first, others) = {v} /\ Class(u, i, first, others) = {w}
    BY <1>2, <2>2, ClassIs
  <2>4. RunOf(t, i + 1, others, v) /\ RunOf(u, i + 1, others, w)
    <3>1. i + 1 \in 1 .. Len(t) + 1 /\ i + 1 \in 1 .. Len(u) + 1 /\ Len(u) \in Nat
      OBVIOUS
    <3> QED BY <3>1, RunFacts
  <2> HIDE DEF v, w
  <2>5. v \in i + 1 .. Len(t) + 1 /\ w \in i + 1 .. Len(t) + 1
    BY <2>4 DEF RunOf
  <2>6. ASSUME d < v PROVE FALSE
    <3>1. d \in i + 1 .. v - 1 /\ d <= Len(t)
      BY <2>1, <2>5, <2>6
    <3>2. t[d] \in others
      BY <2>4, <3>1 DEF RunOf
    <3> QED BY <3>1, <3>2
  <2>7. ASSUME d < w PROVE FALSE
    <3>1. d \in i + 1 .. w - 1 /\ d <= Len(t)
      BY <2>1, <2>5, <2>7
    <3>2. u[d] \in others
      BY <2>4, <3>1 DEF RunOf
    <3> QED BY <3>1, <3>2
  <2>8. v <= d /\ w <= d
    BY <2>5, <2>6, <2>7
  <2>9. ASSUME v < w PROVE FALSE
    <3>1. v \in i + 1 .. w - 1 /\ v <= Len(t) /\ v \in i .. d - 1
      BY <2>5, <2>8, <2>9
    <3>2. t[v] \notin others /\ u[v] \in others
      BY <2>4, <3>1 DEF RunOf
    <3> QED BY <3>1, <3>2
  <2>10. ASSUME w < v PROVE FALSE
    <3>1. w \in i + 1 .. v - 1 /\ w <= Len(u) /\ w \in i .. d - 1
      BY <2>5, <2>8, <2>10
    <3>2. u[w] \notin others /\ t[w] \in others
      BY <2>4, <3>1 DEF RunOf
    <3> QED BY <3>1, <3>2
  <2>11. v = w
    BY <2>5, <2>9, <2>10
  <2> QED BY <2>3, <2>8, <2>11
<1> QED BY <1>1, <1>2

LEMMA AlikeFacts ==
  ASSUME text \in Seq(STRING), NEW i \in 1 .. Len(text), NEW d, Alike(i, d)
  PROVE  /\ i \in Nat /\ Len(text) \in Nat /\ d \in Nat /\ d \in i + 1 .. Len(text) + 1
         /\ text[i] = WithoutComments[i]
         /\ \/ i + 1 \in i .. d - 1 /\ d \in i + 2 .. Len(text) + 1
               /\ text[i + 1] = WithoutComments[i + 1]
            \/ i + 1 = d
         /\ d <= Len(text) => text[d] = "/" /\ WithoutComments[d] = " "
<1>1. i \in Nat /\ Len(text) \in Nat
  OBVIOUS
<1>2. d \in i + 1 .. Len(text) + 1
  BY DEF Alike
<1>3. d \in Nat
  BY <1>1, <1>2
<1>4. i \in i .. d - 1
  BY <1>1, <1>2
<1>5. text[i] = WithoutComments[i]
  BY <1>4 DEF Alike
<1>6. CASE i + 1 # d
  <2>1. i + 1 \in i .. d - 1 /\ d \in i + 2 .. Len(text) + 1
    BY <1>1, <1>2, <1>6
  <2>2. text[i + 1] = WithoutComments[i + 1]
    BY <2>1 DEF Alike
  <2> QED BY <1>1, <1>2, <1>3, <1>5, <2>1, <2>2 DEF Alike
<1>7. CASE i + 1 = d
  BY <1>1, <1>2, <1>3, <1>5, <1>7 DEF Alike
<1> QED BY <1>6, <1>7

LEMMA SameTwo ==
  ASSUME text \in Seq(STRING), Len(WithoutComments) = Len(text),
         NEW i \in 1 .. Len(text), NEW d, Alike(i, d), NEW x, NEW y, y \notin {"/", " "}
  PROVE  At(text, i, <<x, y>>) <=> At(WithoutComments, i, <<x, y>>)
<1>1. i \in Nat /\ text[i] = WithoutComments[i]
  BY AlikeFacts
<1>2. ASSUME i + 1 <= Len(text) PROVE text[i + 1] = y <=> WithoutComments[i + 1] = y
  BY <1>2, AlikeFacts
<1>3. At(text, i, <<x, y>>) <=> i + 1 <= Len(text) /\ text[i] = x /\ text[i + 1] = y
  BY <1>1, AtTwo
<1>4. At(WithoutComments, i, <<x, y>>)
        <=> i + 1 <= Len(text) /\ WithoutComments[i] = x /\ WithoutComments[i + 1] = y
  BY <1>1, AtTwo
<1> QED BY <1>1, <1>2, <1>3, <1>4

LEMMA SameLiterals ==
  ASSUME text \in Seq(STRING), Len(WithoutComments) = Len(text),
         NEW i \in 1 .. Len(text), NEW d, Alike(i, d)
  PROVE  /\ LiteralEnds(text, i) = LiteralEnds(WithoutComments, i)
         /\ \A e \in LiteralEnds(text, i) : e <= d
<1>1. i \in Nat /\ d \in i + 1 .. Len(text) + 1
  BY AlikeFacts
<1>2. text[i] = WithoutComments[i]
  BY AlikeFacts
<1>3. ASSUME NEW u \in Terminals
      PROVE  At(text, i, Spelt(u)) <=> At(WithoutComments, i, Spelt(u))
  <2> DEFINE s == Spelt(u)
  <2>1. \/ \E x : s = <<x>> /\ x \notin Space
        \/ \E x, y : s = <<x, y>> /\ x \notin Space \cup {"/"} /\ y \notin {"/", " "}
    BY SpeltFacts
  <2> HIDE DEF s
  <2>2. ASSUME NEW x, s = <<x>> PROVE At(text, i, s) <=> At(WithoutComments, i, s)
    <3>1. At(text, i, <<x>>) <=> At(WithoutComments, i, <<x>>)
      BY <1>1, <1>2, AtOne
    <3> QED BY <2>2, <3>1
  <2>3. ASSUME NEW x, NEW y, s = <<x, y>>, y \notin {"/", " "}
        PROVE  At(text, i, s) <=> At(WithoutComments, i, s)
    <3>1. At(text, i, <<x, y>>) <=> At(WithoutComments, i, <<x, y>>)
      BY <2>3, SameTwo
    <3> QED BY <2>3, <3>1
  <2>4. At(text, i, s) <=> At(WithoutComments, i, s)
    BY <2>1, <2>2, <2>3
  <2> QED BY <2>4 DEF s
<1>4. LiteralEnds(text, i) = LiteralEnds(WithoutComments, i)
  BY <1>3 DEF LiteralEnds
<1>5. ASSUME NEW e \in LiteralEnds(text, i) PROVE e <= d
  <2>1. \/ e = i + 1 /\ i <= Len(text)
        \/ e = i + 2 /\ i + 1 <= Len(text) /\ text[i] # "/" /\ text[i + 1] \notin {"/", " "}
    BY <1>1, LiteralWithin
  <2>2. CASE e = i + 1
    BY <1>1, <2>2
  <2>3. CASE e = i + 2 /\ i + 1 <= Len(text) /\ text[i + 1] # "/"
    <3>1. i + 1 # d
      BY <2>3, AlikeFacts
    <3> QED BY <1>1, <2>3, <3>1
  <2> QED BY <2>1, <2>2, <2>3
<1> QED BY <1>4, <1>5

LEMMA SameHex ==
  ASSUME text \in Seq(STRING), Len(WithoutComments) = Len(text),
         NEW i \in 1 .. Len(text), NEW d, Alike(i, d)
  PROVE  /\ HexLiteral(text, i) = HexLiteral(WithoutComments, i)
         /\ \A e \in HexLiteral(text, i) : e <= d
<1> DEFINE W == WithoutComments
<1>1. i \in Nat /\ d \in i + 1 .. Len(text) + 1 /\ Len(text) \in Nat
  BY AlikeFacts
<1>2. text[i] = W[i]
  BY AlikeFacts
<1>n. ASSUME i < Len(text), i + 1 = d PROVE text[i + 1] = "/" /\ W[i + 1] = " "
  <2>1. d <= Len(text)
    BY <1>1, <1>n
  <2>2. text[d] = "/" /\ W[d] = " "
    BY <2>1, AlikeFacts
  <2> QED BY <1>n, <2>2
<1>3. At(text, i, <<"0">>) <=> At(W, i, <<"0">>)
  BY <1>1, <1>2, AtOne
<1>4. CASE ~(At(text, i, <<"0">>) /\ i < Len(text) /\ text[i + 1] \in HexMark)
  <2>1. ~(At(W, i, <<"0">>) /\ i < Len(W) /\ W[i + 1] \in HexMark)
    <3> SUFFICES ASSUME At(text, i, <<"0">>), i < Len(text), W[i + 1] \in HexMark PROVE FALSE
      BY <1>3
    <3>1. i + 1 # d
      <4>1. W[i + 1] # " "
        BY NotInNames DEF Space
      <4> QED BY <1>n, <4>1
    <3>2. text[i + 1] = W[i + 1]
      BY <3>1, AlikeFacts
    <3> QED BY <1>4, <3>2
  <2> QED BY <1>4, <2>1 DEF HexLiteral
<1>5. CASE At(text, i, <<"0">>) /\ i < Len(text) /\ text[i + 1] \in HexMark
  <2>1. i + 1 # d
    <3>1. text[i + 1] # "/"
      BY <1>5, NotInNames
    <3> QED BY <1>n, <1>5, <3>1
  <2>2. i + 1 \in i .. d - 1 /\ d \in i + 2 .. Len(text) + 1 /\ text[i + 1] = W[i + 1]
    BY <2>1, AlikeFacts
  <2>3. W[i + 1] \in HexMark
    BY <1>5, <2>2
  <2>4. /\ HexLiteral(text, i) = Class(text, i + 2, DigitsOf(16), DigitsOf(16))
        /\ HexLiteral(W, i) = Class(W, i + 2, DigitsOf(16), DigitsOf(16))
    BY <1>3, <1>5, <2>3 DEF HexLiteral
  <2>5. CASE i + 2 > Len(text)
    <3>1. \A t : Len(t) = Len(text) => Class(t, i + 2, DigitsOf(16), DigitsOf(16)) = {}
      BY <2>5, ClassIs
    <3> QED BY <2>4, <3>1
  <2>6. CASE i + 2 <= Len(text)
    <3>1. i + 2 \in 1 .. Len(text) /\ \A k \in i + 2 .. d - 1 : k \in i .. d - 1
      BY <1>1, <2>6
    <3>2. \A k \in i + 2 .. d - 1 : text[k] = W[k]
      BY <3>1 DEF Alike
    <3>3. d <= Len(text) => {text[d], W[d]} \cap (DigitsOf(16) \cup DigitsOf(16)) = {}
      BY NotInNames DEF Alike, Space
    <3> QED BY <1>1, <2>2, <2>4, <3>1, <3>2, <3>3, SameClass
  <2> QED BY <1>1, <2>5, <2>6
<1> QED BY <1>4, <1>5

\* A comment of the lexer's is one of C's, or none.
LEMMA NoComment ==
  ASSUME text \in Seq(STRING), NEW a, CComments = a[1],
         NEW i \in 1 .. Len(text), NEW d, Alike(i, d), ~CommentAt(i)
  PROVE  /\ LineComment(text, i) = {} /\ LineComment(WithoutComments, i) = {}
         /\ BlockComment(text, i) = {} /\ BlockComment(WithoutComments, i) = {}
<1> DEFINE W == WithoutComments
<1>1. Len(W) = Len(text) /\ \A k \in 1 .. Len(text) : W[k] = text[k] \/ W[k] = " "
  BY BlanksForComments
<1>2. i <= Len(text) /\ i \in Nat /\ Len(text) \in Nat
  OBVIOUS
<1>3. ~At(text, i, <<"/", "/">>)
  BY <1>2 DEF CommentAt
<1>4. ~At(W, i, <<"/", "/">>)
  <2> SUFFICES ASSUME At(W, i, <<"/", "/">>) PROVE FALSE
    OBVIOUS
  <2>1. i + 1 <= Len(text) /\ W[i] = "/" /\ W[i + 1] = "/"
    BY <1>1, <1>2, AtTwo
  <2>2. i \in 1 .. Len(text) /\ i + 1 \in 1 .. Len(text)
    BY <2>1
  <2>3. text[i] = "/" /\ text[i + 1] = "/"
    BY <1>1, <2>1, <2>2
  <2> QED BY <1>2, <1>3, <2>1, <2>3, AtTwo
<1>5. LineComment(text, i) = {} /\ LineComment(W, i) = {}
  BY <1>3, <1>4, LineCommentIs
<1>6. ASSUME NEW m \in i + 2 .. Len(text), At(text, i, <<"/", "*">>), At(text, m, <<"*", "/">>)
      PROVE  FALSE
  <2>1. m \in Nat /\ m + 1 <= Len(text)
    BY <1>2, <1>6, AtTwo
  <2>2. m + 1 \in 2 .. Len(text) /\ (m + 1) - 1 = m /\ m + 1 >= i + 3
    BY <2>1
  <2>3. m + 1 \in BlockEnds
    BY <1>6, <2>2 DEF BlockEnds
  <2> QED BY <1>2, <1>6, <2>2, <2>3 DEF CommentAt
<1>7. BlockComment(text, i) = {}
  BY <1>6 DEF BlockComment
<1>8. ASSUME NEW m \in i + 2 .. Len(W), At(W, i, <<"/", "*">>), At(W, m, <<"*", "/">>)
      PROVE  FALSE
  <2>1. At(text, i, <<"/", "*">>)
    <3>1. "*" \notin {"/", " "}
      OBVIOUS
    <3> QED BY <1>1, <1>8, <3>1, SameTwo
  <2>m. m \in i + 2 .. Len(text) /\ m \in Nat
    <3>1. m \in i + 2 .. Len(text)
      BY <1>1
    <3> QED BY <1>2, <3>1
  <2>2. m \in Nat /\ m + 1 <= Len(text) /\ W[m] = "*" /\ W[m + 1] = "/"
    BY <1>1, <1>8, <2>m, AtTwo
  <2>3. m \in 1 .. Len(text) /\ m + 1 \in 1 .. Len(text) /\ m \in i + 2 .. Len(text)
    BY <1>2, <2>m, <2>2
  <2>4. text[m] = "*" /\ text[m + 1] = "/"
    BY <1>1, <2>2, <2>3
  <2>5. At(text, m, <<"*", "/">>)
    BY <2>2, <2>4, AtTwo
  <2> QED BY <1>6, <2>1, <2>3, <2>5
<1>9. BlockComment(W, i) = {}
  BY <1>8 DEF BlockComment
<1> QED BY <1>5, <1>7, <1>9

\* Every rule matches the same in the two texts, and no further than d.
LEMMA SameEnds ==
  ASSUME text \in Seq(STRING), NEW a, CComments = a[1],
         NEW i \in 1 .. Len(text), text[i] \notin Space, NEW d, Alike(i, d), ~CommentAt(i)
  PROVE  /\ Ends(text, i) = Ends(WithoutComments, i)
         /\ \A e \in EndsAny(text, i) : e <= d
<1> DEFINE W == WithoutComments
<1>1. Len(W) = Len(text) /\ Len(text) \in Nat /\ d \in i .. Len(text) + 1
  <2>1. Len(W) = Len(text)
    BY BlanksForComments
  <2>2. d \in i + 1 .. Len(text) + 1 /\ Len(text) \in Nat
    BY AlikeFacts
  <2> QED BY <2>1, <2>2
<1>2. \A k \in i .. d - 1 : text[k] = W[k]
  BY DEF Alike
<1>3. d <= Len(text) => text[d] = "/" /\ W[d] = " "
  BY DEF Alike
<1>4. ASSUME NEW first, NEW others, {"/", " "} \cap (first \cup others) = {}
      PROVE  /\ Class(text, i, first, others) = Class(W, i, first, others)
             /\ \A e \in Class(text, i, first, others) : e <= d
  <2>1. d <= Len(text) => {text[d], W[d]} \cap (first \cup others) = {}
    BY <1>3, <1>4
  <2> HIDE DEF W
  <2> QED BY <1>1, <1>2, <2>1, SameClass
<1>5. Class(text, i, Space, Space) = {} /\ Class(W, i, Space, Space) = {}
  <2>1. text[i] = W[i]
    BY AlikeFacts
  <2> QED BY <2>1, ClassIs
<1>6. /\ {"/", " "} \cap (Letters \cup (Letters \cup DigitsOf(10))) = {}
      /\ {"/", " "} \cap ((DigitsOf(10) \ {"0"}) \cup DigitsOf(10)) = {}
      /\ {"/", " "} \cap ({"0"} \cup DigitsOf(8)) = {}
  BY NotInNames DEF Space
<1>7. LineComment(text, i) = {} /\ LineComment(W, i) = {}
      /\ BlockComment(text, i) = {} /\ BlockComment(W, i) = {}
  BY NoComment
<1>8. HexLiteral(text, i) = HexLiteral(W, i) /\ \A e \in HexLiteral(text, i) : e <= d
  BY <1>1, SameHex
<1>9. LiteralEnds(text, i) = LiteralEnds(W, i) /\ \A e \in LiteralEnds(text, i) : e <= d
  BY <1>1, SameLiterals
<1>10. /\ Class(text, i, Letters, Letters \cup DigitsOf(10)) = Class(W, i, Letters, Letters \cup DigitsOf(10))
       /\ \A e \in Class(text, i, Letters, Letters \cup DigitsOf(10)) : e <= d
  BY <1>4, <1>6
<1>11. /\ Class(text, i, DigitsOf(10) \ {"0"}, DigitsOf(10)) = Class(W, i, DigitsOf(10) \ {"0"}, DigitsOf(10))
       /\ \A e \in Class(text, i, DigitsOf(10) \ {"0"}, DigitsOf(10)) : e <= d
  BY <1>4, <1>6
<1>12. /\ Class(text, i, {"0"}, DigitsOf(8)) = Class(W, i, {"0"}, DigitsOf(8))
       /\ \A e \in Class(text, i, {"0"}, DigitsOf(8)) : e <= d
  BY <1>4, <1>6
<1> HIDE DEF W
<1>13. Ends(text, i) = Ends(W, i)
  BY <1>5, <1>7, <1>8, <1>9, <1>10, <1>11, <1>12 DEF Ends, LiteralEnds
<1>14. ASSUME NEW e \in EndsAny(text, i) PROVE e <= d
  <2>1. PICK r \in Rules : e \in Ends(text, i)[r]
    BY RulesAre
  <2>2. CASE r \in {"space", "line", "block"}
    BY <1>5, <1>7, <2>1, <2>2, EndsFields
  <2>3. CASE r \in {"ident", "decimal", "octal"}
    BY <1>10, <1>11, <1>12, <2>1, <2>3, EndsFields
  <2>4. CASE r \in {"hex", "literal"}
    BY <1>8, <1>9, <2>1, <2>4, EndsFields
  <2> QED BY <2>2, <2>3, <2>4 DEF Rules
<1> QED BY <1>13, <1>14 DEF W

-----------------------------------------------------------------------------
(* The lexer and the comments.                                             *)

LEMMA WiderSeq ==
  ASSUME NEW S, NEW T, S \subseteq T, NEW t \in Seq(S)
  PROVE  t \in Seq(T)
<1>1. Len(t) \in Nat /\ t \in [1 .. Len(t) -> S]
  BY LenProperties
<1> DEFINE n == Len(t)
<1>2. n \in Nat /\ t \in [1 .. n -> T]
  BY <1>1
<1> HIDE DEF n
<1> QED BY <1>2

LEMMA SameLexeme ==
  ASSUME NEW S, NEW t \in Seq(S), NEW u \in Seq(S), NEW i \in Nat, NEW e \in Nat, i >= 1, e > i,
         e <= Len(t) + 1, Len(u) = Len(t), \A k \in i .. e - 1 : t[k] = u[k]
  PROVE  SubSeq(t, i, e - 1) = SubSeq(u, i, e - 1)
<1> DEFINE v == SubSeq(t, i, e - 1)
           w == SubSeq(u, i, e - 1)
           n == e - 1 - i + 1
<1>1. /\ i \in Int /\ e - 1 \in Int /\ i <= e - 1 /\ n \in Nat
      /\ \A k \in i .. e - 1 : k \in 1 .. Len(t) /\ k \in 1 .. Len(u)
  OBVIOUS
<1>2. (\A k \in i .. e - 1 : t[k] \in S) /\ (\A k \in i .. e - 1 : u[k] \in S)
  BY <1>1
<1>3. v \in Seq(S) /\ Len(v) = n /\ \A k \in 1 .. n : v[k] = t[i + k - 1]
  BY <1>1, <1>2, SubSeqProperties
<1>4. w \in Seq(S) /\ Len(w) = n /\ \A k \in 1 .. n : w[k] = u[i + k - 1]
  BY <1>1, <1>2, SubSeqProperties
<1>5. \A k \in 1 .. n : i + k - 1 \in i .. e - 1
  BY <1>1
<1>6. \A k \in 1 .. n : v[k] = w[k]
  BY <1>3, <1>4, <1>5
<1> HIDE DEF v, w, n
<1>7. v = w
  BY <1>3, <1>4, <1>6
<1> QED BY <1>7 DEF v, w

\* From a place outside the comments, what is left of the two texts reads the
\* same if it does from each later such place.
LEMMA CommentRead ==
  ASSUME text \in Seq(STRING), OneLiners, NEW a, Comments(a, 1), CComments = a[1],
         NEW b, Lexes(b, text, 1), NEW c, Lexes(c, WithoutComments, 1),
         NEW i \in 1 .. Len(text), Outside(a, i), CommentAt(i)
  PROVE  b[i] = b[CommentEnd(i) + 1] /\ c[i] = c[CommentEnd(i) + 1]
<1> DEFINE W == WithoutComments
           e == CommentEnd(i)
<1>1. e \in i + 1 .. Len(text) /\ Len(text) \in Nat /\ Len(W) = Len(text)
  BY CommentFacts, BlanksForComments
<1>2. \A k \in i .. e : k \in UNION a[1]
  BY OutsideComment
<1>3. ASSUME NEW k \in i .. e PROVE k \in 1 .. Len(text) /\ text[k] \notin NewLine /\ W[k] = " "
  <2>1. k \in 1 .. Len(text)
    BY <1>1
  <2>2. PICK comment \in CComments : k \in comment
    BY <1>2
  <2>3. text[k] \notin NewLine
    BY <2>2 DEF OneLiners
  <2>4. W[k] = " "
    BY <1>2, <2>1, BlanksForComments
  <2> QED BY <2>1, <2>3, <2>4
<1>4. b[i] = b[e + 1]
  <2>1. CASE At(text, i, <<"/", "/">>) /\ RunWithout(text, i, NewLine, e + 1)
    BY <1>1, <2>1, LineStep
  <2>2. CASE /\ At(text, i, <<"/", "*">>) /\ e \in BlockEnds /\ e >= i + 3
             /\ \A k \in BlockEnds : k >= i + 3 => e <= k
    <3>1. \A k \in i .. e : text[k] \notin NewLine
      BY <1>3
    <3>2. e + 1 \in Nat /\ e + 1 > i + 1
      BY <1>1
    <3> HIDE DEF e
    <3>3. BlockComment(text, i) = {e + 1}
      BY <2>2, <3>1, OneBlockEnd
    <3> QED BY <3>2, <3>3, BlockStep
  <2> QED BY <2>1, <2>2, CommentFacts
<1>5. c[i] = c[e + 1]
  <2> HIDE DEF e, W
  <2>1. i \in 1 .. Len(W) + 1 /\ e + 1 \in i .. Len(W) + 1 /\ Len(W) \in Nat
    BY <1>1
  <2>2. \A k \in i .. (e + 1) - 1 : W[k] \in Space
    <3>1. (e + 1) - 1 = e
      BY <1>1
    <3> QED BY <1>3, <3>1 DEF Space
  <2>3. Lexes(c, W, 1)
    BY DEF W
  <2> QED BY <2>1, <2>2, <2>3, SpaceSteps
<1> QED BY <1>4, <1>5

LEMMA SpaceRead ==
  ASSUME text \in Seq(STRING), NEW a, Comments(a, 1), CComments = a[1],
         NEW b, Lexes(b, text, 1), NEW c, Lexes(c, WithoutComments, 1),
         NEW i \in 1 .. Len(text), Outside(a, i), ~CommentAt(i), text[i] \in Space
  PROVE  b[i] = b[i + 1] /\ c[i] = c[i + 1]
<1> DEFINE W == WithoutComments
<1>1. Len(text) \in Nat /\ Len(W) = Len(text)
  BY BlanksForComments
<1>2. i \notin UNION a[1]
  BY OutsidePlain
<1>3. W[i] \in Space
  BY <1>2, BlanksForComments
<1>4. b[i] = b[i + 1]
  BY <1>1, SpaceStep
<1>5. c[i] = c[i + 1]
  BY <1>1, <1>3, SpaceStep
<1> QED BY <1>4, <1>5

LEMMA TokenRead ==
  ASSUME text \in Seq(STRING), NEW a, Comments(a, 1), CComments = a[1],
         NEW b, Lexes(b, text, 1), NEW c, Lexes(c, WithoutComments, 1),
         NEW i \in 1 .. Len(text), Outside(a, i), ~CommentAt(i), text[i] \notin Space,
         \A j \in i + 1 .. Len(text) + 1 : Outside(a, j) => b[j] = c[j]
  PROVE  b[i] = c[i]
<1> DEFINE W == WithoutComments
<1>1. Len(text) \in Nat /\ W \in Seq(STRING \cup {" "}) /\ Len(W) = Len(text)
  BY BlanksForComments
<1>2. PICK d : Alike(i, d) /\ \A k \in i .. d : Outside(a, k)
  BY AlikeUpTo
<1>3. Ends(text, i) = Ends(W, i) /\ \A e \in EndsAny(text, i) : e <= d
  BY <1>2, SameEnds
<1>4. EndsAny(text, i) = EndsAny(W, i) /\ Longest(text, i) = Longest(W, i)
      /\ RuleAt(text, i) = RuleAt(W, i)
  BY <1>3 DEF EndsAny, Longest, RuleAt
<1>5. b[i] = LexFrom(text, i, b) /\ c[i] = LexFrom(W, i, c)
  <2>1. i \in 1 .. Len(text) + 1
    OBVIOUS
  <2>2. i \in 1 .. Len(W) + 1
    BY <1>1, <2>1
  <2> HIDE DEF W
  <2>3. Lexes(c, W, 1)
    BY DEF W
  <2> QED BY <2>1, <2>2, <2>3 DEF Lexes
<1>6. ~(i > Len(text)) /\ ~(i > Len(W))
  <2>1. ~(i > Len(text))
    OBVIOUS
  <2> QED BY <1>1, <2>1
<1>7. CASE EndsAny(text, i) = {}
  BY <1>4, <1>5, <1>6, <1>7 DEF LexFrom
<1>8. CASE EndsAny(text, i) # {}
  <2> DEFINE e == Longest(text, i)
  <2>1. e \in i + 1 .. Len(text) + 1 /\ e <= d
    BY <1>1, <1>3, <1>8, LongestFacts
  <2>2. d \in Nat
    BY <1>2, AlikeFacts
  <2> HIDE DEF e
  <2>3. e \in i .. d /\ \A k \in i .. e - 1 : k \in i .. d - 1
    BY <2>1, <2>2
  <2>4. b[e] = c[e]
    BY <1>2, <2>1, <2>3
  <2>5. \A k \in i .. e - 1 : text[k] = W[k]
    BY <1>2, <2>3 DEF Alike
  <2>6. SubSeq(text, i, e - 1) = SubSeq(W, i, e - 1)
    <3> DEFINE Chars == STRING \cup {" "}
    <3>1. text \in Seq(Chars) /\ W \in Seq(Chars)
      <4>1. STRING \subseteq Chars /\ W \in Seq(Chars)
        BY <1>1
      <4> HIDE DEF Chars
      <4>2. text \in Seq(Chars)
        BY <4>1, WiderSeq
      <4> QED BY <4>1, <4>2
    <3>2. i \in Nat /\ e \in Nat /\ i >= 1 /\ e > i /\ e <= Len(text) + 1
      <4>1. i \in Nat /\ i >= 1 /\ Len(text) \in Nat
        OBVIOUS
      <4>2. e \in Nat /\ e > i /\ e <= Len(text) + 1
        BY <2>1, <4>1
      <4> QED BY <4>1, <4>2
    <3> HIDE DEF Chars, W
    <3> QED BY <1>1, <2>5, <3>1, <3>2, SameLexeme
  <2> HIDE DEF W
  <2>7. LexFrom(text, i, b) =
          IF RuleAt(text, i) \in Skipped THEN b[e]
          ELSE <<TokenOf(RuleAt(text, i), SubSeq(text, i, e - 1))>> \o b[e]
    BY <1>6, <1>8 DEF LexFrom, e
  <2>8. LexFrom(W, i, c) =
          IF RuleAt(text, i) \in Skipped THEN c[e]
          ELSE <<TokenOf(RuleAt(text, i), SubSeq(W, i, e - 1))>> \o c[e]
    BY <1>4, <1>6, <1>8 DEF LexFrom, e
  <2> QED BY <1>5, <2>4, <2>6, <2>7, <2>8
<1> QED BY <1>7, <1>8

\* Backwards over the places outside the comments, the tokens are the same.
LEMMA CommentsAreSkipped ==
  ASSUME text \in Seq(STRING), OneLiners
  PROVE  Lex(text) = Lex(WithoutComments)
<1> DEFINE N == Len(text)
           W == WithoutComments
<1>1. PICK a : Comments(a, 1) /\ CComments = a[1]
  BY CommentsAre
<1>2. N \in Nat /\ Len(W) = N
  BY <1>1, BlanksForComments
<1>3. PICK b : Lexes(b, text, 1) /\ Lex(text) = b[1]
  BY <1>2, LexIs
<1>4. PICK c : Lexes(c, W, 1) /\ Lex(W) = c[1]
  BY <1>2, LexIs
<1> DEFINE S == {i \in 1 .. N + 1 : Outside(a, i) => b[i] = c[i]}
<1>5. ASSUME NEW i \in 1 .. N + 1, \A j \in i + 1 .. N + 1 : j \in S
      PROVE  i \in S
  <2> SUFFICES ASSUME Outside(a, i) PROVE b[i] = c[i]
    OBVIOUS
  <2>1. CASE i = N + 1
    <3>1. b[i] = LexFrom(text, i, b) /\ c[i] = LexFrom(W, i, c)
      BY <1>2, <1>3, <1>4 DEF Lexes
    <3>2. i > Len(text) /\ i > Len(W)
      BY <1>2, <2>1
    <3> QED BY <3>1, <3>2 DEF LexFrom
  <2>2. CASE i # N + 1 /\ CommentAt(i)
    <3>1. i \in 1 .. N
      BY <1>2, <2>2
    <3>2. Outside(a, CommentEnd(i) + 1) /\ CommentEnd(i) \in i + 1 .. N
      BY <1>1, <2>2, <3>1, OutsideComment, CommentFacts
    <3>3. CommentEnd(i) + 1 \in i + 1 .. N + 1
      BY <1>2, <3>2
    <3>4. b[CommentEnd(i) + 1] = c[CommentEnd(i) + 1]
      BY <1>5, <3>2, <3>3
    <3>5. b[i] = b[CommentEnd(i) + 1] /\ c[i] = c[CommentEnd(i) + 1]
      BY <1>1, <1>3, <1>4, <2>2, <3>1, CommentRead
    <3> QED BY <3>4, <3>5
  <2>3. CASE i # N + 1 /\ ~CommentAt(i) /\ text[i] \in Space
    <3>1. i \in 1 .. N /\ i + 1 \in i + 1 .. N + 1
      BY <1>2, <2>3
    <3>2. Outside(a, i + 1)
      BY <1>1, <2>3, <3>1, OutsidePlain
    <3>3. b[i + 1] = c[i + 1]
      BY <1>5, <3>1, <3>2
    <3>4. b[i] = b[i + 1] /\ c[i] = c[i + 1]
      BY <1>1, <1>3, <1>4, <2>3, <3>1, SpaceRead
    <3> QED BY <3>3, <3>4
  <2>4. CASE i # N + 1 /\ ~CommentAt(i) /\ text[i] \notin Space
    <3>1. i \in 1 .. N
      BY <1>2, <2>4
    <3>2. \A j \in i + 1 .. N + 1 : Outside(a, j) => b[j] = c[j]
      BY <1>5
    <3> QED BY <1>1, <1>3, <1>4, <2>4, <3>1, <3>2, TokenRead
  <2> QED BY <2>1, <2>2, <2>3, <2>4
<1>6. \A i \in 1 .. N + 1 : i \in S
  <2> HIDE DEF S, N
  <2> QED BY <1>2, <1>5, Backwards
<1>7. Outside(a, 1)
  BY <1>2 DEF Outside
<1>8. b[1] = c[1]
  <2>1. 1 \in 1 .. N + 1
    BY <1>2
  <2> QED BY <1>6, <1>7, <2>1
<1> QED BY <1>3, <1>4, <1>8

TextType == text \in Seq(STRING) /\ sample \in Seq(SUBSET Seq(STRING))

\* The sample's pieces are texts, and so is what is typed of them.
THEOREM TextIsAText == SyntaxSpec => []TextType
<1>1. SyntaxInit => TextType
  BY SamplesAssumption DEF SyntaxInit, TextType
<1>2. TextType /\ [Type]_syntaxvars => TextType'
  <2> SUFFICES ASSUME TextType, [Type]_syntaxvars PROVE TextType'
    OBVIOUS
  <2>1. CASE Type
    <3>1. sample # <<>> /\ sample \in Seq(SUBSET Seq(STRING))
      BY <2>1 DEF Type, TextType
    <3>2. PICK piece \in Head(sample) : text' = text \o piece
      BY <2>1 DEF Type
    <3> DEFINE Pieces == SUBSET Seq(STRING)
    <3>3. Head(sample) \in Pieces /\ Tail(sample) \in Seq(Pieces)
      <4> HIDE DEF Pieces
      <4>1. sample \in Seq(Pieces)
        BY <3>1 DEF Pieces
      <4> QED BY <3>1, <4>1
    <3>4. piece \in Seq(STRING)
      BY <3>2, <3>3
    <3>5. text' \in Seq(STRING)
      BY <3>2, <3>4 DEF TextType
    <3>6. sample' \in Seq(SUBSET Seq(STRING))
      BY <2>1, <3>3 DEF Type
    <3> QED BY <3>5, <3>6 DEF TextType
  <2>2. CASE UNCHANGED syntaxvars
    BY <2>2 DEF TextType, syntaxvars
  <2> QED BY <2>1, <2>2
<1> QED BY <1>1, <1>2, PTL DEF SyntaxSpec

\* The lexer skips the comments of C and nothing else (sysy.lalrpop:9-14), in
\* every text of any length that OneLiners describes.
THEOREM CommentsAsInC == SyntaxSpec => []CommentsOnOneLine
<1>1. TextType => CommentsOnOneLine
  BY CommentsAreSkipped DEF TextType, CommentsOnOneLine
<1> QED BY <1>1, TextIsAText, PTL

-----------------------------------------------------------------------------
(* Literals.                                                               *)

Bases == {8, 10, 16}

LEMMA DigitsAre ==
  /\ \A j, k \in 1 .. 16 : Digits[j] = Digits[k] => j = k
  /\ DOMAIN Digits = 1 .. 16
  /\ \A k \in 1 .. 16 : Digits[k] = "0" <=> k = 1
  /\ \A k \in 1 .. 16 : Digits[k] \notin HexMark
<1>d. /\ Digits[1] = "0" /\ Digits[2] = "1" /\ Digits[3] = "2" /\ Digits[4] = "3"
      /\ Digits[5] = "4" /\ Digits[6] = "5" /\ Digits[7] = "6" /\ Digits[8] = "7"
      /\ Digits[9] = "8" /\ Digits[10] = "9" /\ Digits[11] = "a" /\ Digits[12] = "b"
      /\ Digits[13] = "c" /\ Digits[14] = "d" /\ Digits[15] = "e" /\ Digits[16] = "f"
  BY DEF Digits
<1>1. DOMAIN Digits = 1 .. 16
  BY DEF Digits
<1>2. \A k \in 1 .. 16 : k \in {1, 2, 3, 4, 5, 6, 7, 8, 9, 10, 11, 12, 13, 14, 15, 16}
  OBVIOUS
<1>3. \A k \in 1 .. 16 : Digits[k] = "0" <=> k = 1
  BY <1>d, <1>2
<1>4. \A k \in 1 .. 16 : Digits[k] \notin HexMark
  BY <1>d, <1>2 DEF HexMark
<1>5. ASSUME NEW j \in 1 .. 16, NEW k \in 1 .. 16, Digits[j] = Digits[k] PROVE j = k
  <2>1. k \in {1, 2, 3, 4, 5, 6, 7, 8} \/ k \in {9, 10, 11, 12, 13, 14, 15, 16}
    OBVIOUS
  <2>2. j \in {1, 2, 3, 4, 5, 6, 7, 8} \/ j \in {9, 10, 11, 12, 13, 14, 15, 16}
    OBVIOUS
  <2>3. CASE k \in {1, 2, 3, 4, 5, 6, 7, 8}
    BY <1>d, <1>5, <2>2, <2>3
  <2>4. CASE k \in {9, 10, 11, 12, 13, 14, 15, 16}
    BY <1>d, <1>5, <2>2, <2>4
  <2> QED BY <2>1, <2>3, <2>4
<1> QED BY <1>1, <1>3, <1>4, <1>5

\* The value of a digit of the base.
LEMMA DigitValueIs ==
  ASSUME NEW base \in Bases, NEW c \in DigitsOf(base)
  PROVE  DigitValue(c) \in 0 .. base - 1 /\ c = Digits[DigitValue(c) + 1]
<1>1. PICK k \in 1 .. base : c = Digits[k]
  BY DEF DigitsOf
<1>2. k \in 1 .. 16
  BY DEF Bases
<1> DEFINE ks == CHOOSE j \in DOMAIN Digits : Digits[j] = c
<1>3. ks \in DOMAIN Digits /\ Digits[ks] = c
  BY <1>1, <1>2, DigitsAre
<1>4. ks = k
  <2> HIDE DEF ks
  <2> QED BY <1>1, <1>2, <1>3, DigitsAre
<1>5. DigitValue(c) = k - 1
  BY <1>4 DEF DigitValue
<1> QED BY <1>1, <1>5 DEF Bases

LEMMA DivModIs ==
  ASSUME NEW base \in Bases, NEW m \in Nat
  PROVE  /\ m \div base \in Nat /\ m % base \in 0 .. base - 1
         /\ m = (m \div base) * base + (m % base)
         /\ m > 0 => m \div base < m
<1>1. CASE base = 8
  BY <1>1
<1>2. CASE base = 10
  BY <1>2
<1>3. CASE base = 16
  BY <1>3
<1> QED BY <1>1, <1>2, <1>3 DEF Bases

LEMMA DivModOf ==
  ASSUME NEW base \in Bases, NEW m \in Nat, NEW q \in Nat, NEW c \in 0 .. base - 1
  PROVE  m = q * base + c <=> q = m \div base /\ c = m % base
<1>1. CASE base = 8
  BY <1>1
<1>2. CASE base = 10
  BY <1>2
<1>3. CASE base = 16
  BY <1>3
<1> QED BY <1>1, <1>2, <1>3 DEF Bases

\* The value of the first k digits, and the digits of the numbers up to n.
Values(v, s, base) ==
  v = [k \in 0 .. Len(s) |-> IF k = 0 THEN 0 ELSE v[k - 1] * base + DigitValue(s[k])]
Numerals(d, n, base) ==
  d = [m \in 0 .. n |-> IF m = 0 THEN <<>> ELSE Append(d[m \div base], Digits[(m % base) + 1])]

LEMMA ValuesExist ==
  ASSUME NEW s, Len(s) \in Nat, NEW base \in Nat
  PROVE  \E v : Values(v, s, base)
<1> DEFINE N == Len(s)
           P(k, v) == v = [j \in 0 .. k |-> IF j = 0 THEN 0 ELSE v[j - 1] * base + DigitValue(s[j])]
           S == {k \in 0 .. N : \E v : P(k, v)}
<1>1. 0 \in S
  <2> DEFINE v == [j \in 0 .. 0 |-> 0]
  <2>1. P(0, v)
    OBVIOUS
  <2> HIDE DEF v
  <2>2. 0 \in 0 .. N
    OBVIOUS
  <2> QED BY <2>1, <2>2
<1>2. ASSUME NEW k \in 0 .. N - 1, k \in S PROVE k + 1 \in S
  <2>1. PICK v : P(k, v)
    BY <1>2
  <2> DEFINE w == [j \in 0 .. k + 1 |-> IF j = k + 1 THEN v[k] * base + DigitValue(s[k + 1]) ELSE v[j]]
  <2>2. ASSUME NEW j \in 0 .. k + 1
        PROVE  w[j] = IF j = 0 THEN 0 ELSE w[j - 1] * base + DigitValue(s[j])
    <3>1. CASE j = k + 1
      <4>1. j # 0 /\ j - 1 = k /\ k \in 0 .. k + 1 /\ k # k + 1
        BY <3>1
      <4>2. w[j - 1] = v[k]
        BY <4>1
      <4> QED BY <3>1, <4>1, <4>2
    <3>2. CASE j \in 1 .. k
      <4>1. j - 1 \in 0 .. k + 1 /\ j - 1 # k + 1 /\ j \in 0 .. k
        BY <3>2
      <4>2. w[j - 1] = v[j - 1] /\ w[j] = v[j]
        BY <3>2, <4>1
      <4>3. v[j] = v[j - 1] * base + DigitValue(s[j])
        BY <2>1, <3>2, <4>1
      <4> QED BY <3>2, <4>2, <4>3
    <3>3. CASE j = 0
      BY <2>1, <3>3
    <3> QED BY <3>1, <3>2, <3>3
  <2>3. w = [j \in 0 .. k + 1 |-> w[j]]
    OBVIOUS
  <2> HIDE DEF w
  <2>4. P(k + 1, w)
    BY <2>2, <2>3
  <2> QED BY <2>4
<1>3. \A k \in 0 .. N : k \in S
  <2> HIDE DEF S
  <2>1. N \in Nat
    OBVIOUS
  <2> HIDE DEF N
  <2> QED BY <1>1, <1>2, <2>1, Upwards
<1>4. N \in S
  <2>1. N \in 0 .. N
    OBVIOUS
  <2> HIDE DEF S, N
  <2> QED BY <1>3, <2>1
<1> QED BY <1>4 DEF Values

LEMMA NumeralsExist ==
  ASSUME NEW n \in Nat, NEW base \in Bases
  PROVE  \E d : Numerals(d, n, base)
<1> DEFINE Next(m, d) == IF m = 0 THEN <<>> ELSE Append(d[m \div base], Digits[(m % base) + 1])
           P(k, d) == d = [m \in 0 .. k |-> Next(m, d)]
           S == {k \in 0 .. n : \E d : P(k, d)}
<1>1. 0 \in S
  <2> DEFINE d == [m \in 0 .. 0 |-> <<>>]
  <2>1. P(0, d)
    OBVIOUS
  <2> HIDE DEF d
  <2>2. 0 \in 0 .. n
    OBVIOUS
  <2> QED BY <2>1, <2>2
<1>2. ASSUME NEW k \in 0 .. n - 1, k \in S PROVE k + 1 \in S
  <2>1. PICK d : P(k, d)
    BY <1>2
  <2> DEFINE e == [m \in 0 .. k + 1 |-> IF m = k + 1 THEN Next(k + 1, d) ELSE d[m]]
  <2>2. ASSUME NEW m \in 0 .. k + 1 PROVE e[m] = Next(m, e)
    <3>1. m > 0 => m \div base \in 0 .. k
      BY DivModIs
    <3>2. m > 0 => e[m \div base] = d[m \div base]
      BY <3>1
    <3>3. Next(m, e) = Next(m, d)
      <4> HIDE DEF e
      <4> QED BY <3>2
    <3>4. CASE m = k + 1
      BY <3>3, <3>4
    <3>5. CASE m # k + 1
      <4>1. m \in 0 .. k
        BY <3>5
      <4>2. d[m] = Next(m, d)
        BY <2>1, <4>1
      <4> QED BY <3>3, <3>5, <4>2
    <3> QED BY <3>4, <3>5
  <2>3. e = [m \in 0 .. k + 1 |-> e[m]]
    OBVIOUS
  <2> HIDE DEF e, Next
  <2>4. P(k + 1, e)
    BY <2>2, <2>3
  <2> QED BY <2>4
<1>3. \A k \in 0 .. n : k \in S
  <2> HIDE DEF S
  <2> QED BY <1>1, <1>2, Upwards
<1>4. n \in S
  <2>1. n \in 0 .. n
    OBVIOUS
  <2> HIDE DEF S
  <2> QED BY <1>3, <2>1
<1> QED BY <1>4 DEF Numerals

LEMMA NumeralsAre ==
  ASSUME NEW n \in Nat, NEW base \in Bases, NEW d, Numerals(d, n, base)
  PROVE  /\ d[0] = <<>>
         /\ \A m \in 1 .. n : /\ m \div base \in 0 .. n
                              /\ (m % base) + 1 \in 1 .. base
                              /\ d[m] = Append(d[m \div base], Digits[(m % base) + 1])
         /\ \A m \in 0 .. n : d[m] \in Seq(DigitsOf(base))
<1>1. \A m \in 0 .. n : d[m] = IF m = 0 THEN <<>> ELSE Append(d[m \div base], Digits[(m % base) + 1])
  BY DEF Numerals
<1>2. d[0] = <<>>
  <2>1. 0 \in 0 .. n
    OBVIOUS
  <2> QED BY <1>1, <2>1
<1>3. ASSUME NEW m \in 1 .. n
      PROVE  /\ m \div base \in 0 .. m - 1 /\ (m % base) + 1 \in 1 .. base
             /\ d[m] = Append(d[m \div base], Digits[(m % base) + 1])
  <2>1. m \in Nat /\ m > 0 /\ m \in 0 .. n /\ m # 0
    OBVIOUS
  <2>2. m \div base \in Nat /\ m \div base < m /\ m % base \in 0 .. base - 1
    BY <2>1, DivModIs
  <2>3. base \in Nat
    BY DEF Bases
  <2>4. m \div base \in 0 .. m - 1 /\ (m % base) + 1 \in 1 .. base
    BY <2>2, <2>3
  <2> QED BY <1>1, <2>1, <2>4
<1> DEFINE Seqs == Seq(DigitsOf(base))
           S == {k \in 0 .. n : \A m \in 0 .. k : d[m] \in Seqs}
<1>4. 0 \in S
  <2>1. \A m \in 0 .. 0 : m = 0
    OBVIOUS
  <2>2. <<>> \in Seqs
    OBVIOUS
  <2> HIDE DEF Seqs
  <2> QED BY <1>2, <2>1, <2>2
<1>5. ASSUME NEW k \in 0 .. n - 1, k \in S PROVE k + 1 \in S
  <2>1. k + 1 \in 1 .. n /\ k + 1 \in 0 .. n /\ (k + 1) - 1 = k
    OBVIOUS
  <2> DEFINE q == (k + 1) \div base
             c == ((k + 1) % base) + 1
  <2>2. q \in 0 .. k /\ c \in 1 .. base /\ d[k + 1] = Append(d[q], Digits[c])
    BY <1>3, <2>1
  <2> HIDE DEF q, c
  <2>3. d[q] \in Seqs
    BY <1>5, <2>2
  <2>4. Digits[c] \in DigitsOf(base)
    BY <2>2 DEF DigitsOf
  <2>5. d[k + 1] \in Seqs
    BY <2>2, <2>3, <2>4
  <2>6. \A m \in 0 .. k + 1 : m \in 0 .. k \/ m = k + 1
    OBVIOUS
  <2> HIDE DEF Seqs
  <2> QED BY <1>5, <2>1, <2>5, <2>6
<1>6. \A k \in 0 .. n : k \in S
  <2> HIDE DEF S
  <2> QED BY <1>4, <1>5, Upwards
<1>7. \A m \in 0 .. n : d[m] \in Seqs
  <2>1. n \in 0 .. n
    OBVIOUS
  <2>2. n \in S
    <3> HIDE DEF S
    <3> QED BY <1>6, <2>1
  <2> QED BY <2>2
<1>8. \A m \in 1 .. n : m \div base \in 0 .. n
  <2> SUFFICES ASSUME NEW m \in 1 .. n PROVE m \div base \in 0 .. n
    OBVIOUS
  <2> DEFINE q == m \div base
  <2>1. q \in 0 .. m - 1
    BY <1>3
  <2> HIDE DEF q
  <2>2. q \in 0 .. n
    BY <2>1
  <2> QED BY <2>2 DEF q
<1> QED BY <1>2, <1>3, <1>7, <1>8

\* Pads, of the first k digits.
PadsTo(s, k, d) ==
  /\ k >= Len(d)
  /\ \A j \in 1 .. k : s[j] = IF j <= k - Len(d) THEN "0" ELSE d[j - (k - Len(d))]

LEMMA PadsAppend ==
  ASSUME NEW s, NEW k \in Nat, NEW S, NEW d \in Seq(S), NEW c \in S
  PROVE  PadsTo(s, k + 1, Append(d, c)) <=> PadsTo(s, k, d) /\ s[k + 1] = c
<1> DEFINE e == Append(d, c)
<1>1. /\ e \in Seq(S) /\ Len(e) = Len(d) + 1 /\ Len(d) \in Nat
      /\ \A j \in 1 .. Len(d) : e[j] = d[j]
      /\ e[Len(d) + 1] = c
  BY AppendProperties, LenProperties
<1> HIDE DEF e
<1> DEFINE p == k - Len(d)
<1>2. (k + 1) - Len(e) = p /\ p \in Int
  BY <1>1
<1>3. k + 1 >= Len(e) <=> k >= Len(d)
  BY <1>1
<1> SUFFICES ASSUME k >= Len(d)
             PROVE  PadsTo(s, k + 1, e) <=> PadsTo(s, k, d) /\ s[k + 1] = c
  BY <1>3 DEF PadsTo, e
<1>4. p \in 0 .. k /\ ~(k + 1 <= p) /\ (k + 1) - p = Len(d) + 1
  BY <1>1
<1>5. ASSUME NEW j \in 1 .. k, ~(j <= p) PROVE e[j - p] = d[j - p]
  <2>1. j - p \in 1 .. Len(d)
    BY <1>1, <1>5
  <2> QED BY <1>1, <2>1
<1>6. e[(k + 1) - p] = c
  BY <1>1, <1>4
<1>7. PadsTo(s, k, d) <=> \A j \in 1 .. k : s[j] = IF j <= p THEN "0" ELSE d[j - p]
  BY DEF PadsTo
<1>8. PadsTo(s, k + 1, e) <=> \A j \in 1 .. k + 1 : s[j] = IF j <= p THEN "0" ELSE e[j - p]
  BY <1>2, <1>3 DEF PadsTo
<1> HIDE DEF p
<1>9. \A j \in 1 .. k + 1 : j \in 1 .. k \/ j = k + 1
  OBVIOUS
<1>10. k + 1 \in 1 .. k + 1 /\ \A j \in 1 .. k : j \in 1 .. k + 1
  OBVIOUS
<1>11. (\A j \in 1 .. k + 1 : s[j] = IF j <= p THEN "0" ELSE e[j - p])
       <=> (\A j \in 1 .. k : s[j] = IF j <= p THEN "0" ELSE d[j - p]) /\ s[k + 1] = c
  BY <1>4, <1>5, <1>6, <1>9, <1>10
<1> QED BY <1>7, <1>8, <1>11

LEMMA PadsNothing ==
  ASSUME NEW s, NEW k \in Nat
  PROVE  /\ PadsTo(s, k, <<>>) <=> \A j \in 1 .. k : s[j] = "0"
         /\ PadsTo(s, k + 1, <<>>) <=> PadsTo(s, k, <<>>) /\ s[k + 1] = "0"
<1>1. Len(<<>>) = 0
  OBVIOUS
<1>2. ASSUME NEW m \in Nat PROVE PadsTo(s, m, <<>>) <=> \A j \in 1 .. m : s[j] = "0"
  <2>1. m >= 0 /\ m - 0 = m /\ \A j \in 1 .. m : j <= m
    OBVIOUS
  <2> QED BY <1>1, <2>1 DEF PadsTo
<1>3. k + 1 \in Nat /\ k + 1 \in 1 .. k + 1 /\ (\A j \in 1 .. k : j \in 1 .. k + 1)
      /\ \A j \in 1 .. k + 1 : j \in 1 .. k \/ j = k + 1
  OBVIOUS
<1> QED BY <1>2, <1>3

\* Digits have the value m exactly if they are zeros and the numeral of m.
LEMMA ValueIsNumeral ==
  ASSUME NEW base \in Bases, NEW s, Len(s) \in Nat,
         \A k \in 1 .. Len(s) : s[k] \in DigitsOf(base),
         NEW v, Values(v, s, base), NEW n \in Nat, NEW d, Numerals(d, n, base)
  PROVE  \A k \in 0 .. Len(s) : v[k] \in Nat /\ \A m \in 0 .. n : v[k] = m <=> PadsTo(s, k, d[m])
<1> DEFINE N == Len(s)
           S == {k \in 0 .. N : v[k] \in Nat /\ \A m \in 0 .. n : v[k] = m <=> PadsTo(s, k, d[m])}
<1>1. \A k \in 0 .. N : v[k] = IF k = 0 THEN 0 ELSE v[k - 1] * base + DigitValue(s[k])
  BY DEF Values
<1>2. /\ d[0] = <<>>
      /\ \A m \in 1 .. n : /\ m \div base \in 0 .. n
                           /\ (m % base) + 1 \in 1 .. base
                           /\ d[m] = Append(d[m \div base], Digits[(m % base) + 1])
      /\ \A m \in 0 .. n : d[m] \in Seq(DigitsOf(base))
  BY NumeralsAre
<1>3. 0 \in S
  <2>1. 0 \in 0 .. N /\ v[0] = 0
    BY <1>1
  <2>2. ASSUME NEW m \in 0 .. n PROVE 0 = m <=> PadsTo(s, 0, d[m])
    <3>1. CASE m = 0
      BY <1>2, <3>1, PadsNothing
    <3>2. CASE m # 0
      <4>1. m \in 1 .. n
        BY <3>2
      <4> DEFINE q == m \div base
                 c == Digits[(m % base) + 1]
      <4>2. d[m] = Append(d[q], c) /\ d[q] \in Seq(DigitsOf(base))
        BY <1>2, <4>1
      <4> HIDE DEF q, c
      <4>3. Len(d[m]) = Len(d[q]) + 1 /\ Len(d[q]) \in Nat
        BY <4>2
      <4>4. ~(0 >= Len(d[m]))
        BY <4>3
      <4> QED BY <3>2, <4>4 DEF PadsTo
    <3> QED BY <3>1, <3>2
  <2> QED BY <2>1, <2>2
<1>4. ASSUME NEW k \in 0 .. N - 1, k \in S PROVE k + 1 \in S
  <2> DEFINE c == DigitValue(s[k + 1])
  <2>1. k + 1 \in 0 .. N /\ k + 1 \in 1 .. N /\ k + 1 # 0 /\ (k + 1) - 1 = k /\ k \in Nat /\ base \in Nat
    BY DEF Bases
  <2>2. c \in 0 .. base - 1 /\ s[k + 1] = Digits[c + 1]
    BY <2>1, DigitValueIs
  <2>3. v[k + 1] = v[k] * base + c /\ v[k] \in Nat
    BY <1>1, <1>4, <2>1
  <2>4. v[k + 1] \in Nat
    BY <2>1, <2>2, <2>3
  <2>5. c + 1 \in 1 .. 16 /\ base \in 1 .. 16
    <3>1. base \in 1 .. 16
      BY DEF Bases
    <3>2. \A x \in 0 .. base - 1 : x + 1 \in 1 .. 16
      BY <3>1
    <3> QED BY <2>2, <3>1, <3>2
  <2>i. \A m \in 0 .. n : v[k] = m <=> PadsTo(s, k, d[m])
    BY <1>4
  <2> HIDE DEF c
  <2>6. ASSUME NEW m \in 0 .. n PROVE v[k + 1] = m <=> PadsTo(s, k + 1, d[m])
    <3>1. m \in Nat
      OBVIOUS
    <3> DEFINE q == m \div base
               r == m % base
    <3>2. v[k + 1] = m <=> v[k] = q /\ c = r
      BY <2>2, <2>3, <3>1, DivModOf
    <3>3. CASE m = 0
      <4>1. q = 0 /\ r = 0
        BY <3>3 DEF Bases
      <4>2. v[k] = 0 <=> PadsTo(s, k, <<>>)
        BY <1>2, <2>i, <3>3
      <4>3. c = 0 <=> s[k + 1] = "0"
        <5>1. c = 0 <=> c + 1 = 1
          BY <2>2
        <5> QED BY <2>2, <2>5, <5>1, DigitsAre
      <4>4. PadsTo(s, k + 1, <<>>) <=> PadsTo(s, k, <<>>) /\ s[k + 1] = "0"
        BY <2>1, PadsNothing
      <4> QED BY <1>2, <3>2, <3>3, <4>1, <4>2, <4>3, <4>4
    <3>4. CASE m # 0
      <4>1. m \in 1 .. n
        BY <3>4
      <4>2. q \in 0 .. n /\ r + 1 \in 1 .. base /\ d[m] = Append(d[q], Digits[r + 1])
            /\ d[q] \in Seq(DigitsOf(base))
        BY <1>2, <4>1
      <4>r. r \in Int
        BY <3>1, DivModIs
      <4> HIDE DEF q, r
      <4>3. v[k] = q <=> PadsTo(s, k, d[q])
        BY <2>i, <4>2
      <4>4. c = r <=> s[k + 1] = Digits[r + 1]
        <5>1. r + 1 \in 1 .. 16 /\ (c = r <=> c + 1 = r + 1)
          <6>1. \A x \in 1 .. base : x \in 1 .. 16
            BY <2>5
          <6>2. c \in Int
            BY <2>2
          <6>3. c = r <=> c + 1 = r + 1
            BY <4>r, <6>2
          <6> QED BY <4>2, <6>1, <6>3
        <5> QED BY <2>2, <2>5, <5>1, DigitsAre
      <4>5. Digits[r + 1] \in DigitsOf(base)
        BY <4>2 DEF DigitsOf
      <4>6. PadsTo(s, k + 1, Append(d[q], Digits[r + 1])) <=> PadsTo(s, k, d[q]) /\ s[k + 1] = Digits[r + 1]
        <5> DEFINE T == DigitsOf(base)
                   x == Digits[r + 1]
                   y == d[q]
        <5>1. x \in T /\ y \in Seq(T) /\ k \in Nat
          BY <2>1, <4>2, <4>5
        <5> HIDE DEF T, x, y
        <5>2. PadsTo(s, k + 1, Append(y, x)) <=> PadsTo(s, k, y) /\ s[k + 1] = x
          BY <5>1, PadsAppend
        <5> QED BY <5>2 DEF x, y
      <4> QED BY <3>2, <4>2, <4>3, <4>4, <4>6
    <3> QED BY <3>3, <3>4
  <2> QED BY <2>1, <2>4, <2>6
<1>5. \A k \in 0 .. N : k \in S
  <2> HIDE DEF S
  <2>1. N \in Nat
    OBVIOUS
  <2> HIDE DEF N
  <2> QED BY <1>3, <1>4, <2>1, Upwards
<1> QED BY <1>5

LEMMA NumeralIs ==
  ASSUME NEW n \in Nat, NEW base \in Bases
  PROVE  \E d : Numerals(d, n, base) /\ Numeral(n, base) = d[n]
<1> DEFINE digits == CHOOSE d : d = [m \in 0 .. n |->
                        IF m = 0 THEN <<>> ELSE Append(d[m \div base], Digits[(m % base) + 1])]
<1>1. Numeral(n, base) = digits[n]
  BY DEF Numeral
<1>2. \E d : d = [m \in 0 .. n |->
                    IF m = 0 THEN <<>> ELSE Append(d[m \div base], Digits[(m % base) + 1])]
  BY NumeralsExist DEF Numerals
<1>3. digits = [m \in 0 .. n |->
                  IF m = 0 THEN <<>> ELSE Append(digits[m \div base], Digits[(m % base) + 1])]
  BY <1>2
<1> HIDE DEF digits
<1>4. Numerals(digits, n, base)
  BY <1>3 DEF Numerals
<1> QED BY <1>1, <1>4

\* What from_str_radix reads is what C writes.
LEMMA IntConstIs ==
  ASSUME NEW base \in Bases, NEW S, NEW s \in Seq(S), \A k \in 1 .. Len(s) : s[k] \in DigitsOf(base),
         NEW n \in 0 .. MaxInt
  PROVE  IntConst(base, s) = Number(n) <=> Pads(s, Numeral(n, base))
<1> DEFINE N == Len(s)
           value == CHOOSE v : v = [k \in 0 .. Len(s) |->
                        IF k = 0 THEN 0 ELSE v[k - 1] * base + DigitValue(s[k])]
<1>1. N \in Nat /\ DOMAIN s = 1 .. N /\ n \in Nat /\ base \in Nat
  <2>1. MaxInt \in Nat
    BY I32Assumption
  <2> QED BY <2>1 DEF Bases
<1>2. IntConst(base, s) = IF value[N] <= MaxInt THEN Number(value[N]) ELSE NoToken
  BY DEF IntConst
<1>3. \E v : v = [k \in 0 .. Len(s) |->
                    IF k = 0 THEN 0 ELSE v[k - 1] * base + DigitValue(s[k])]
  BY <1>1, ValuesExist DEF Values
<1>4. value = [k \in 0 .. Len(s) |->
                  IF k = 0 THEN 0 ELSE value[k - 1] * base + DigitValue(s[k])]
  BY <1>3
<1> HIDE DEF value
<1>5. Values(value, s, base)
  BY <1>4 DEF Values
<1>6. PICK d : Numerals(d, n, base) /\ Numeral(n, base) = d[n]
  BY <1>1, NumeralIs
<1>7. value[N] \in Nat /\ (value[N] = n <=> PadsTo(s, N, d[n]))
  <2>1. N \in 0 .. N /\ n \in 0 .. n
    BY <1>1
  <2>2. \A k \in 0 .. N : value[k] \in Nat /\ \A m \in 0 .. n : value[k] = m <=> PadsTo(s, k, d[m])
    BY <1>1, <1>5, <1>6, ValueIsNumeral
  <2> QED BY <2>1, <2>2
<1>8. PadsTo(s, N, d[n]) <=> Pads(s, d[n])
  <2>1. d[n] \in Seq(DigitsOf(base))
    <3>1. n \in 0 .. n
      BY <1>1
    <3> QED BY <1>1, <1>6, <3>1, NumeralsAre
  <2>2. Len(d[n]) \in Nat
    BY <2>1
  <2>3. N >= Len(d[n]) <=> N - Len(d[n]) >= 0
    BY <1>1, <2>2
  <2> QED BY <1>1, <2>3 DEF PadsTo, Pads
<1>9. IntConst(base, s) = Number(n) <=> value[N] = n
  <2>1. Number(n) # NoToken
    BY DEF Number, NoToken, Token
  <2>2. Number(value[N]) = Number(n) <=> value[N] = n
    BY DEF Number, Token
  <2>3. n <= MaxInt
    BY <1>1
  <2> QED BY <1>2, <2>1, <2>2, <2>3
<1> QED BY <1>6, <1>7, <1>8, <1>9

\* What pads a numeral is digits of its base.
LEMMA PadsDigits ==
  ASSUME NEW base \in Bases, NEW S, NEW s \in Seq(S), NEW n \in Nat, Pads(s, Numeral(n, base))
  PROVE  \A k \in 1 .. Len(s) : s[k] \in DigitsOf(base)
<1>1. PICK d : Numerals(d, n, base) /\ Numeral(n, base) = d[n]
  BY NumeralIs
<1>2. d[n] \in Seq(DigitsOf(base))
  <2>1. n \in 0 .. n
    OBVIOUS
  <2> QED BY <1>1, <2>1, NumeralsAre
<1> DEFINE e == d[n]
           p == Len(s) - Len(e)
<1>3. p \in Nat /\ \A k \in 1 .. Len(s) : s[k] = IF k <= p THEN "0" ELSE e[k - p]
  BY <1>1, <1>2 DEF Pads
<1>4. Len(e) \in Nat /\ Len(s) \in Nat /\ Len(s) - p = Len(e)
  BY <1>2
<1> HIDE DEF p, e
<1> SUFFICES ASSUME NEW k \in 1 .. Len(s) PROVE s[k] \in DigitsOf(base)
  OBVIOUS
<1>5. CASE k <= p
  <2>1. 1 \in 1 .. base /\ Digits[1] = "0"
    BY DEF Bases, Digits
  <2> QED BY <1>3, <1>5, <2>1 DEF DigitsOf
<1>6. CASE ~(k <= p)
  <2>1. k - p \in 1 .. Len(e)
    BY <1>3, <1>4, <1>6
  <2>2. e[k - p] \in DigitsOf(base)
    BY <1>2, <2>1 DEF e
  <2> QED BY <1>3, <1>6, <2>2
<1> QED BY <1>5, <1>6

-----------------------------------------------------------------------------
(* A text of one literal.                                                  *)

\* What each rule of literals matches.
LEMMA RunTo ==
  ASSUME NEW t, Len(t) \in Nat, NEW i \in 1 .. Len(t) + 1, NEW chars
  PROVE  /\ RunOf(t, i, chars, Len(t) + 1) <=> \A k \in i .. Len(t) : t[k] \in chars
         /\ EndOfRun(t, i, chars) = Len(t) + 1 <=> \A k \in i .. Len(t) : t[k] \in chars
<1> DEFINE N == Len(t)
           w == EndOfRun(t, i, chars)
<1>1. RunOf(t, i, chars, w)
  BY RunFacts
<1>2. RunOf(t, i, chars, N + 1) <=> \A k \in i .. N : t[k] \in chars
  <2>1. N + 1 \in i .. N + 1 /\ (N + 1) - 1 = N /\ ~(N + 1 <= N)
    OBVIOUS
  <2> QED BY <2>1 DEF RunOf
<1>3. w = N + 1 => \A k \in i .. N : t[k] \in chars
  BY <1>1, <1>2
<1>4. (\A k \in i .. N : t[k] \in chars) => w = N + 1
  <2>1. w \in i .. N + 1
    BY <1>1 DEF RunOf
  <2>2. w <= N => w \in i .. N /\ t[w] \notin chars
    BY <1>1, <2>1 DEF RunOf
  <2> HIDE DEF w
  <2> QED BY <2>1, <2>2
<1> QED BY <1>2, <1>3, <1>4

\* The literals, by the rules and by the digits' base.
Literals(t, rule) ==
  CASE rule = "decimal" -> t[1] \in DigitsOf(10) \ {"0"} /\ \A k \in 1 .. Len(t) : t[k] \in DigitsOf(10)
    [] rule = "octal"   -> t[1] = "0" /\ \A k \in 1 .. Len(t) : t[k] \in DigitsOf(8)
    [] rule = "hex"     -> /\ Len(t) > 2 /\ t[1] = "0" /\ t[2] \in HexMark
                           /\ \A k \in 3 .. Len(t) : t[k] \in DigitsOf(16)

LEMMA DigitsIn ==
  /\ "0" \in DigitsOf(8) /\ "0" \in DigitsOf(10) /\ DigitsOf(8) \subseteq DigitsOf(10)
  /\ \A c \in DigitsOf(10) : c \notin HexMark \cup Letters
<1>1. "0" \in DigitsOf(8) /\ "0" \in DigitsOf(10)
  <2>1. Digits[1] = "0" /\ 1 \in 1 .. 8 /\ 1 \in 1 .. 10
    BY DEF Digits
  <2> QED BY <2>1 DEF DigitsOf
<1>2. DigitsOf(8) \subseteq DigitsOf(10)
  <2>1. \A k \in 1 .. 8 : k \in 1 .. 10
    OBVIOUS
  <2> QED BY <2>1 DEF DigitsOf
<1>3. ASSUME NEW c \in DigitsOf(10) PROVE c \notin HexMark \cup Letters
  <2>1. PICK k \in 1 .. 10 : c = Digits[k]
    BY DEF DigitsOf
  <2>2. k \in {1, 2, 3, 4, 5, 6, 7, 8, 9, 10}
    OBVIOUS
  <2>d. /\ Digits[1] = "0" /\ Digits[2] = "1" /\ Digits[3] = "2" /\ Digits[4] = "3"
        /\ Digits[5] = "4" /\ Digits[6] = "5" /\ Digits[7] = "6" /\ Digits[8] = "7"
        /\ Digits[9] = "8" /\ Digits[10] = "9"
    BY DEF Digits
  <2>3. c \in {"0", "1", "2", "3", "4", "5", "6", "7", "8", "9"}
    BY <2>1, <2>2, <2>d
  <2> QED BY <2>3 DEF HexMark, Letters
<1> QED BY <1>1, <1>2, <1>3

LEMMA LiteralEnd ==
  ASSUME NEW t, Len(t) \in Nat, Len(t) >= 1, NEW r \in {"decimal", "octal", "hex"}
  PROVE  Len(t) + 1 \in Ends(t, 1)[r] <=> Literals(t, r)
<1> DEFINE N == Len(t)
<1>1. 1 \in 1 .. N /\ 1 \in Nat /\ 2 \in 1 .. N + 1 /\ 1 + 1 = 2 /\ 1 <= N
  OBVIOUS
<1>2. ASSUME NEW first, NEW others, NEW i \in 1 .. N
      PROVE  N + 1 \in Class(t, i, first, others) <=>
               t[i] \in first /\ \A k \in i + 1 .. N : t[k] \in others
  <2>1. i + 1 \in 1 .. N + 1 /\ i <= N
    OBVIOUS
  <2>2. EndOfRun(t, i + 1, others) = N + 1 <=> \A k \in i + 1 .. N : t[k] \in others
    BY <2>1, RunTo
  <2> QED BY <2>1, <2>2, ClassIs
<1>3. \A k \in 1 .. N : k = 1 \/ k \in 2 .. N
  OBVIOUS
<1>s. \A k \in 2 .. N : k \in 1 .. N
  OBVIOUS
<1>4. CASE r = "decimal"
  <2>1. N + 1 \in Class(t, 1, DigitsOf(10) \ {"0"}, DigitsOf(10)) <=>
          t[1] \in DigitsOf(10) \ {"0"} /\ \A k \in 2 .. N : t[k] \in DigitsOf(10)
    BY <1>1, <1>2
  <2> QED BY <1>3, <1>s, <1>4, <2>1, EndsFields DEF Literals
<1>5. CASE r = "octal"
  <2>1. N + 1 \in Class(t, 1, {"0"}, DigitsOf(8)) <=>
          t[1] \in {"0"} /\ \A k \in 2 .. N : t[k] \in DigitsOf(8)
    BY <1>1, <1>2
  <2> QED BY <1>3, <1>s, <1>5, <2>1, EndsFields, DigitsIn DEF Literals
<1>6. CASE r = "hex"
  <2>1. N + 1 \in HexLiteral(t, 1) <=>
          t[1] = "0" /\ 1 < N /\ t[2] \in HexMark /\ N + 1 \in Class(t, 3, DigitsOf(16), DigitsOf(16))
    <3>1. At(t, 1, <<"0">>) <=> t[1] = "0"
      BY <1>1, AtOne
    <3>2. 1 + 1 = 2 /\ 1 + 2 = 3
      OBVIOUS
    <3> QED BY <3>1, <3>2 DEF HexLiteral
  <2>2. CASE N > 2
    <3>1. 3 \in 1 .. N /\ 1 < N /\ 3 + 1 = 4
      BY <2>2
    <3>2. N + 1 \in Class(t, 3, DigitsOf(16), DigitsOf(16)) <=>
            t[3] \in DigitsOf(16) /\ \A k \in 4 .. N : t[k] \in DigitsOf(16)
      BY <1>2, <3>1
    <3>3. (\A k \in 3 .. N : k = 3 \/ k \in 4 .. N) /\ 3 \in 3 .. N /\ \A k \in 4 .. N : k \in 3 .. N
      BY <2>2
    <3> QED BY <1>6, <2>1, <2>2, <3>1, <3>2, <3>3, EndsFields DEF Literals
  <2>3. CASE ~(N > 2)
    <3>1. ~(3 <= N)
      BY <2>3
    <3>2. Class(t, 3, DigitsOf(16), DigitsOf(16)) = {}
      BY <3>1, ClassIs
    <3> QED BY <1>6, <2>1, <2>3, <3>2, EndsFields DEF Literals
  <2> QED BY <2>2, <2>3
<1> QED BY <1>4, <1>5, <1>6

LEMMA SpeltNoDigit ==
  ASSUME NEW u \in Terminals
  PROVE  Spelt(u)[1] \notin DigitsOf(10)
<1>1. Spelt(u)[1] \in Keywords \cup {"(", ")", "{", "}", ";", ",", "=", "|", "&", "!", "<", ">", "+", "-", "*", "/", "%"}
  <2>1. CASE u \in {"||", "&&", "==", "!=", "<=", ">="}
    BY <2>1 DEF Spelt
  <2>2. CASE u \notin {"||", "&&", "==", "!=", "<=", ">="}
    <3>1. Spelt(u) = <<u>>
      BY <2>2 DEF Spelt
    <3>2. Spelt(u)[1] = u
      BY <3>1
    <3> QED BY <2>2, <3>2 DEF Terminals
  <2> QED BY <2>1, <2>2
<1>2. ASSUME NEW c \in DigitsOf(10)
      PROVE  c \in {"0", "1", "2", "3", "4", "5", "6", "7", "8", "9"}
  <2>1. PICK k \in 1 .. 10 : c = Digits[k]
    BY DEF DigitsOf
  <2>2. k \in {1, 2, 3, 4, 5, 6, 7, 8, 9, 10}
    OBVIOUS
  <2>d. /\ Digits[1] = "0" /\ Digits[2] = "1" /\ Digits[3] = "2" /\ Digits[4] = "3"
        /\ Digits[5] = "4" /\ Digits[6] = "5" /\ Digits[7] = "6" /\ Digits[8] = "7"
        /\ Digits[9] = "8" /\ Digits[10] = "9"
    BY DEF Digits
  <2> QED BY <2>1, <2>2, <2>d
<1>3. \A c \in {"0", "1", "2", "3", "4", "5", "6", "7", "8", "9"} :
        c \notin Keywords \cup {"(", ")", "{", "}", ";", ",", "=", "|", "&", "!", "<", ">", "+", "-", "*", "/", "%"}
  BY DEF Keywords
<1> QED BY <1>1, <1>2, <1>3

LEMMA RuleFacts ==
  ASSUME NEW t, Len(t) \in Nat, NEW i \in 1 .. Len(t), EndsAny(t, i) # {}
  PROVE  /\ RuleAt(t, i) \in Rules /\ Longest(t, i) \in Ends(t, i)[RuleAt(t, i)]
         /\ Longest(t, i) \in i + 1 .. Len(t) + 1
<1>1. Longest(t, i) \in EndsAny(t, i) /\ Longest(t, i) \in i + 1 .. Len(t) + 1
  BY LongestFacts
<1>2. \E r \in DOMAIN Ends(t, i) : Longest(t, i) \in Ends(t, i)[r]
  BY <1>1, RulesAre
<1>3. RuleAt(t, i) \in DOMAIN Ends(t, i) /\ Longest(t, i) \in Ends(t, i)[RuleAt(t, i)]
  BY <1>2 DEF RuleAt
<1> QED BY <1>1, <1>3, RulesAre

\* The tokens a text can have.
TokensIn(t) ==
  {NoToken} \cup
  {TokenOf(r, SubSeq(t, i, e - 1)) : r \in Rules \ Skipped, i \in 1 .. Len(t), e \in 1 .. Len(t) + 1}

LEMMA TokensAre ==
  ASSUME NEW t, Len(t) \in Nat, NEW a, Lexes(a, t, 1)
  PROVE  \A i \in 1 .. Len(t) + 1 : a[i] \in Seq(TokensIn(t))
<1> DEFINE N == Len(t)
           T == TokensIn(t)
           S == {i \in 1 .. N + 1 : a[i] \in Seq(T)}
<1>1. N \in Nat
  OBVIOUS
<1>2. ASSUME NEW i \in 1 .. N + 1, \A j \in i + 1 .. N + 1 : j \in S PROVE i \in S
  <2>1. a[i] = LexFrom(t, i, a)
    BY DEF Lexes
  <2>2. CASE i > N
    <3>1. a[i] = <<>>
      BY <2>1, <2>2 DEF LexFrom
    <3>2. <<>> \in Seq(T)
      OBVIOUS
    <3> HIDE DEF T
    <3> QED BY <3>1, <3>2
  <2>3. CASE ~(i > N) /\ EndsAny(t, i) = {}
    <3>1. a[i] = <<NoToken>>
      BY <2>1, <2>3 DEF LexFrom
    <3>2. NoToken \in T
      BY DEF TokensIn
    <3> HIDE DEF T
    <3>3. <<NoToken>> \in Seq(T)
      BY <3>2
    <3> QED BY <3>1, <3>3
  <2>4. CASE ~(i > N) /\ EndsAny(t, i) # {}
    <3> DEFINE r == RuleAt(t, i)
               e == Longest(t, i)
               tok == TokenOf(r, SubSeq(t, i, e - 1))
    <3>1. i \in 1 .. N
      BY <1>1, <2>4
    <3>2. r \in Rules /\ e \in i + 1 .. N + 1
      BY <1>1, <2>4, <3>1, RuleFacts
    <3>3. a[i] = IF r \in Skipped THEN a[e] ELSE <<tok>> \o a[e]
      BY <2>1, <2>4 DEF LexFrom
    <3>4. a[e] \in Seq(T)
      BY <1>2, <3>2
    <3>5. CASE r \in Skipped
      BY <3>3, <3>4, <3>5
    <3>6. CASE r \notin Skipped
      <4>1. tok \in T
        <5>1. e \in 1 .. N + 1
          BY <3>1, <3>2
        <5> HIDE DEF r, e
        <5> QED BY <3>1, <3>2, <3>6, <5>1 DEF TokensIn
      <4> HIDE DEF T, tok, e
      <4>2. <<tok>> \in Seq(T)
        BY <4>1
      <4>3. <<tok>> \o a[e] \in Seq(T)
        BY <3>4, <4>2, ConcatProperties
      <4> HIDE DEF r
      <4> QED BY <3>3, <3>6, <4>3
    <3>7. a[i] \in Seq(T)
      BY <3>5, <3>6
    <3> HIDE DEF T
    <3> QED BY <3>7
  <2> QED BY <2>2, <2>3, <2>4
<1>3. \A i \in 1 .. N + 1 : i \in S
  <2> HIDE DEF S, N
  <2> QED BY <1>1, <1>2, Backwards
<1> QED BY <1>3

LEMMA LexType ==
  ASSUME NEW t, Len(t) \in Nat
  PROVE  Lex(t) \in Seq(TokensIn(t))
<1>1. PICK a : Lexes(a, t, 1) /\ Lex(t) = a[1]
  BY LexIs
<1>2. 1 \in 1 .. Len(t) + 1
  OBVIOUS
<1> QED BY <1>1, <1>2, TokensAre

\* In an unspaced text each place begins a token.
LEMMA TokensFrom ==
  ASSUME text \in Seq(STRING), Unspaced, NEW a, Lexes(a, text, 1)
  PROVE  \A i \in 1 .. Len(text) + 1 :
           /\ a[i] \in Seq(TokensIn(text))
           /\ i <= Len(text) => a[i] # <<>>
<1> DEFINE N == Len(text)
           T == TokensIn(text)
<1>1. N \in Nat /\ DOMAIN text = 1 .. N
  OBVIOUS
<1>2. \A i \in 1 .. N + 1 : a[i] \in Seq(T)
  BY <1>1, TokensAre
<1>3. ASSUME NEW i \in 1 .. N + 1, i <= N PROVE a[i] # <<>>
  <2>1. a[i] = LexFrom(text, i, a) /\ i \in 1 .. N /\ ~(i > N)
    BY <1>1, <1>3 DEF Lexes
  <2>2. CASE EndsAny(text, i) = {}
    BY <2>1, <2>2 DEF LexFrom
  <2>3. CASE EndsAny(text, i) # {}
    <3> DEFINE r == RuleAt(text, i)
               e == Longest(text, i)
               tok == TokenOf(r, SubSeq(text, i, e - 1))
    <3>1. r \in Rules /\ e \in Ends(text, i)[r] /\ e \in i + 1 .. N + 1
      BY <1>1, <2>1, <2>3, RuleFacts
    <3>2. r \notin Skipped
      <4>1. text[i] \notin Space /\ ~At(text, i, <<"/", "/">>) /\ ~At(text, i, <<"/", "*">>)
        BY <1>1, <2>1 DEF Unspaced
      <4> HIDE DEF r, e
      <4>2. (r = "space" <=> text[i] \in Space) /\ (r = "line" => At(text, i, <<"/", "/">>))
            /\ (r = "block" => At(text, i, <<"/", "*">>))
        BY <1>1, <2>1, <3>1, FirstCharacter
      <4> QED BY <4>1, <4>2 DEF Skipped
    <3>3. a[i] = <<tok>> \o a[e]
      BY <2>1, <2>3, <3>2 DEF LexFrom
    <3>4. a[e] \in Seq(T)
      BY <1>2, <3>1
    <3>5. <<tok>> \in Seq({tok}) /\ <<tok>> # <<>>
      OBVIOUS
    <3> HIDE DEF T, tok, e
    <3>6. Len(<<tok>> \o a[e]) = 1 + Len(a[e]) /\ Len(a[e]) \in Nat
      BY <3>4, <3>5
    <3> QED BY <3>3, <3>6
  <2> QED BY <2>2, <2>3
<1> QED BY <1>2, <1>3

\* A text that reads as one number is one lexeme of a rule of literals.
LEMMA OneNumber ==
  ASSUME text \in Seq(STRING), Unspaced, NEW n, Lex(text) = <<Number(n)>>
  PROVE  /\ Len(text) >= 1
         /\ \E r \in {"decimal", "octal", "hex"} : Literals(text, r) /\ TokenOf(r, text) = Number(n)
<1> DEFINE N == Len(text)
<1>1. N \in Nat
  OBVIOUS
<1>2. PICK a : Lexes(a, text, 1) /\ Lex(text) = a[1]
  BY <1>1, LexIs
<1>3. a[1] = LexFrom(text, 1, a)
  <2>1. 1 \in 1 .. N + 1
    BY <1>1
  <2> QED BY <1>2, <2>1 DEF Lexes
<1>4. ~(1 > N)
  <2> SUFFICES ASSUME 1 > N PROVE FALSE
    OBVIOUS
  <2>1. a[1] = <<>>
    BY <1>3 DEF LexFrom
  <2> QED BY <1>2, <2>1
<1>5. EndsAny(text, 1) # {}
  <2> SUFFICES ASSUME EndsAny(text, 1) = {} PROVE FALSE
    OBVIOUS
  <2>1. a[1] = <<NoToken>>
    BY <1>3, <1>4 DEF LexFrom
  <2>2. NoToken = Number(n)
    BY <1>2, <2>1
  <2> QED BY <2>2 DEF NoToken, Number, Token
<1> DEFINE r == RuleAt(text, 1)
           e == Longest(text, 1)
           tok == TokenOf(r, SubSeq(text, 1, e - 1))
<1>6. 1 \in 1 .. N
  BY <1>1, <1>4
<1>7. r \in Rules /\ e \in Ends(text, 1)[r] /\ e \in 2 .. N + 1
  <2>1. 1 + 1 = 2
    OBVIOUS
  <2> QED BY <1>1, <1>5, <1>6, <2>1, RuleFacts
<1>8. r \notin Skipped
  <2>1. text[1] \notin Space /\ ~At(text, 1, <<"/", "/">>) /\ ~At(text, 1, <<"/", "*">>)
    BY <1>6 DEF Unspaced
  <2> HIDE DEF r, e
  <2>2. (r = "space" <=> text[1] \in Space) /\ (r = "line" => At(text, 1, <<"/", "/">>))
        /\ (r = "block" => At(text, 1, <<"/", "*">>))
    BY <1>1, <1>6, <1>7, FirstCharacter
  <2> QED BY <2>1, <2>2 DEF Skipped
<1>9. a[1] = <<tok>> \o a[e]
  BY <1>3, <1>4, <1>5, <1>8 DEF LexFrom
<1>10. a[e] \in Seq(TokensIn(text)) /\ (e <= N => a[e] # <<>>)
  <2>1. e \in 1 .. N + 1
    BY <1>7
  <2> QED BY <1>2, <2>1, TokensFrom
<1>11. tok = Number(n) /\ a[e] = <<>>
  <2> DEFINE T == TokensIn(text) \cup {tok, Number(n)}
             x == a[e]
             num == Number(n)
  <2>1. TokensIn(text) \subseteq T /\ tok \in T /\ num \in T
    OBVIOUS
  <2>2. x \in Seq(TokensIn(text))
    BY <1>10
  <2>3. <<tok>> \o x = <<num>>
    BY <1>2, <1>9
  <2> HIDE DEF T, x, tok, num
  <2>4. x \in Seq(T)
    BY <2>1, <2>2, WiderSeq
  <2>5. <<tok>> \in Seq(T) /\ Len(<<tok>>) = 1 /\ <<tok>>[1] = tok /\ Len(<<num>>) = 1 /\ <<num>>[1] = num
    BY <2>1
  <2>6. /\ Len(<<tok>> \o x) = 1 + Len(x)
        /\ \A i \in 1 .. 1 + Len(x) : (<<tok>> \o x)[i] = IF i <= 1 THEN <<tok>>[i] ELSE x[i - 1]
    BY <2>4, <2>5, ConcatProperties
  <2>7. Len(x) = 0
    <3>1. Len(<<tok>> \o x) = 1
      BY <2>3, <2>5
    <3>2. Len(x) \in Nat /\ Len(<<tok>> \o x) = 1 + Len(x)
      BY <2>4, <2>6
    <3> QED BY <3>1, <3>2
  <2>8. (<<tok>> \o x)[1] = tok
    BY <2>5, <2>6, <2>7
  <2>9. x = <<>>
    BY <2>4, <2>7
  <2> QED BY <2>3, <2>5, <2>8, <2>9 DEF x, num
<1>12. e = N + 1
  BY <1>1, <1>7, <1>10, <1>11
<1>13. SubSeq(text, 1, e - 1) = text
  <2>1. e - 1 = N
    BY <1>1, <1>12
  <2> QED BY <2>1, SubSeqFull
<1>14. TokenOf(r, text) = Number(n)
  BY <1>11, <1>13
<1>15. r \in {"decimal", "octal", "hex"}
  <2> HIDE DEF r
  <2>1. CASE r = "literal"
    <3> DEFINE u == CHOOSE t \in Terminals : Spelt(t) = text
    <3>1. TokenOf(r, text) = Terminal(u)
      BY <2>1 DEF TokenOf
    <3>2. u = "number"
      <4> HIDE DEF u
      <4> QED BY <1>14, <3>1 DEF Terminal, Number, Token
    <3>3. \E t \in Terminals : Spelt(t) = text
      <4>1. N + 1 \in LiteralEnds(text, 1)
        BY <1>7, <1>12, <2>1, EndsFields
      <4>2. PICK t \in Terminals : At(text, 1, Spelt(t)) /\ N + 1 = 1 + Len(Spelt(t))
        BY <4>1 DEF LiteralEnds
      <4>3. \E S : Spelt(t) \in Seq(S)
        <5> DEFINE s == Spelt(t)
        <5>1. (\E x : s = <<x>>) \/ \E x, y : s = <<x, y>>
          BY SpeltFacts
        <5>2. ASSUME NEW x, s = <<x>> PROVE s \in Seq({x})
          BY <5>2
        <5>3. ASSUME NEW x, NEW y, s = <<x, y>> PROVE s \in Seq({x, y})
          BY <5>3
        <5> HIDE DEF s
        <5>4. \E S : s \in Seq(S)
          BY <5>1, <5>2, <5>3
        <5> QED BY <5>4 DEF s
      <4> DEFINE s == Spelt(t)
      <4>4. PICK S : s \in Seq(S)
        BY <4>3
      <4>5. Len(s) = N /\ DOMAIN s = 1 .. N
        BY <1>1, <4>2, <4>4
      <4>6. \A k \in 1 .. N : text[k] = s[k]
        <5>1. \A k \in 1 .. N : 1 + k - 1 = k
          BY <1>1
        <5> QED BY <4>2, <4>5, <5>1 DEF At
      <4>7. s = text
        <5> HIDE DEF s
        <5> QED BY <4>4, <4>5, <4>6
      <4> QED BY <4>7
    <3>4. u \in Terminals
      BY <3>3
    <3>5. "number" \notin Terminals
      BY DEF Terminals, Keywords
    <3> HIDE DEF u
    <3> QED BY <3>2, <3>4, <3>5
  <2>2. CASE r = "ident"
    <3>1. TokenOf(r, text) = Ident(text)
      BY <2>2 DEF TokenOf
    <3> QED BY <1>14, <3>1 DEF Ident, Number, Token
  <2> QED BY <1>7, <1>8, <2>1, <2>2 DEF Rules, Skipped
<1>16. Literals(text, r)
  <2>1. N >= 1
    BY <1>6
  <2> HIDE DEF r
  <2> QED BY <1>1, <1>7, <1>12, <1>15, <2>1, LiteralEnd
<1>17. N >= 1
  BY <1>6
<1> QED BY <1>14, <1>15, <1>16, <1>17

\* A literal is read by its rule alone.
LEMMA OneLiteral ==
  ASSUME NEW S, NEW t \in Seq(S), Len(t) >= 1, NEW r \in {"decimal", "octal", "hex"}, Literals(t, r)
  PROVE  Lex(t) = <<TokenOf(r, t)>>
<1> DEFINE N == Len(t)
<1>1. N \in Nat /\ 1 \in 1 .. N /\ 1 + 1 = 2 /\ 1 <= N
  OBVIOUS
<1>2. N + 1 \in Ends(t, 1)[r]
  BY <1>1, LiteralEnd
<1>3. r \in Rules
  BY DEF Rules
<1>4. t[1] \in DigitsOf(10)
  BY <1>1, DigitsIn DEF Literals
<1>5. ASSUME NEW first, NEW others, NEW x \in Class(t, 1, first, others) PROVE t[1] \in first
  BY ClassIs
<1>6. ASSUME NEW q \in Rules, NEW x \in Ends(t, 1)[q] PROVE x <= N + 1 /\ (x = N + 1 => q = r)
  <2>1. x \in EndsAny(t, 1)
    BY RulesAre
  <2>2. x \in 2 .. N + 1
    BY <1>1, <2>1, EndsWithin
  <2>3. x <= N + 1
    BY <2>2
  <2>4. CASE q = "literal"
    <3>1. x \in LiteralEnds(t, 1)
      BY <2>4, EndsFields
    <3>2. PICK u \in Terminals : At(t, 1, Spelt(u))
      BY <3>1 DEF LiteralEnds
    <3>3. t[1] = Spelt(u)[1]
      <4> DEFINE s == Spelt(u)
      <4>1. (\E a : s = <<a>>) \/ \E a, b : s = <<a, b>>
        BY SpeltFacts
      <4>2. 1 \in DOMAIN s /\ 1 + 1 - 1 = 1
        BY <4>1
      <4> HIDE DEF s
      <4>3. t[1] = s[1]
        BY <3>2, <4>2 DEF At, s
      <4> QED BY <4>3 DEF s
    <3>4. Spelt(u)[1] \notin DigitsOf(10)
      BY SpeltNoDigit
    <3> QED BY <1>4, <3>3, <3>4
  <2>5. CASE q \in {"space", "line", "block"}
    <3>1. t[1] \notin Space \cup {"/"}
      BY <1>4, NotInNames
    <3>2. q = "line" => t[1] = "/"
      <4>1. q = "line" => At(t, 1, <<"/", "/">>)
        BY <1>1, FirstCharacter
      <4> QED BY <1>1, <4>1, AtTwo
    <3>3. q = "block" => t[1] = "/"
      <4>1. q = "block" => At(t, 1, <<"/", "*">>)
        BY <1>1, FirstCharacter
      <4> QED BY <1>1, <4>1, AtTwo
    <3>4. q = "space" => t[1] \in Space
      BY <1>1, FirstCharacter
    <3> QED BY <2>5, <3>1, <3>2, <3>3, <3>4
  <2>6. CASE q = "ident"
    <3>1. t[1] \in Letters
      BY <1>5, <2>6, EndsFields
    <3> QED BY <1>4, <3>1, DigitsIn
  <2>7. CASE q \in {"decimal", "octal", "hex"}
    <3> SUFFICES ASSUME x = N + 1 PROVE q = r
      BY <2>3
    <3>1. Literals(t, q)
      BY <1>1, <2>7, LiteralEnd
    <3>2. N > 2 => 2 \in 1 .. N
      BY <1>1
    <3>3. \A k \in 1 .. N : t[k] \in DigitsOf(8) => t[k] \notin HexMark
      BY DigitsIn
    <3>4. q = "decimal" \/ q = "octal" \/ q = "hex"
      BY <2>7
    <3>5. CASE q = "decimal"
      BY <3>1, <3>5 DEF Literals
    <3>6. CASE q = "octal"
      BY <3>1, <3>2, <3>3, <3>6 DEF Literals
    <3>7. CASE q = "hex"
      BY <3>1, <3>2, <3>3, <3>7 DEF Literals
    <3> QED BY <3>4, <3>5, <3>6, <3>7
  <2> QED BY <2>3, <2>4, <2>5, <2>6, <2>7 DEF Rules
<1>7. EndsAny(t, 1) # {} /\ Longest(t, 1) = N + 1 /\ RuleAt(t, 1) = r
  <2> DEFINE e == N + 1
  <2>1. e \in Ends(t, 1)[r] /\ \A q \in Rules : \A x \in Ends(t, 1)[q] : x <= e /\ (x = e => q = r)
    BY <1>2, <1>6
  <2> HIDE DEF e
  <2>2. EndsAny(t, 1) # {} /\ Longest(t, 1) = e /\ RuleAt(t, 1) = r
    BY <1>1, <1>3, <2>1, LongestIs
  <2> QED BY <2>2 DEF e
<1>8. PICK a : Lexes(a, t, 1) /\ Lex(t) = a[1]
  BY <1>1, LexIs
<1>9. a[1] = LexFrom(t, 1, a) /\ a[N + 1] = LexFrom(t, N + 1, a)
  <2>1. 1 \in 1 .. N + 1 /\ N + 1 \in 1 .. N + 1
    BY <1>1
  <2> QED BY <1>8, <2>1 DEF Lexes
<1>10. a[N + 1] = <<>>
  <2>1. N + 1 > Len(t)
    BY <1>1
  <2> QED BY <1>9, <2>1 DEF LexFrom
<1>11. a[1] = <<TokenOf(r, SubSeq(t, 1, N + 1 - 1))>> \o a[N + 1]
  <2>1. ~(1 > N) /\ r \notin Skipped
    BY <1>1 DEF Skipped
  <2> QED BY <1>7, <1>9, <2>1 DEF LexFrom
<1>12. SubSeq(t, 1, N + 1 - 1) = t
  <2>1. N + 1 - 1 = N
    BY <1>1
  <2> QED BY <2>1, SubSeqFull
<1> DEFINE tok == TokenOf(r, t)
<1>13. a[1] = <<tok>> \o <<>>
  BY <1>10, <1>11, <1>12
<1> HIDE DEF tok
<1>14. <<tok>> \o <<>> = <<tok>>
  <2>1. <<tok>> \in Seq({tok})
    OBVIOUS
  <2> QED BY <2>1, ConcatEmptySeq
<1> QED BY <1>8, <1>13, <1>14 DEF tok

\* The token of a literal is the number that C reads.
LEMMA LiteralIs ==
  ASSUME NEW S, NEW t \in Seq(S), Len(t) >= 1, NEW r \in {"decimal", "octal", "hex"}, Literals(t, r),
         NEW n \in 0 .. MaxInt
  PROVE  TokenOf(r, t) = Number(n) <=>
           IF r = "hex" THEN Pads(SubSeq(t, 3, Len(t)), Numeral(n, 16))
           ELSE Pads(t, Numeral(n, IF r = "decimal" THEN 10 ELSE 8))
<1>1. 8 \in Bases /\ 10 \in Bases /\ 16 \in Bases
  BY DEF Bases
<1>2. CASE r = "decimal"
  <2>1. TokenOf(r, t) = IntConst(10, t)
    BY <1>2 DEF TokenOf
  <2>2. \A k \in 1 .. Len(t) : t[k] \in DigitsOf(10)
    BY <1>2 DEF Literals
  <2>3. IntConst(10, t) = Number(n) <=> Pads(t, Numeral(n, 10))
    BY <1>1, <2>2, IntConstIs
  <2> QED BY <1>2, <2>1, <2>3
<1>3. CASE r = "octal"
  <2>1. TokenOf(r, t) = IntConst(8, t)
    BY <1>3 DEF TokenOf
  <2>2. \A k \in 1 .. Len(t) : t[k] \in DigitsOf(8)
    BY <1>3 DEF Literals
  <2>3. IntConst(8, t) = Number(n) <=> Pads(t, Numeral(n, 8))
    BY <1>1, <2>2, IntConstIs
  <2> QED BY <1>3, <2>1, <2>3
<1>4. CASE r = "hex"
  <2> DEFINE s == SubSeq(t, 3, Len(t))
  <2>1. TokenOf(r, t) = IntConst(16, s)
    BY <1>4 DEF TokenOf
  <2>2. Len(t) > 2 /\ \A k \in 3 .. Len(t) : t[k] \in DigitsOf(16)
    BY <1>4 DEF Literals
  <2>3. s \in Seq(DigitsOf(16))
    <3>1. Len(t) \in Int /\ 3 \in Int
      OBVIOUS
    <3> QED BY <2>2, <3>1, SubSeqProperties
  <2> HIDE DEF s
  <2>4. \A k \in 1 .. Len(s) : s[k] \in DigitsOf(16)
    BY <2>3
  <2>5. IntConst(16, s) = Number(n) <=> Pads(s, Numeral(n, 16))
    BY <1>1, <2>3, <2>4, IntConstIs
  <2> QED BY <1>4, <2>1, <2>5 DEF s
<1> QED BY <1>2, <1>3, <1>4

\* What C writes for a number is a literal of one of the rules.
LEMMA WritesLiteral ==
  ASSUME text \in Seq(STRING), NEW n \in 0 .. MaxInt
  PROVE  Writes(n) <=>
           /\ Len(text) >= 1
           /\ \E r \in {"decimal", "octal", "hex"} : Literals(text, r) /\ TokenOf(r, text) = Number(n)
<1> DEFINE N == Len(text)
<1>1. N \in Nat /\ n \in Nat /\ (text # <<>> <=> N >= 1)
  <2>1. MaxInt \in Nat
    BY I32Assumption
  <2> QED BY <2>1
<1>2. 8 \in Bases /\ 10 \in Bases /\ 16 \in Bases
  BY DEF Bases
<1>3. ASSUME NEW r \in {"decimal", "octal", "hex"}, Literals(text, r), TokenOf(r, text) = Number(n), N >= 1
      PROVE  Writes(n)
  <2>1. IF r = "hex" THEN Pads(SubSeq(text, 3, N), Numeral(n, 16))
        ELSE Pads(text, Numeral(n, IF r = "decimal" THEN 10 ELSE 8))
    BY <1>3, LiteralIs
  <2>2. CASE r = "decimal"
    BY <1>1, <1>3, <2>1, <2>2 DEF Literals, Writes
  <2>3. CASE r = "octal"
    BY <1>1, <1>3, <2>1, <2>3 DEF Literals, Writes
  <2>4. CASE r = "hex"
    BY <1>1, <1>3, <2>1, <2>4 DEF Literals, Writes
  <2> QED BY <2>2, <2>3, <2>4
<1>4. ASSUME Writes(n)
      PROVE  \E r \in {"decimal", "octal", "hex"} : Literals(text, r) /\ TokenOf(r, text) = Number(n)
  <2>1. N >= 1
    BY <1>1, <1>4 DEF Writes
  <2>2. CASE text[1] \in DigitsOf(10) \ {"0"} /\ Pads(text, Numeral(n, 10))
    <3>1. \A k \in 1 .. N : text[k] \in DigitsOf(10)
      BY <1>1, <1>2, <2>2, PadsDigits
    <3>2. Literals(text, "decimal")
      BY <2>2, <3>1 DEF Literals
    <3>3. TokenOf("decimal", text) = Number(n)
      BY <2>1, <2>2, <3>2, LiteralIs
    <3> QED BY <3>2, <3>3
  <2>3. CASE text[1] = "0" /\ Pads(text, Numeral(n, 8))
    <3>1. \A k \in 1 .. N : text[k] \in DigitsOf(8)
      BY <1>1, <1>2, <2>3, PadsDigits
    <3>2. Literals(text, "octal")
      BY <2>3, <3>1 DEF Literals
    <3>3. TokenOf("octal", text) = Number(n)
      BY <2>1, <2>3, <3>2, LiteralIs
    <3> QED BY <3>2, <3>3
  <2>4. CASE /\ N > 2 /\ text[1] = "0" /\ text[2] \in HexMark
             /\ Pads(SubSeq(text, 3, N), Numeral(n, 16))
    <3> DEFINE s == SubSeq(text, 3, N)
    <3>1. s \in Seq(STRING) /\ Len(s) = (N - 3) + 1 /\ \A k \in 1 .. (N - 3) + 1 : s[k] = text[3 + k - 1]
      <4>1. 3 \in Int /\ N \in Int /\ 3 <= N /\ \A k \in 3 .. N : text[k] \in STRING
        BY <1>1, <2>4
      <4> QED BY <4>1, SubSeqProperties
    <3>2. Pads(s, Numeral(n, 16))
      BY <2>4
    <3> HIDE DEF s
    <3>3. \A k \in 1 .. Len(s) : s[k] \in DigitsOf(16)
      BY <1>1, <1>2, <3>1, <3>2, PadsDigits
    <3>4. ASSUME NEW k \in 3 .. N PROVE text[k] \in DigitsOf(16)
      <4>1. k - 2 \in 1 .. (N - 3) + 1 /\ 3 + (k - 2) - 1 = k
        BY <1>1
      <4>2. s[k - 2] = text[k]
        BY <3>1, <4>1
      <4> QED BY <3>1, <3>3, <4>1, <4>2
    <3>5. Literals(text, "hex")
      BY <2>4, <3>4 DEF Literals
    <3>6. TokenOf("hex", text) = Number(n)
      <4>1. Pads(SubSeq(text, 3, Len(text)), Numeral(n, 16))
        BY <2>4
      <4> QED BY <2>1, <3>5, <4>1, LiteralIs
    <3> QED BY <3>5, <3>6
  <2> QED BY <1>4, <2>2, <2>3, <2>4 DEF Writes
<1>5. Writes(n) => N >= 1
  BY <1>1 DEF Writes
<1> QED BY <1>3, <1>4, <1>5

\* An unspaced text of any length is the literal of a number that fits an i32
\* exactly if it is one in C (sysy.lalrpop:218-222, the three radixes and the
\* unwrap), whatever the width.
THEOREM LiteralsRead == SyntaxSpec => []LiteralsAsInC
<1>1. TextType => LiteralsAsInC
  <2> SUFFICES ASSUME TextType, Unspaced, NEW n \in 0 .. MaxInt
               PROVE  Lex(text) = <<Number(n)>> <=> Writes(n)
    BY DEF LiteralsAsInC
  <2>1. text \in Seq(STRING)
    BY DEF TextType
  <2>2. Lex(text) = <<Number(n)>> => Writes(n)
    <3> SUFFICES ASSUME Lex(text) = <<Number(n)>> PROVE Writes(n)
      OBVIOUS
    <3>1. /\ Len(text) >= 1
          /\ \E r \in {"decimal", "octal", "hex"} : Literals(text, r) /\ TokenOf(r, text) = Number(n)
      BY <2>1, OneNumber
    <3> QED BY <2>1, <3>1, WritesLiteral
  <2>3. Writes(n) => Lex(text) = <<Number(n)>>
    <3> SUFFICES ASSUME Writes(n) PROVE Lex(text) = <<Number(n)>>
      OBVIOUS
    <3>1. Len(text) >= 1
      BY <2>1, WritesLiteral
    <3>2. PICK r \in {"decimal", "octal", "hex"} : Literals(text, r) /\ TokenOf(r, text) = Number(n)
      BY <2>1, WritesLiteral
    <3>3. Lex(text) = <<TokenOf(r, text)>>
      BY <2>1, <3>1, <3>2, OneLiteral
    <3> QED BY <3>2, <3>3
  <2> QED BY <2>2, <2>3
<1> QED BY <1>1, TextIsAText, PTL

-----------------------------------------------------------------------------
(* The productions of expressions.                                         *)

\* A nonterminal refers to fewer tokens, or to one below it.
Rank == [PrimaryExp |-> 0, UnaryExp |-> 1, MulExp |-> 2, AddExp |-> 3, RelExp |-> 4,
         EqExp |-> 5, LAndExp |-> 6, LOrExp |-> 7, Exp |-> 8,
         ConstDef |-> 0, VarDef |-> 0, ConstDefs |-> 1, VarDefs |-> 1, Decl |-> 2, Block |-> 3,
         Stmt |-> 4, BlockItem |-> 5, BlockItems |-> 6, FuncDef |-> 7, CompUnit |-> 8]
Size(i, j) == IF i > j THEN 0 ELSE j - i + 1
Weight(nt, i, j) == 9 * Size(i, j) + Rank[nt]

Spans(t)    == (1 .. Len(t) + 1) \X (0 .. Len(t))
ExpSpans(t) == ExpNonTerminals \X (1 .. Len(t) + 1) \X (0 .. Len(t))

LEMMA LevelFacts ==
  ASSUME NEW nt \in DOMAIN BinaryLevel
  PROVE  /\ BinaryLevel[nt].below \in (DOMAIN BinaryLevel) \cup {"UnaryExp"}
         /\ Rank[nt] = Rank[BinaryLevel[nt].below] + 1
         /\ \A sign : sign \in BinaryLevel[nt].ops =>
              CPrecedence(sign) = 8 - Rank[nt] /\ sign \notin {"(", ")", "ident", "number"} /\ sign \in BinarySigns
<1>1. nt \in {"LOrExp", "LAndExp", "EqExp", "RelExp", "AddExp", "MulExp"}
  BY DEF BinaryLevel
<1>2. \A sign : sign \in BinaryLevel[nt].ops => sign \in BinarySigns
  BY DEF BinarySigns
<1>3. CASE nt = "LOrExp"
  <2>1. BinaryLevel[nt].below = "LAndExp" /\ BinaryLevel[nt].ops = {"||"} /\ Rank[nt] = 7
        /\ Rank["LAndExp"] = 6 /\ "LAndExp" \in DOMAIN BinaryLevel
    BY <1>3 DEF BinaryLevel, Rank
  <2>2. \A sign \in {"||"} : CPrecedence(sign) = 1 /\ sign \notin {"(", ")", "ident", "number"}
    BY DEF CPrecedence
  <2> QED BY <1>2, <2>1, <2>2
<1>4. CASE nt = "LAndExp"
  <2>1. BinaryLevel[nt].below = "EqExp" /\ BinaryLevel[nt].ops = {"&&"} /\ Rank[nt] = 6
        /\ Rank["EqExp"] = 5 /\ "EqExp" \in DOMAIN BinaryLevel
    BY <1>4 DEF BinaryLevel, Rank
  <2>2. \A sign \in {"&&"} : CPrecedence(sign) = 2 /\ sign \notin {"(", ")", "ident", "number"}
    BY DEF CPrecedence
  <2> QED BY <1>2, <2>1, <2>2
<1>5. CASE nt = "EqExp"
  <2>1. BinaryLevel[nt].below = "RelExp" /\ BinaryLevel[nt].ops = {"==", "!="} /\ Rank[nt] = 5
        /\ Rank["RelExp"] = 4 /\ "RelExp" \in DOMAIN BinaryLevel
    BY <1>5 DEF BinaryLevel, Rank
  <2>2. \A sign \in {"==", "!="} : CPrecedence(sign) = 3 /\ sign \notin {"(", ")", "ident", "number"}
    BY DEF CPrecedence
  <2> QED BY <1>2, <2>1, <2>2
<1>6. CASE nt = "RelExp"
  <2>1. BinaryLevel[nt].below = "AddExp" /\ BinaryLevel[nt].ops = {"<", "<=", ">", ">="} /\ Rank[nt] = 4
        /\ Rank["AddExp"] = 3 /\ "AddExp" \in DOMAIN BinaryLevel
    BY <1>6 DEF BinaryLevel, Rank
  <2>2. \A sign \in {"<", "<=", ">", ">="} : CPrecedence(sign) = 4 /\ sign \notin {"(", ")", "ident", "number"}
    BY DEF CPrecedence
  <2> QED BY <1>2, <2>1, <2>2
<1>7. CASE nt = "AddExp"
  <2>1. BinaryLevel[nt].below = "MulExp" /\ BinaryLevel[nt].ops = {"+", "-"} /\ Rank[nt] = 3
        /\ Rank["MulExp"] = 2 /\ "MulExp" \in DOMAIN BinaryLevel
    BY <1>7 DEF BinaryLevel, Rank
  <2>2. \A sign \in {"+", "-"} : CPrecedence(sign) = 5 /\ sign \notin {"(", ")", "ident", "number"}
    BY DEF CPrecedence
  <2> QED BY <1>2, <2>1, <2>2
<1>8. CASE nt = "MulExp"
  <2>1. BinaryLevel[nt].below = "UnaryExp" /\ BinaryLevel[nt].ops = {"*", "/", "%"} /\ Rank[nt] = 2
        /\ Rank["UnaryExp"] = 1
    BY <1>8 DEF BinaryLevel, Rank
  <2>2. \A sign \in {"*", "/", "%"} : CPrecedence(sign) = 6 /\ sign \notin {"(", ")", "ident", "number"}
    BY DEF CPrecedence
  <2> QED BY <1>2, <2>1, <2>2
<1> QED BY <1>1, <1>3, <1>4, <1>5, <1>6, <1>7, <1>8

LEMMA RankFacts ==
  /\ \A nt \in ExpNonTerminals : Rank[nt] \in 0 .. 8
  /\ Rank["PrimaryExp"] = 0 /\ Rank["UnaryExp"] = 1 /\ Rank["Exp"] = 8 /\ Rank["LOrExp"] = 7
  /\ \A nt \in DOMAIN BinaryLevel : Rank[nt] \in 2 .. 7 /\ nt \in ExpNonTerminals /\ nt \notin {"Exp", "UnaryExp", "PrimaryExp"}
  /\ "LOrExp" \in DOMAIN BinaryLevel /\ {"Exp", "UnaryExp", "PrimaryExp"} \subseteq ExpNonTerminals
<1>1. \A nt \in DOMAIN BinaryLevel : nt \in {"LOrExp", "LAndExp", "EqExp", "RelExp", "AddExp", "MulExp"}
  BY DEF BinaryLevel
<1>2. /\ Rank["PrimaryExp"] = 0 /\ Rank["UnaryExp"] = 1 /\ Rank["MulExp"] = 2 /\ Rank["AddExp"] = 3
      /\ Rank["RelExp"] = 4 /\ Rank["EqExp"] = 5 /\ Rank["LAndExp"] = 6 /\ Rank["LOrExp"] = 7
      /\ Rank["Exp"] = 8
  BY DEF Rank
<1>3. \A nt \in DOMAIN BinaryLevel : Rank[nt] \in 2 .. 7 /\ nt \notin {"Exp", "UnaryExp", "PrimaryExp"}
  BY <1>1, <1>2
<1>4. "LOrExp" \in DOMAIN BinaryLevel
  BY DEF BinaryLevel
<1> QED BY <1>2, <1>3, <1>4 DEF ExpNonTerminals

LEMMA SizeFacts ==
  ASSUME NEW i \in Int, NEW j \in Int
  PROVE  /\ Size(i, j) \in Nat
         /\ i <= j => Size(i, j) = j - i + 1
         /\ ~(i <= j) => Size(i, j) = 0
  BY DEF Size

LEMMA LighterBy ==
  ASSUME NEW a, NEW b, Rank[a] \in 0 .. 8, Rank[b] \in 0 .. 8,
         NEW i \in Int, NEW j \in Int, NEW p \in Int, NEW q \in Int,
         Size(p, q) < Size(i, j) \/ (Size(p, q) = Size(i, j) /\ Rank[a] < Rank[b])
  PROVE  Weight(a, p, q) < Weight(b, i, j) /\ Weight(a, p, q) \in Nat /\ Weight(b, i, j) \in Nat
<1>1. Size(p, q) \in Nat /\ Size(i, j) \in Nat
  BY SizeFacts
<1> QED BY <1>1 DEF Weight

LEMMA LowerRank ==
  ASSUME NEW a, NEW b, Rank[a] \in 0 .. 8, Rank[b] \in 0 .. 8, Rank[a] < Rank[b],
         NEW i \in Int, NEW j \in Int
  PROVE  Weight(a, i, j) < Weight(b, i, j)
<1>1. Size(i, j) \in Nat
  BY SizeFacts
<1> QED BY <1>1 DEF Weight

LEMMA WeightFacts ==
  ASSUME NEW n \in Nat, NEW nt, Rank[nt] \in 0 .. 8, NEW i \in 1 .. n + 1, NEW j \in 0 .. n
  PROVE  Weight(nt, i, j) \in 0 .. 9 * n + 8
<1>1. Size(i, j) \in 0 .. n
  BY DEF Size
<1> QED BY <1>1 DEF Weight

LEMMA LevelSpans ==
  ASSUME NEW n \in Nat, NEW nt \in DOMAIN BinaryLevel, NEW i \in 1 .. n + 1, NEW j \in 0 .. n
  PROVE  /\ BinaryLevel[nt].below \in ExpNonTerminals
         /\ Weight(BinaryLevel[nt].below, i, j) < Weight(nt, i, j)
         /\ \A k \in i + 1 .. j - 1 :
              /\ k - 1 \in 0 .. n /\ k + 1 \in 1 .. n + 1 /\ k \in 1 .. n
              /\ Weight(nt, i, k - 1) < Weight(nt, i, j)
              /\ Weight(BinaryLevel[nt].below, k + 1, j) < Weight(nt, i, j)
<1> DEFINE low == BinaryLevel[nt].below
<1>0. i \in Int /\ j \in Int /\ nt \in ExpNonTerminals
  BY RankFacts
<1>1. low \in ExpNonTerminals /\ Rank[low] < Rank[nt]
  <2>1. low \in (DOMAIN BinaryLevel) \cup {"UnaryExp"} /\ Rank[nt] = Rank[low] + 1
    BY LevelFacts
  <2>2. low \in ExpNonTerminals
    BY <2>1, RankFacts
  <2>3. Rank[low] \in 0 .. 8
    BY <2>2, RankFacts
  <2> HIDE DEF low
  <2> QED BY <2>1, <2>2, <2>3
<1> HIDE DEF low
<1>2. Weight(low, i, j) < Weight(nt, i, j)
  BY <1>0, <1>1, LighterBy, RankFacts
<1>3. ASSUME NEW k \in i + 1 .. j - 1
      PROVE  /\ k - 1 \in 0 .. n /\ k + 1 \in 1 .. n + 1 /\ k \in 1 .. n
             /\ Weight(nt, i, k - 1) < Weight(nt, i, j)
             /\ Weight(low, k + 1, j) < Weight(nt, i, j)
  <2>1. k - 1 \in 0 .. n /\ k + 1 \in 1 .. n + 1 /\ k \in 1 .. n /\ k - 1 \in Int /\ k + 1 \in Int
    BY <1>0
  <2>2. Size(i, k - 1) < Size(i, j) /\ Size(k + 1, j) < Size(i, j)
    BY <1>0 DEF Size
  <2>3. Weight(nt, i, k - 1) < Weight(nt, i, j)
    BY <1>0, <2>1, <2>2, LighterBy, RankFacts
  <2>4. Weight(low, k + 1, j) < Weight(nt, i, j)
    BY <1>0, <1>1, <2>1, <2>2, LighterBy, RankFacts
  <2> QED BY <2>1, <2>3, <2>4
<1> QED BY <1>1, <1>2, <1>3 DEF low

LEMMA InnerSpans ==
  ASSUME NEW n \in Nat, NEW i \in 1 .. n + 1, NEW j \in 0 .. n
  PROVE  /\ "LOrExp" \in ExpNonTerminals /\ Weight("LOrExp", i, j) < Weight("Exp", i, j)
         /\ "PrimaryExp" \in ExpNonTerminals /\ Weight("PrimaryExp", i, j) < Weight("UnaryExp", i, j)
         /\ i < j => /\ i + 1 \in 1 .. n + 1 /\ j - 1 \in 0 .. n
                     /\ Weight("UnaryExp", i + 1, j) < Weight("UnaryExp", i, j)
                     /\ Weight("Exp", i + 1, j - 1) < Weight("PrimaryExp", i, j)
<1>1. /\ "LOrExp" \in ExpNonTerminals /\ "Exp" \in ExpNonTerminals /\ "PrimaryExp" \in ExpNonTerminals
      /\ "UnaryExp" \in ExpNonTerminals
      /\ Rank["PrimaryExp"] = 0 /\ Rank["UnaryExp"] = 1 /\ Rank["Exp"] = 8 /\ Rank["LOrExp"] = 7
  BY RankFacts
<1>2. i \in Int /\ j \in Int
  OBVIOUS
<1>3. Weight("LOrExp", i, j) < Weight("Exp", i, j)
  BY <1>1, <1>2, LowerRank
<1>4. Weight("PrimaryExp", i, j) < Weight("UnaryExp", i, j)
  BY <1>1, <1>2, LowerRank
<1>5. ASSUME i < j
      PROVE  /\ i + 1 \in 1 .. n + 1 /\ j - 1 \in 0 .. n
             /\ Weight("UnaryExp", i + 1, j) < Weight("UnaryExp", i, j)
             /\ Weight("Exp", i + 1, j - 1) < Weight("PrimaryExp", i, j)
  <2>1. i + 1 \in 1 .. n + 1 /\ j - 1 \in 0 .. n /\ i + 1 \in Int /\ j - 1 \in Int
    BY <1>5
  <2>2. Size(i + 1, j) < Size(i, j) /\ Size(i + 1, j - 1) < Size(i, j)
    BY <1>2, <1>5 DEF Size
  <2>3. Weight("UnaryExp", i + 1, j) < Weight("UnaryExp", i, j)
    BY <1>1, <1>2, <2>1, <2>2, LighterBy
  <2>4. Weight("Exp", i + 1, j - 1) < Weight("PrimaryExp", i, j)
    BY <1>1, <1>2, <2>1, <2>2, LighterBy
  <2> QED BY <2>1, <2>3, <2>4
<1> QED BY <1>1, <1>3, <1>4, <1>5

\* The alternatives of a level of binary operators.
Applied(D, t, nt, i, j, k) ==
  D[<<nt, i, k - 1>>] ** D[<<BinaryLevel[nt].below, k + 1, j>>]
    ** {<<Visit(nt, BinaryOp(t[k].kind), NoToken)>>}

Alternatives(D, t, nt, i, j) ==
  UNION {Applied(D, t, nt, i, j, k) : k \in Places(t, i + 1, j - 1, BinaryLevel[nt].ops)}

LEMMA LevelIs ==
  ASSUME NEW D, NEW t, NEW nt \in DOMAIN BinaryLevel, NEW i, NEW j
  PROVE  Expression(D, t, nt, i, j) = D[<<BinaryLevel[nt].below, i, j>>] \cup Alternatives(D, t, nt, i, j)
<1> DEFINE low == BinaryLevel[nt].below
           P == Places(t, i + 1, j - 1, BinaryLevel[nt].ops)
           V(k) == {<<Visit(nt, BinaryOp(t[k].kind), NoToken)>>}
<1>1. nt \notin {"Exp", "UnaryExp", "PrimaryExp"}
  BY RankFacts
<1>2. \A k : Sides(nt, i, k, j).left = <<nt, i, k - 1>> /\ Sides(nt, i, k, j).right = <<low, k + 1, j>>
  BY DEF Sides
<1>3. Expression(D, t, nt, i, j) =
        D[<<low, i, j>>] \cup
        UNION {D[Sides(nt, i, k, j).left] ** D[Sides(nt, i, k, j).right] ** V(k) : k \in P}
  BY <1>1 DEF Expression
<1> HIDE DEF P, V, low
<1>4. \A k : D[Sides(nt, i, k, j).left] ** D[Sides(nt, i, k, j).right] ** V(k) = Applied(D, t, nt, i, j, k)
  BY <1>2 DEF Applied, low, V
<1>5. {D[Sides(nt, i, k, j).left] ** D[Sides(nt, i, k, j).right] ** V(k) : k \in P}
      = {Applied(D, t, nt, i, j, k) : k \in P}
  BY <1>4
<1> QED BY <1>3, <1>5 DEF Alternatives, P, low

LEMMA UnaryIs ==
  ASSUME NEW D, NEW t, NEW i, NEW j
  PROVE  Expression(D, t, "UnaryExp", i, j) =
           D[<<"PrimaryExp", i, j>>] \cup
           (IF i < j /\ Is(t, i, UnarySigns)
            THEN D[<<"UnaryExp", i + 1, j>>] ** {<<Visit("UnaryExp", UnaryOp(t[i].kind), NoToken)>>}
            ELSE {})
<1>1. "UnaryExp" \notin DOMAIN BinaryLevel
  BY RankFacts
<1> QED BY <1>1 DEF Expression

LEMMA PrimaryIs ==
  ASSUME NEW D, NEW t, NEW i, NEW j
  PROVE  Expression(D, t, "PrimaryExp", i, j) =
           IF i = j /\ Is(t, i, {"ident"}) THEN VisitsOf("LVal", t[i])
           ELSE IF i = j /\ Is(t, i, {"number"}) THEN VisitsOf("Number", t[i])
           ELSE IF i < j /\ Is(t, i, {"("}) /\ Is(t, j, {")"}) THEN D[<<"Exp", i + 1, j - 1>>]
           ELSE {}
<1>1. "PrimaryExp" \notin DOMAIN BinaryLevel
  BY RankFacts
<1> QED BY <1>1 DEF Expression

LEMMA ExpIs ==
  ASSUME NEW D, NEW t, NEW i, NEW j
  PROVE  Expression(D, t, "Exp", i, j) = D[<<"LOrExp", i, j>>]
<1>1. "Exp" \notin DOMAIN BinaryLevel
  BY RankFacts
<1> QED BY <1>1 DEF Expression

\* What the productions refer to, by the same name: the same is derived.
LEMMA ExpressionSame ==
  ASSUME NEW t, Len(t) \in Nat, NEW nt \in ExpNonTerminals, NEW i \in 1 .. Len(t) + 1, NEW j \in 0 .. Len(t),
         NEW D, NEW E,
         \A m \in ExpNonTerminals, p \in 1 .. Len(t) + 1, q \in 0 .. Len(t) :
           Weight(m, p, q) < Weight(nt, i, j) => D[<<m, p, q>>] = E[<<m, p, q>>]
  PROVE  Expression(D, t, nt, i, j) = Expression(E, t, nt, i, j)
<1> DEFINE N == Len(t)
<1>1. {"Exp", "UnaryExp", "PrimaryExp"} \subseteq ExpNonTerminals
  BY RankFacts
<1>2. CASE nt = "Exp"
  <2>1. "LOrExp" \in ExpNonTerminals /\ Weight("LOrExp", i, j) < Weight("Exp", i, j)
    BY InnerSpans
  <2>2. D[<<"LOrExp", i, j>>] = E[<<"LOrExp", i, j>>]
    BY <1>2, <2>1
  <2> QED BY <1>2, <2>2, ExpIs
<1>3. CASE nt \in DOMAIN BinaryLevel
  <2> DEFINE low == BinaryLevel[nt].below
             P == Places(t, i + 1, j - 1, BinaryLevel[nt].ops)
  <2>1. /\ low \in ExpNonTerminals /\ Weight(low, i, j) < Weight(nt, i, j)
        /\ \A k \in i + 1 .. j - 1 :
             /\ k - 1 \in 0 .. N /\ k + 1 \in 1 .. N + 1
             /\ Weight(nt, i, k - 1) < Weight(nt, i, j)
             /\ Weight(low, k + 1, j) < Weight(nt, i, j)
    BY <1>3, LevelSpans
  <2> HIDE DEF low
  <2>2. D[<<low, i, j>>] = E[<<low, i, j>>]
    BY <2>1
  <2>3. ASSUME NEW k \in P
        PROVE  D[<<nt, i, k - 1>>] = E[<<nt, i, k - 1>>] /\ D[<<low, k + 1, j>>] = E[<<low, k + 1, j>>]
    <3>1. k \in i + 1 .. j - 1
      BY DEF Places
    <3> QED BY <2>1, <3>1
  <2>4. \A k \in P : Applied(D, t, nt, i, j, k) = Applied(E, t, nt, i, j, k)
    <3> HIDE DEF P
    <3> QED BY <2>3 DEF Applied, low
  <2>5. Alternatives(D, t, nt, i, j) = Alternatives(E, t, nt, i, j)
    BY <2>4 DEF Alternatives
  <2> HIDE DEF P
  <2>6. Expression(D, t, nt, i, j) = D[<<BinaryLevel[nt].below, i, j>>] \cup Alternatives(D, t, nt, i, j)
    BY <1>3, LevelIs
  <2>7. Expression(E, t, nt, i, j) = E[<<BinaryLevel[nt].below, i, j>>] \cup Alternatives(E, t, nt, i, j)
    BY <1>3, LevelIs
  <2> QED BY <2>2, <2>5, <2>6, <2>7 DEF low
<1>4. CASE nt = "UnaryExp"
  <2>1. /\ Weight("PrimaryExp", i, j) < Weight("UnaryExp", i, j)
        /\ i < j => i + 1 \in 1 .. N + 1 /\ Weight("UnaryExp", i + 1, j) < Weight("UnaryExp", i, j)
    BY InnerSpans
  <2>2. D[<<"PrimaryExp", i, j>>] = E[<<"PrimaryExp", i, j>>]
    BY <1>1, <1>4, <2>1
  <2>3. i < j => D[<<"UnaryExp", i + 1, j>>] = E[<<"UnaryExp", i + 1, j>>]
    BY <1>1, <1>4, <2>1
  <2>4. nt \notin DOMAIN BinaryLevel
    BY <1>4, RankFacts
  <2> QED BY <1>4, <2>2, <2>3, <2>4 DEF Expression
<1>5. CASE nt = "PrimaryExp"
  <2>1. i < j => /\ i + 1 \in 1 .. N + 1 /\ j - 1 \in 0 .. N
                 /\ Weight("Exp", i + 1, j - 1) < Weight("PrimaryExp", i, j)
    BY InnerSpans
  <2>2. i < j => D[<<"Exp", i + 1, j - 1>>] = E[<<"Exp", i + 1, j - 1>>]
    BY <1>1, <1>5, <2>1
  <2>3. nt \notin DOMAIN BinaryLevel
    BY <1>5, RankFacts
  <2> QED BY <1>5, <2>2, <2>3 DEF Expression
<1> QED BY <1>2, <1>3, <1>4, <1>5 DEF ExpNonTerminals

\* D is what the nonterminals derive from t, where they weigh less than w.
DerivesBelow(D, t, w) ==
  \A nt \in ExpNonTerminals, i \in 1 .. Len(t) + 1, j \in 0 .. Len(t) :
    Weight(nt, i, j) < w => D[<<nt, i, j>>] = Expression(D, t, nt, i, j)
Derives(D, t) ==
  \A nt \in ExpNonTerminals, i \in 1 .. Len(t) + 1, j \in 0 .. Len(t) :
    D[<<nt, i, j>>] = Expression(D, t, nt, i, j)

LEMMA SpanFacts ==
  ASSUME NEW t, NEW s \in ExpSpans(t)
  PROVE  /\ s[1] \in ExpNonTerminals /\ s[2] \in 1 .. Len(t) + 1 /\ s[3] \in 0 .. Len(t)
         /\ s = <<s[1], s[2], s[3]>>
  BY DEF ExpSpans

LEMMA DerivesExists ==
  ASSUME NEW t, Len(t) \in Nat
  PROVE  \E D : DerivesBelow(D, t, 9 * Len(t) + 9)
<1> DEFINE N == Len(t)
           M == 9 * N + 9
           S == {w \in 0 .. M : \E D : DerivesBelow(D, t, w)}
<1>1. N \in Nat /\ M \in Nat
  OBVIOUS
<1>2. 0 \in S
  <2>1. 0 \in 0 .. M
    BY <1>1
  <2>2. ASSUME NEW nt \in ExpNonTerminals, NEW i \in 1 .. N + 1, NEW j \in 0 .. N
        PROVE  ~(Weight(nt, i, j) < 0)
    <3>1. Weight(nt, i, j) \in 0 .. 9 * N + 8
      BY <1>1, WeightFacts, RankFacts
    <3> QED BY <3>1
  <2>3. DerivesBelow({}, t, 0)
    BY <2>2 DEF DerivesBelow
  <2> QED BY <2>1, <2>3
<1>3. ASSUME NEW w \in 0 .. M - 1, w \in S PROVE w + 1 \in S
  <2>1. PICK D : DerivesBelow(D, t, w)
    BY <1>3
  <2> DEFINE E == [s \in ExpSpans(t) |-> IF Weight(s[1], s[2], s[3]) = w
                                         THEN Expression(D, t, s[1], s[2], s[3]) ELSE D[s]]
  <2>2. ASSUME NEW nt \in ExpNonTerminals, NEW i \in 1 .. N + 1, NEW j \in 0 .. N
        PROVE  E[<<nt, i, j>>] = IF Weight(nt, i, j) = w THEN Expression(D, t, nt, i, j) ELSE D[<<nt, i, j>>]
    <3> DEFINE s == <<nt, i, j>>
    <3>1. s \in ExpSpans(t) /\ s[1] = nt /\ s[2] = i /\ s[3] = j
      BY DEF ExpSpans
    <3> HIDE DEF s
    <3>2. E[s] = IF Weight(nt, i, j) = w THEN Expression(D, t, nt, i, j) ELSE D[s]
      BY <3>1
    <3> QED BY <3>2 DEF s
  <2> HIDE DEF E
  <2>3. ASSUME NEW nt \in ExpNonTerminals, NEW i \in 1 .. N + 1, NEW j \in 0 .. N, Weight(nt, i, j) < w + 1
        PROVE  E[<<nt, i, j>>] = Expression(E, t, nt, i, j)
    <3>1. Weight(nt, i, j) \in 0 .. 9 * N + 8 /\ w \in Int
      BY <1>1, WeightFacts, RankFacts
    <3>2. ASSUME NEW m \in ExpNonTerminals, NEW p \in 1 .. N + 1, NEW q \in 0 .. N,
                 Weight(m, p, q) < Weight(nt, i, j)
          PROVE  D[<<m, p, q>>] = E[<<m, p, q>>]
      <4>1. Weight(m, p, q) \in 0 .. 9 * N + 8
        BY <1>1, WeightFacts, RankFacts
      <4>2. Weight(m, p, q) # w
        BY <2>3, <3>1, <3>2, <4>1
      <4> QED BY <2>2, <4>2
    <3>3. Expression(D, t, nt, i, j) = Expression(E, t, nt, i, j)
      BY <1>1, <3>2, ExpressionSame
    <3>4. CASE Weight(nt, i, j) = w
      BY <2>2, <3>3, <3>4
    <3>5. CASE Weight(nt, i, j) # w
      <4>1. Weight(nt, i, j) < w
        BY <2>3, <3>1, <3>5
      <4>2. D[<<nt, i, j>>] = Expression(D, t, nt, i, j)
        BY <2>1, <4>1 DEF DerivesBelow
      <4> QED BY <2>2, <3>3, <3>5, <4>2
    <3> QED BY <3>4, <3>5
  <2>4. DerivesBelow(E, t, w + 1)
    BY <2>3 DEF DerivesBelow
  <2>5. w + 1 \in 0 .. M
    BY <1>1
  <2> QED BY <2>4, <2>5
<1>4. \A w \in 0 .. M : w \in S
  <2> HIDE DEF S, M
  <2> QED BY <1>1, <1>2, <1>3, Upwards
<1>5. M \in S
  <2>1. M \in 0 .. M
    BY <1>1
  <2> HIDE DEF S, M
  <2> QED BY <1>4, <2>1
<1> QED BY <1>5

LEMMA ExpressionsDerive ==
  ASSUME NEW t, Len(t) \in Nat
  PROVE  Derives(Expressions(t), t)
<1> DEFINE N == Len(t)
           D == CHOOSE f : f = [s \in ExpNonTerminals \X (1 .. Len(t) + 1) \X (0 .. Len(t)) |->
                                  Expression(f, t, s[1], s[2], s[3])]
<1>1. Expressions(t) = D
  BY DEF Expressions
<1>2. \E f : f = [s \in ExpNonTerminals \X (1 .. Len(t) + 1) \X (0 .. Len(t)) |->
                    Expression(f, t, s[1], s[2], s[3])]
  <2>1. PICK d : DerivesBelow(d, t, 9 * N + 9)
    BY DerivesExists
  <2> DEFINE f == [s \in ExpSpans(t) |-> d[s]]
  <2>2. \A nt \in ExpNonTerminals, i \in 1 .. N + 1, j \in 0 .. N : d[<<nt, i, j>>] = f[<<nt, i, j>>]
    BY DEF ExpSpans
  <2>3. ASSUME NEW s \in ExpSpans(t) PROVE d[s] = Expression(f, t, s[1], s[2], s[3])
    <3> HIDE DEF f
    <3>1. s[1] \in ExpNonTerminals /\ s[2] \in 1 .. N + 1 /\ s[3] \in 0 .. N /\ s = <<s[1], s[2], s[3]>>
      BY SpanFacts
    <3> DEFINE nt == s[1]
               i == s[2]
               j == s[3]
    <3>2. nt \in ExpNonTerminals /\ i \in 1 .. N + 1 /\ j \in 0 .. N /\ s = <<nt, i, j>>
      BY <3>1
    <3> HIDE DEF nt, i, j
    <3>3. Weight(nt, i, j) \in 0 .. 9 * N + 8
      BY <3>2, WeightFacts, RankFacts
    <3>4. Weight(nt, i, j) < 9 * N + 9
      BY <3>3
    <3>5. d[<<nt, i, j>>] = Expression(d, t, nt, i, j)
      BY <2>1, <3>2, <3>4 DEF DerivesBelow
    <3>6. Expression(d, t, nt, i, j) = Expression(f, t, nt, i, j)
      BY <2>2, <3>2, ExpressionSame
    <3> QED BY <3>2, <3>5, <3>6 DEF nt, i, j
  <2>4. f = [s \in ExpSpans(t) |-> Expression(f, t, s[1], s[2], s[3])]
    <3> DEFINE h == [s \in ExpSpans(t) |-> Expression(f, t, s[1], s[2], s[3])]
    <3>1. \A s \in ExpSpans(t) : d[s] = Expression(f, t, s[1], s[2], s[3])
      BY <2>3
    <3>2. [s \in ExpSpans(t) |-> d[s]] = h
      <4> HIDE DEF f
      <4> QED BY <3>1
    <3> QED BY <3>2
  <2> HIDE DEF f
  <2>5. f = [s \in ExpNonTerminals \X (1 .. Len(t) + 1) \X (0 .. Len(t)) |->
               Expression(f, t, s[1], s[2], s[3])]
    BY <2>4 DEF ExpSpans
  <2> QED BY <2>5
<1>3. D = [s \in ExpNonTerminals \X (1 .. Len(t) + 1) \X (0 .. Len(t)) |->
             Expression(D, t, s[1], s[2], s[3])]
  BY <1>2
<1> HIDE DEF D
<1>4. ASSUME NEW nt \in ExpNonTerminals, NEW i \in 1 .. N + 1, NEW j \in 0 .. N
      PROVE  D[<<nt, i, j>>] = Expression(D, t, nt, i, j)
  <2> DEFINE s == <<nt, i, j>>
  <2>1. s \in ExpNonTerminals \X (1 .. Len(t) + 1) \X (0 .. Len(t)) /\ s[1] = nt /\ s[2] = i /\ s[3] = j
    OBVIOUS
  <2> HIDE DEF s
  <2>2. D[s] = Expression(D, t, s[1], s[2], s[3])
    BY <1>3, <2>1
  <2> QED BY <2>1, <2>2 DEF s
<1> QED BY <1>1, <1>4 DEF Derives

-----------------------------------------------------------------------------
(* C's reading of expressions.                                             *)

LEMMA SignFacts ==
  ASSUME NEW sign \in BinarySigns
  PROVE  /\ LevelOf(sign) \in DOMAIN BinaryLevel /\ sign \in BinaryLevel[LevelOf(sign)].ops
         /\ CPrecedence(sign) \in 1 .. 6 /\ CPrecedence(sign) = 8 - Rank[LevelOf(sign)]
         /\ sign \notin {"(", ")", "ident", "number"}
         /\ \A nt \in DOMAIN BinaryLevel :
              sign \in BinaryLevel[nt].ops <=> CPrecedence(sign) = 8 - Rank[nt]
         /\ \A nt \in DOMAIN BinaryLevel : sign \in BinaryLevel[nt].ops => LevelOf(sign) = nt
<1> DEFINE l == LevelOf(sign)
<1>1. l \in DOMAIN BinaryLevel /\ sign \in BinaryLevel[l].ops
  <2>1. \E m \in DOMAIN BinaryLevel : sign \in BinaryLevel[m].ops
    BY DEF BinarySigns
  <2> QED BY <2>1 DEF LevelOf
<1> HIDE DEF l
<1>2. CPrecedence(sign) = 8 - Rank[l] /\ sign \notin {"(", ")", "ident", "number"} /\ Rank[l] \in 2 .. 7
  BY <1>1, LevelFacts, RankFacts
<1>3. CPrecedence(sign) \in 1 .. 6
  BY <1>2
<1>4. ASSUME NEW m \in DOMAIN BinaryLevel, Rank[l] = Rank[m] PROVE l = m
  <2>1. /\ Rank["MulExp"] = 2 /\ Rank["AddExp"] = 3 /\ Rank["RelExp"] = 4
        /\ Rank["EqExp"] = 5 /\ Rank["LAndExp"] = 6 /\ Rank["LOrExp"] = 7
    BY DEF Rank
  <2>2. \A nt \in DOMAIN BinaryLevel : nt \in {"LOrExp", "LAndExp", "EqExp", "RelExp", "AddExp", "MulExp"}
    BY DEF BinaryLevel
  <2> QED BY <1>1, <1>4, <2>1, <2>2
<1>5. ASSUME NEW nt \in DOMAIN BinaryLevel
      PROVE  /\ sign \in BinaryLevel[nt].ops <=> CPrecedence(sign) = 8 - Rank[nt]
             /\ sign \in BinaryLevel[nt].ops => l = nt
  <2>1. Rank[nt] \in 2 .. 7
    BY RankFacts
  <2>2. sign \in BinaryLevel[nt].ops => CPrecedence(sign) = 8 - Rank[nt]
    BY LevelFacts
  <2>3. CPrecedence(sign) = 8 - Rank[nt] => Rank[l] = Rank[nt]
    BY <1>2, <2>1
  <2> QED BY <1>1, <1>4, <2>2, <2>3
<1> QED BY <1>1, <1>2, <1>3, <1>5 DEF l

Precedence(t, k)   == CPrecedence(t[k].kind)
LastApplied(t, i, j) ==
  {k \in Binaries(t, i, j) : \A m \in Binaries(t, i, j) : Precedence(t, k) <= Precedence(t, m)}
Root(t, i, j) == Max(LastApplied(t, i, j))

LEMMA BinaryFacts ==
  ASSUME NEW S, NEW t \in Seq(S), NEW i \in 1 .. Len(t) + 1, NEW j \in 0 .. Len(t), NEW k \in Binaries(t, i, j)
  PROVE  /\ k \in i + 1 .. j /\ k \in 1 .. Len(t) /\ i < j
         /\ t[k].kind \in BinarySigns /\ Precedence(t, k) \in 1 .. 6
         /\ t[k - 1].kind \in {"ident", "number", ")"} /\ Depth(t, i, k) = 0
<1>1. /\ k \in i + 1 .. j /\ Is(t, k, BinarySigns) /\ Is(t, k - 1, {"ident", "number", ")"})
      /\ Depth(t, i, k) = 0
  BY DEF Binaries, Places
<1>2. k \in 1 .. Len(t) /\ i < j
  BY <1>1
<1>3. t[k].kind \in BinarySigns /\ t[k - 1].kind \in {"ident", "number", ")"}
  BY <1>1 DEF Is
<1> QED BY <1>1, <1>2, <1>3, SignFacts DEF Precedence

LEMMA RootFacts ==
  ASSUME NEW S, NEW t \in Seq(S), NEW i \in 1 .. Len(t) + 1, NEW j \in 0 .. Len(t)
  PROVE  /\ LastApplied(t, i, j) = {} <=> Binaries(t, i, j) = {}
         /\ Binaries(t, i, j) # {} =>
              /\ Root(t, i, j) \in Binaries(t, i, j)
              /\ \A m \in Binaries(t, i, j) :
                   /\ Precedence(t, Root(t, i, j)) <= Precedence(t, m)
                   /\ m > Root(t, i, j) => Precedence(t, Root(t, i, j)) < Precedence(t, m)
<1> DEFINE B == Binaries(t, i, j)
           L == LastApplied(t, i, j)
           r == Root(t, i, j)
<1>1. L \subseteq B
  BY DEF LastApplied
<1> SUFFICES ASSUME B # {}
             PROVE  /\ L # {} /\ r \in B
                    /\ \A m \in B : /\ Precedence(t, r) <= Precedence(t, m)
                                    /\ m > r => Precedence(t, r) < Precedence(t, m)
  BY <1>1
<1>2. \A k \in B : k \in 1 .. Len(t) /\ Precedence(t, k) \in 1 .. 6
  BY BinaryFacts
<1>3. L # {}
  <2> DEFINE P == {Precedence(t, k) : k \in B}
  <2>1. P \in SUBSET Nat /\ P # {}
    <3>1. \A k \in B : Precedence(t, k) \in Nat
      <4>1. 1 .. 6 \subseteq Nat
        OBVIOUS
      <4> QED BY <1>2, <4>1
    <3> HIDE DEF B
    <3> QED BY <3>1
  <2>2. Min(P) \in P /\ \A y \in P : Min(P) <= y
    <3> HIDE DEF P
    <3> QED BY <2>1, LeastPlace
  <2>3. PICK k \in B : Min(P) = Precedence(t, k)
    BY <2>2
  <2>4. \A m \in B : Precedence(t, k) <= Precedence(t, m)
    <3> SUFFICES ASSUME NEW m \in B PROVE Precedence(t, k) <= Precedence(t, m)
      OBVIOUS
    <3>1. Precedence(t, m) \in P
      OBVIOUS
    <3> HIDE DEF P, B
    <3> QED BY <2>2, <2>3, <3>1
  <2>5. k \in L
    BY <2>4 DEF LastApplied
  <2> QED BY <2>5
<1>4. r \in L /\ \A y \in L : r >= y
  <2>1. L \in SUBSET (0 .. Len(t)) /\ Len(t) \in Nat
    <3>1. 1 .. Len(t) \subseteq 0 .. Len(t) /\ Len(t) \in Nat
      OBVIOUS
    <3> HIDE DEF L, B
    <3> QED BY <1>1, <1>2, <3>1
  <2> HIDE DEF L
  <2>2. Max(L) \in L /\ \A y \in L : Max(L) >= y
    BY <1>3, <2>1, LastPlace
  <2> QED BY <2>2 DEF Root, L
<1>5. \A m \in B : Precedence(t, r) <= Precedence(t, m)
  BY <1>4 DEF LastApplied
<1>6. ASSUME NEW m \in B, m > r PROVE Precedence(t, r) < Precedence(t, m)
  <2>1. r \in 1 .. Len(t) /\ m \in 1 .. Len(t)
    BY <1>1, <1>2, <1>4
  <2>2. m \notin L
    <3> HIDE DEF L, r
    <3> QED BY <1>4, <1>6, <2>1
  <2>3. PICK x \in B : ~(Precedence(t, m) <= Precedence(t, x))
    BY <2>2 DEF LastApplied
  <2>4. Precedence(t, m) \in Int /\ Precedence(t, x) \in Int /\ Precedence(t, r) \in Int
    <3>1. \A y \in 1 .. 6 : y \in Int
      OBVIOUS
    <3> QED BY <1>1, <1>2, <1>4, <3>1
  <2>5. Precedence(t, r) <= Precedence(t, x)
    BY <1>5
  <2> HIDE DEF B, r
  <2> QED BY <2>3, <2>4, <2>5
<1> QED BY <1>1, <1>3, <1>4, <1>5, <1>6

\* The cases of Reading, named.
ReadingOf(C, t, i, j) ==
  IF i > j THEN {}
  ELSE IF LastApplied(t, i, j) # {}
  THEN C[<<i, Root(t, i, j) - 1>>] ** C[<<Root(t, i, j) + 1, j>>]
         ** {<<Visit(LevelOf(t[Root(t, i, j)].kind), BinaryOp(t[Root(t, i, j)].kind), NoToken)>>}
  ELSE IF Is(t, i, UnarySigns)
  THEN C[<<i + 1, j>>] ** {<<Visit("UnaryExp", UnaryOp(t[i].kind), NoToken)>>}
  ELSE IF Is(t, i, {"("}) /\ Is(t, j, {")"}) THEN C[<<i + 1, j - 1>>]
  ELSE IF i = j /\ Is(t, i, {"ident"}) THEN VisitsOf("LVal", t[i])
  ELSE IF i = j /\ Is(t, i, {"number"}) THEN VisitsOf("Number", t[i])
  ELSE {}

LEMMA ReadingIs ==
  ASSUME NEW C, NEW t, NEW i, NEW j
  PROVE  Reading(C, t, i, j) = ReadingOf(C, t, i, j)
  BY DEF Reading, ReadingOf, LastApplied, Root, Precedence

LEMMA ReadingSame ==
  ASSUME NEW S, NEW t \in Seq(S), NEW i \in 1 .. Len(t) + 1, NEW j \in 0 .. Len(t), NEW C, NEW E,
         \A p \in 1 .. Len(t) + 1, q \in 0 .. Len(t) : Size(p, q) < Size(i, j) => C[<<p, q>>] = E[<<p, q>>]
  PROVE  Reading(C, t, i, j) = Reading(E, t, i, j)
<1> DEFINE N == Len(t)
           r == Root(t, i, j)
<1>1. CASE i > j
  BY <1>1, ReadingIs DEF ReadingOf
<1>2. CASE ~(i > j)
  <2>1. i \in Int /\ j \in Int /\ i <= j /\ N \in Nat
    BY <1>2
  <2>2. Size(i, j) = j - i + 1
    BY <2>1, SizeFacts
  <2>3. C[<<i + 1, j>>] = E[<<i + 1, j>>] /\ C[<<i + 1, j - 1>>] = E[<<i + 1, j - 1>>]
    <3>1. i + 1 \in 1 .. N + 1 /\ j - 1 \in 0 .. N
      BY <2>1
    <3>2. Size(i + 1, j) < Size(i, j) /\ Size(i + 1, j - 1) < Size(i, j)
      BY <2>1, <2>2 DEF Size
    <3> QED BY <3>1, <3>2
  <2>4. ASSUME LastApplied(t, i, j) # {}
        PROVE  C[<<i, r - 1>>] = E[<<i, r - 1>>] /\ C[<<r + 1, j>>] = E[<<r + 1, j>>]
    <3>1. r \in i + 1 .. j
      <4>1. r \in Binaries(t, i, j)
        BY <2>4, RootFacts
      <4> QED BY <4>1, BinaryFacts
    <3> HIDE DEF r
    <3>2. r - 1 \in 0 .. N /\ r + 1 \in 1 .. N + 1
      BY <2>1, <3>1
    <3>3. Size(i, r - 1) < Size(i, j) /\ Size(r + 1, j) < Size(i, j)
      BY <2>1, <2>2, <3>1 DEF Size
    <3> QED BY <3>2, <3>3
  <2>5. ReadingOf(C, t, i, j) = ReadingOf(E, t, i, j)
    BY <2>3, <2>4 DEF ReadingOf
  <2> QED BY <2>5, ReadingIs
<1> QED BY <1>1, <1>2

ReadsBelow(C, t, w) ==
  \A i \in 1 .. Len(t) + 1, j \in 0 .. Len(t) : Size(i, j) < w => C[<<i, j>>] = Reading(C, t, i, j)
Reads(C, t) ==
  \A i \in 1 .. Len(t) + 1, j \in 0 .. Len(t) : C[<<i, j>>] = Reading(C, t, i, j)

LEMMA ReadsExists ==
  ASSUME NEW S, NEW t \in Seq(S)
  PROVE  \E C : ReadsBelow(C, t, Len(t) + 1)
<1> DEFINE N == Len(t)
           M == N + 1
           T == {w \in 0 .. M : \E C : ReadsBelow(C, t, w)}
<1>1. N \in Nat /\ M \in Nat
  OBVIOUS
<1>s. ASSUME NEW i \in 1 .. N + 1, NEW j \in 0 .. N PROVE Size(i, j) \in Nat
  BY SizeFacts
<1>2. 0 \in T
  <2>1. 0 \in 0 .. M
    BY <1>1
  <2>2. ASSUME NEW i \in 1 .. N + 1, NEW j \in 0 .. N PROVE ~(Size(i, j) < 0)
    <3>1. Size(i, j) \in Nat
      BY <1>s
    <3> QED BY <3>1
  <2>3. ReadsBelow({}, t, 0)
    BY <2>2 DEF ReadsBelow
  <2> QED BY <2>1, <2>3
<1>3. ASSUME NEW w \in 0 .. M - 1, w \in T PROVE w + 1 \in T
  <2>1. PICK C : ReadsBelow(C, t, w)
    BY <1>3
  <2> DEFINE E == [s \in Spans(t) |-> IF Size(s[1], s[2]) = w THEN Reading(C, t, s[1], s[2]) ELSE C[s]]
  <2>2. ASSUME NEW i \in 1 .. N + 1, NEW j \in 0 .. N
        PROVE  E[<<i, j>>] = IF Size(i, j) = w THEN Reading(C, t, i, j) ELSE C[<<i, j>>]
    <3> DEFINE s == <<i, j>>
    <3>1. s \in Spans(t) /\ s[1] = i /\ s[2] = j
      BY DEF Spans
    <3> HIDE DEF s
    <3>2. E[s] = IF Size(i, j) = w THEN Reading(C, t, i, j) ELSE C[s]
      BY <3>1
    <3> QED BY <3>2 DEF s
  <2> HIDE DEF E
  <2>3. ASSUME NEW i \in 1 .. N + 1, NEW j \in 0 .. N, Size(i, j) < w + 1
        PROVE  E[<<i, j>>] = Reading(E, t, i, j)
    <3>1. Size(i, j) \in Nat /\ w \in Int
      BY <1>s
    <3>2. ASSUME NEW p \in 1 .. N + 1, NEW q \in 0 .. N, Size(p, q) < Size(i, j)
          PROVE  C[<<p, q>>] = E[<<p, q>>]
      <4>1. Size(p, q) \in Nat
        BY <1>s
      <4>2. Size(p, q) # w
        BY <2>3, <3>1, <3>2, <4>1
      <4> QED BY <2>2, <4>2
    <3>3. Reading(C, t, i, j) = Reading(E, t, i, j)
      BY <3>2, ReadingSame
    <3>4. CASE Size(i, j) = w
      BY <2>2, <3>3, <3>4
    <3>5. CASE Size(i, j) # w
      <4>1. Size(i, j) < w
        BY <2>3, <3>1, <3>5
      <4>2. C[<<i, j>>] = Reading(C, t, i, j)
        BY <2>1, <4>1 DEF ReadsBelow
      <4> QED BY <2>2, <3>3, <3>5, <4>2
    <3> QED BY <3>4, <3>5
  <2>4. ReadsBelow(E, t, w + 1)
    BY <2>3 DEF ReadsBelow
  <2>5. w + 1 \in 0 .. M
    BY <1>1
  <2> QED BY <2>4, <2>5
<1>4. \A w \in 0 .. M : w \in T
  <2> HIDE DEF T, M
  <2> QED BY <1>1, <1>2, <1>3, Upwards
<1>5. M \in T
  <2>1. M \in 0 .. M
    BY <1>1
  <2> HIDE DEF T, M
  <2> QED BY <1>4, <2>1
<1> QED BY <1>5

LEMMA CReadingIs ==
  ASSUME NEW S, NEW t \in Seq(S)
  PROVE  \E C : Reads(C, t) /\ CReading(t) = C[<<1, Len(t)>>]
<1> DEFINE N == Len(t)
           C == CHOOSE f : f = [s \in (1 .. Len(t) + 1) \X (0 .. Len(t)) |-> Reading(f, t, s[1], s[2])]
<1>1. CReading(t) = C[<<1, Len(t)>>]
  BY DEF CReading
<1>2. \E f : f = [s \in (1 .. Len(t) + 1) \X (0 .. Len(t)) |-> Reading(f, t, s[1], s[2])]
  <2>1. PICK d : ReadsBelow(d, t, N + 1)
    BY ReadsExists
  <2> DEFINE f == [s \in Spans(t) |-> d[s]]
  <2>2. \A i \in 1 .. N + 1, j \in 0 .. N : d[<<i, j>>] = f[<<i, j>>]
    BY DEF Spans
  <2>3. ASSUME NEW s \in Spans(t) PROVE d[s] = Reading(f, t, s[1], s[2])
    <3> HIDE DEF f
    <3> DEFINE i == s[1]
               j == s[2]
    <3>1. i \in 1 .. N + 1 /\ j \in 0 .. N /\ s = <<i, j>>
      BY DEF Spans
    <3> HIDE DEF i, j
    <3>2. Size(i, j) < N + 1
      BY <3>1 DEF Size
    <3>3. d[<<i, j>>] = Reading(d, t, i, j)
      BY <2>1, <3>1, <3>2 DEF ReadsBelow
    <3>4. Reading(d, t, i, j) = Reading(f, t, i, j)
      BY <2>2, <3>1, ReadingSame
    <3> QED BY <3>1, <3>3, <3>4 DEF i, j
  <2>4. f = [s \in Spans(t) |-> Reading(f, t, s[1], s[2])]
    <3> DEFINE h == [s \in Spans(t) |-> Reading(f, t, s[1], s[2])]
    <3>1. \A s \in Spans(t) : d[s] = Reading(f, t, s[1], s[2])
      BY <2>3
    <3>2. [s \in Spans(t) |-> d[s]] = h
      <4> HIDE DEF f
      <4> QED BY <3>1
    <3> QED BY <3>2
  <2> HIDE DEF f
  <2>5. f = [s \in (1 .. Len(t) + 1) \X (0 .. Len(t)) |-> Reading(f, t, s[1], s[2])]
    BY <2>4 DEF Spans
  <2> QED BY <2>5
<1>3. C = [s \in (1 .. Len(t) + 1) \X (0 .. Len(t)) |-> Reading(C, t, s[1], s[2])]
  BY <1>2
<1> HIDE DEF C
<1>4. ASSUME NEW i \in 1 .. N + 1, NEW j \in 0 .. N PROVE C[<<i, j>>] = Reading(C, t, i, j)
  <2> DEFINE s == <<i, j>>
  <2>1. s \in (1 .. Len(t) + 1) \X (0 .. Len(t)) /\ s[1] = i /\ s[2] = j
    OBVIOUS
  <2> HIDE DEF s
  <2>2. C[s] = Reading(C, t, s[1], s[2])
    BY <1>3, <2>1
  <2> QED BY <2>1, <2>2 DEF s
<1> QED BY <1>1, <1>4 DEF Reads

-----------------------------------------------------------------------------
(* How deep in parentheses a token is.                                     *)

LEMMA PlacesFinite ==
  ASSUME NEW t, NEW i \in Int, NEW j \in Int, NEW K
  PROVE  IsFiniteSet(Places(t, i, j, K)) /\ Cardinality(Places(t, i, j, K)) \in Nat
<1>1. IsFiniteSet(i .. j)
  BY FS_Interval
<1>2. Places(t, i, j, K) \subseteq i .. j
  BY DEF Places
<1>3. IsFiniteSet(Places(t, i, j, K))
  BY <1>1, <1>2, FS_Subset
<1> QED BY <1>3, FS_CardinalityType

LEMMA PlacesSplit ==
  ASSUME NEW t, NEW i \in Int, NEW k \in Int, NEW j \in Int, i - 1 <= k, k <= j, NEW K
  PROVE  Cardinality(Places(t, i, j, K))
         = Cardinality(Places(t, i, k, K)) + Cardinality(Places(t, k + 1, j, K))
<1> DEFINE A == Places(t, i, k, K)
           B == Places(t, k + 1, j, K)
<1>1. k + 1 \in Int /\ (i .. j) = (i .. k) \cup (k + 1 .. j) /\ (i .. k) \cap (k + 1 .. j) = {}
  OBVIOUS
<1>2. Places(t, i, j, K) = A \cup B
  BY <1>1 DEF Places
<1>3. A \cap B = {}
  BY <1>1 DEF Places
<1>4. IsFiniteSet(A) /\ Cardinality(A) \in Nat
  BY PlacesFinite
<1>5. IsFiniteSet(B) /\ Cardinality(B) \in Nat
  BY <1>1, PlacesFinite
<1> HIDE DEF A, B
<1>6. Cardinality(A \cup B) = Cardinality(A) + Cardinality(B) - Cardinality(A \cap B)
  BY <1>4, <1>5, FS_Union
<1>7. Cardinality(A \cap B) = 0
  BY <1>3, FS_EmptySet
<1> QED BY <1>2, <1>4, <1>5, <1>6, <1>7 DEF A, B

LEMMA DepthType ==
  ASSUME NEW t, NEW i \in Int, NEW j \in Int
  PROVE  Depth(t, i, j) \in Int
<1>1. Cardinality(Places(t, i, j, {"("})) \in Nat /\ Cardinality(Places(t, i, j, {")"})) \in Nat
  BY PlacesFinite
<1> QED BY <1>1 DEF Depth

LEMMA DepthSplit ==
  ASSUME NEW t, NEW i \in Int, NEW k \in Int, NEW j \in Int, i - 1 <= k, k <= j
  PROVE  Depth(t, i, j) = Depth(t, i, k) + Depth(t, k + 1, j)
<1> DEFINE c(p, q, kind) == Cardinality(Places(t, p, q, {kind}))
<1>0. k + 1 \in Int
  OBVIOUS
<1>1. /\ c(i, j, "(") \in Nat /\ c(i, k, "(") \in Nat /\ c(k + 1, j, "(") \in Nat
      /\ c(i, j, ")") \in Nat /\ c(i, k, ")") \in Nat /\ c(k + 1, j, ")") \in Nat
  BY <1>0, PlacesFinite
<1>2. c(i, j, "(") = c(i, k, "(") + c(k + 1, j, "(")
  BY PlacesSplit
<1>3. c(i, j, ")") = c(i, k, ")") + c(k + 1, j, ")")
  BY PlacesSplit
<1>4. Depth(t, i, j) = c(i, j, "(") - c(i, j, ")") /\ Depth(t, i, k) = c(i, k, "(") - c(i, k, ")")
      /\ Depth(t, k + 1, j) = c(k + 1, j, "(") - c(k + 1, j, ")")
  BY DEF Depth
<1> HIDE DEF c
<1> QED BY <1>1, <1>2, <1>3, <1>4

LEMMA OnePlace ==
  ASSUME NEW t, NEW i \in Int, NEW kind
  PROVE  Cardinality(Places(t, i, i, {kind})) = IF Is(t, i, {kind}) THEN 1 ELSE 0
<1>1. i .. i = {i}
  OBVIOUS
<1>2. CASE Is(t, i, {kind})
  <2>1. Places(t, i, i, {kind}) = {i}
    BY <1>1, <1>2 DEF Places
  <2> QED BY <1>2, <2>1, FS_Singleton
<1>3. CASE ~Is(t, i, {kind})
  <2>1. Places(t, i, i, {kind}) = {}
    BY <1>1, <1>3 DEF Places
  <2> QED BY <1>3, <2>1, FS_EmptySet
<1> QED BY <1>2, <1>3

\* A parenthesis counts, any other token does not.
Parenthesis(t, i) == IF Is(t, i, {"("}) THEN 1 ELSE IF Is(t, i, {")"}) THEN -1 ELSE 0

LEMMA DepthOne ==
  ASSUME NEW t, NEW i \in Int
  PROVE  Depth(t, i, i) = Parenthesis(t, i) /\ Parenthesis(t, i) \in Int
<1>1. Cardinality(Places(t, i, i, {"("})) = IF Is(t, i, {"("}) THEN 1 ELSE 0
  BY OnePlace
<1>2. Cardinality(Places(t, i, i, {")"})) = IF Is(t, i, {")"}) THEN 1 ELSE 0
  BY OnePlace
<1>3. ~(Is(t, i, {"("}) /\ Is(t, i, {")"}))
  BY DEF Is
<1> QED BY <1>1, <1>2, <1>3 DEF Depth, Parenthesis

LEMMA DepthFirst ==
  ASSUME NEW t, NEW i \in Int, NEW j \in Int, i <= j
  PROVE  Depth(t, i, j) = Parenthesis(t, i) + Depth(t, i + 1, j)
<1>1. Depth(t, i, j) = Depth(t, i, i) + Depth(t, i + 1, j)
  BY DepthSplit
<1> QED BY <1>1, DepthOne

LEMMA DepthLast ==
  ASSUME NEW t, NEW i \in Int, NEW j \in Int, i <= j
  PROVE  Depth(t, i, j) = Depth(t, i, j - 1) + Parenthesis(t, j)
<1> DEFINE k == j - 1
<1>1. k \in Int /\ i - 1 <= k /\ k <= j /\ k + 1 = j
  OBVIOUS
<1> HIDE DEF k
<1>2. Depth(t, i, j) = Depth(t, i, k) + Depth(t, k + 1, j)
  BY <1>1, DepthSplit
<1> QED BY <1>1, <1>2, DepthOne DEF k

LEMMA NoParenthesis ==
  ASSUME NEW t, NEW k, NEW K, Is(t, k, K), "(" \notin K, ")" \notin K
  PROVE  Parenthesis(t, k) = 0
  BY DEF Parenthesis, Is

LEMMA ProductFacts ==
  ASSUME NEW X, NEW Y
  PROVE  /\ X ** Y # {} => X # {} /\ Y # {}
         /\ X = {} => X ** Y = {}
         /\ Y = {} => X ** Y = {}
  BY DEF **

\* i .. j are tokens in which the parentheses close, and an operand ends them.
OperandEnds == {"ident", "number", ")"}
Closed(t, i, j) ==
  /\ i <= j /\ Is(t, j, OperandEnds) /\ Depth(t, i, j) = 0
  /\ \A q \in i .. j : Depth(t, i, q) >= 0

LEMMA ClosedJoin ==
  ASSUME NEW t, NEW i \in Int, NEW k \in Int, NEW j \in Int,
         Closed(t, i, k - 1), Parenthesis(t, k) = 0, Closed(t, k + 1, j)
  PROVE  Closed(t, i, j) /\ Depth(t, i, k) = 0
<1>1. i <= k - 1 /\ k + 1 <= j /\ Is(t, j, OperandEnds) /\ i <= k /\ k <= j /\ k + 1 \in Int /\ k - 1 \in Int
  BY DEF Closed
<1>2. Depth(t, i, k - 1) = 0 /\ Depth(t, k + 1, j) = 0
  BY DEF Closed
<1>3. Depth(t, i, k) = Depth(t, i, k - 1) + Parenthesis(t, k)
  BY <1>1, DepthLast
<1>4. Depth(t, i, k) = 0
  BY <1>2, <1>3
<1>5. ASSUME NEW q \in i .. j PROVE q > k => Depth(t, i, q) = Depth(t, k + 1, q)
  <2> SUFFICES ASSUME q > k PROVE Depth(t, i, q) = Depth(t, k + 1, q)
    OBVIOUS
  <2>1. i - 1 <= k /\ k <= q /\ q \in Int
    BY <1>1
  <2>2. Depth(t, i, q) = Depth(t, i, k) + Depth(t, k + 1, q)
    BY <2>1, DepthSplit
  <2>3. Depth(t, k + 1, q) \in Int
    BY <1>1, <2>1, DepthType
  <2> QED BY <1>4, <2>2, <2>3
<1>6. Depth(t, i, j) = 0
  <2>1. j \in i .. j /\ j > k
    BY <1>1
  <2> QED BY <1>2, <1>5, <2>1
<1>7. ASSUME NEW q \in i .. j PROVE Depth(t, i, q) >= 0
  <2>1. CASE q > k
    <3>1. q \in k + 1 .. j
      BY <2>1
    <3>2. Depth(t, k + 1, q) >= 0
      BY <3>1 DEF Closed
    <3> QED BY <1>5, <2>1, <3>2
  <2>2. CASE q = k
    BY <1>4, <2>2
  <2>3. CASE q < k
    <3>1. q \in i .. k - 1
      BY <2>3
    <3> QED BY <3>1 DEF Closed
  <2> QED BY <2>1, <2>2, <2>3
<1>8. i <= j
  BY <1>1
<1> QED BY <1>1, <1>4, <1>6, <1>7, <1>8 DEF Closed

LEMMA ClosedBehind ==
  ASSUME NEW t, NEW i \in Int, NEW j \in Int, Parenthesis(t, i) = 0, Closed(t, i + 1, j)
  PROVE  Closed(t, i, j)
<1>1. i + 1 <= j /\ Is(t, j, OperandEnds) /\ i <= j /\ i + 1 \in Int /\ Depth(t, i + 1, j) = 0
  BY DEF Closed
<1>2. ASSUME NEW q \in i + 1 .. j PROVE Depth(t, i, q) = Depth(t, i + 1, q)
  <2>1. q \in Int /\ i <= q
    BY <1>1
  <2>2. Depth(t, i, q) = Parenthesis(t, i) + Depth(t, i + 1, q)
    BY <2>1, DepthFirst
  <2>3. Depth(t, i + 1, q) \in Int
    BY <1>1, <2>1, DepthType
  <2> QED BY <2>2, <2>3
<1>3. Depth(t, i, j) = 0
  <2>1. j \in i + 1 .. j
    BY <1>1
  <2> QED BY <1>1, <1>2, <2>1
<1>4. ASSUME NEW q \in i .. j PROVE Depth(t, i, q) >= 0
  <2>1. CASE q = i
    <3>1. Depth(t, i, i) = 0
      BY DepthOne
    <3> QED BY <2>1, <3>1
  <2>2. CASE q # i
    <3>1. q \in i + 1 .. j
      BY <2>2
    <3>2. Depth(t, i + 1, q) >= 0
      BY <3>1 DEF Closed
    <3> QED BY <1>2, <3>1, <3>2
  <2> QED BY <2>1, <2>2
<1> QED BY <1>1, <1>3, <1>4 DEF Closed

\* Deeper by one inside a pair of parentheses.
LEMMA DepthInside ==
  ASSUME NEW t, NEW i \in Int, NEW j \in Int, Is(t, i, {"("}), Closed(t, i + 1, j - 1)
  PROVE  /\ \A q \in i .. j - 1 : Depth(t, i, q) >= 1
         /\ Depth(t, i, j - 1) = 1 /\ i + 1 <= j - 1
<1>1. i + 1 <= j - 1 /\ i + 1 \in Int /\ j - 1 \in Int /\ Depth(t, i + 1, j - 1) = 0 /\ i <= j - 1
  BY DEF Closed
<1>2. Parenthesis(t, i) = 1
  BY DEF Parenthesis
<1>3. ASSUME NEW q \in i + 1 .. j - 1 PROVE Depth(t, i, q) = 1 + Depth(t, i + 1, q) /\ Depth(t, i + 1, q) \in Int
  <2>1. q \in Int /\ i <= q
    BY <1>1
  <2>2. Depth(t, i, q) = Parenthesis(t, i) + Depth(t, i + 1, q)
    BY <2>1, DepthFirst
  <2>3. Depth(t, i + 1, q) \in Int
    BY <1>1, <2>1, DepthType
  <2> QED BY <1>2, <2>2, <2>3
<1>4. ASSUME NEW q \in i .. j - 1 PROVE Depth(t, i, q) >= 1
  <2>1. CASE q = i
    <3>1. Depth(t, i, i) = 1
      BY <1>2, DepthOne
    <3> QED BY <2>1, <3>1
  <2>2. CASE q # i
    <3>1. q \in i + 1 .. j - 1
      BY <2>2
    <3>2. Depth(t, i + 1, q) >= 0
      BY <3>1 DEF Closed
    <3>3. Depth(t, i, q) = 1 + Depth(t, i + 1, q) /\ Depth(t, i + 1, q) \in Int
      BY <1>3, <3>1
    <3> QED BY <3>2, <3>3
  <2> QED BY <2>1, <2>2
<1>5. Depth(t, i, j - 1) = 1
  <2>1. j - 1 \in i + 1 .. j - 1
    BY <1>1
  <2> QED BY <1>1, <1>3, <2>1
<1> QED BY <1>1, <1>4, <1>5

LEMMA ClosedIn ==
  ASSUME NEW t, NEW i \in Int, NEW j \in Int, Is(t, i, {"("}), Is(t, j, {")"}), Closed(t, i + 1, j - 1)
  PROVE  Closed(t, i, j)
<1>1. /\ \A q \in i .. j - 1 : Depth(t, i, q) >= 1
      /\ Depth(t, i, j - 1) = 1 /\ i + 1 <= j - 1 /\ i <= j
  <2>1. /\ \A q \in i .. j - 1 : Depth(t, i, q) >= 1
        /\ Depth(t, i, j - 1) = 1 /\ i + 1 <= j - 1
    BY DepthInside
  <2> QED BY <2>1
<1>2. Parenthesis(t, j) = -1
  BY DEF Parenthesis, Is
<1>3. Depth(t, i, j) = Depth(t, i, j - 1) + Parenthesis(t, j)
  BY <1>1, DepthLast
<1>4. Depth(t, i, j) = 0
  BY <1>1, <1>2, <1>3
<1>5. ASSUME NEW q \in i .. j PROVE Depth(t, i, q) >= 0
  <2>1. CASE q = j
    BY <1>4, <2>1
  <2>2. CASE q # j
    <3>1. q \in i .. j - 1 /\ q \in Int
      BY <2>2
    <3>2. Depth(t, i, q) >= 1 /\ Depth(t, i, q) \in Int
      BY <1>1, <3>1, DepthType
    <3> QED BY <3>2
  <2> QED BY <2>1, <2>2
<1>6. Is(t, j, OperandEnds)
  BY DEF Is, OperandEnds
<1> QED BY <1>1, <1>4, <1>5, <1>6 DEF Closed

LEMMA ClosedOne ==
  ASSUME NEW t, NEW i \in Int, Is(t, i, {"ident"}) \/ Is(t, i, {"number"})
  PROVE  Closed(t, i, i)
<1>1. Parenthesis(t, i) = 0 /\ Is(t, i, OperandEnds)
  BY DEF Parenthesis, Is, OperandEnds
<1>2. Depth(t, i, i) = 0
  BY <1>1, DepthOne
<1>3. \A q \in i .. i : q = i
  OBVIOUS
<1> QED BY <1>1, <1>2, <1>3 DEF Closed

-----------------------------------------------------------------------------
(* Induction over what the nonterminals refer to.                          *)

LEMMA ByWeight ==
  ASSUME NEW n \in Nat, NEW G, NEW W, \A nt \in W : Rank[nt] \in 0 .. 8,
         \A nt \in W, i \in 1 .. n + 1, j \in 0 .. n :
           (\A m \in W, p \in 1 .. n + 1, q \in 0 .. n :
              Weight(m, p, q) < Weight(nt, i, j) => <<m, p, q>> \in G) => <<nt, i, j>> \in G
  PROVE  \A nt \in W, i \in 1 .. n + 1, j \in 0 .. n : <<nt, i, j>> \in G
<1> DEFINE M == 9 * n + 9
           S == {w \in 0 .. M : \A nt \in W, i \in 1 .. n + 1, j \in 0 .. n :
                                  Weight(nt, i, j) < w => <<nt, i, j>> \in G}
<1>1. M \in Nat
  OBVIOUS
<1>w. ASSUME NEW nt \in W, NEW i \in 1 .. n + 1, NEW j \in 0 .. n
      PROVE  Weight(nt, i, j) \in Nat /\ Weight(nt, i, j) < M
  <2>1. Weight(nt, i, j) \in 0 .. 9 * n + 8
    BY WeightFacts
  <2> QED BY <2>1
<1>2. 0 \in S
  <2>1. 0 \in 0 .. M
    BY <1>1
  <2>2. ASSUME NEW nt \in W, NEW i \in 1 .. n + 1, NEW j \in 0 .. n
        PROVE  ~(Weight(nt, i, j) < 0)
    <3>1. Weight(nt, i, j) \in Nat
      BY <1>w
    <3> QED BY <3>1
  <2> QED BY <2>1, <2>2
<1>3. ASSUME NEW w \in 0 .. M - 1, w \in S PROVE w + 1 \in S
  <2>1. ASSUME NEW nt \in W, NEW i \in 1 .. n + 1, NEW j \in 0 .. n, Weight(nt, i, j) < w + 1
        PROVE  <<nt, i, j>> \in G
    <3>1. Weight(nt, i, j) \in Nat /\ w \in Int
      BY <1>w
    <3>2. ASSUME NEW m \in W, NEW p \in 1 .. n + 1, NEW q \in 0 .. n,
                 Weight(m, p, q) < Weight(nt, i, j)
          PROVE  <<m, p, q>> \in G
      <4>1. Weight(m, p, q) \in Nat
        BY <1>w
      <4>2. Weight(m, p, q) < w
        BY <2>1, <3>1, <3>2, <4>1
      <4> QED BY <1>3, <4>2
    <3> QED BY <3>2
  <2>2. w + 1 \in 0 .. M
    BY <1>1
  <2> QED BY <2>1, <2>2
<1>4. \A w \in 0 .. M : w \in S
  <2> HIDE DEF S, M
  <2> QED BY <1>1, <1>2, <1>3, Upwards
<1>5. M \in S
  <2>1. M \in 0 .. M
    BY <1>1
  <2> HIDE DEF S, M
  <2> QED BY <1>4, <2>1
<1> QED BY <1>5, <1>w

LEMMA AppliedFacts ==
  ASSUME NEW D, NEW t, NEW nt, NEW i, NEW j, NEW k, Applied(D, t, nt, i, j, k) # {}
  PROVE  D[<<nt, i, k - 1>>] # {} /\ D[<<BinaryLevel[nt].below, k + 1, j>>] # {}
<1> DEFINE X == D[<<nt, i, k - 1>>]
           Y == D[<<BinaryLevel[nt].below, k + 1, j>>]
           V == {<<Visit(nt, BinaryOp(t[k].kind), NoToken)>>}
<1>1. (X ** Y) ** V # {}
  BY DEF Applied
<1> HIDE DEF X, Y, V
<1>2. X ** Y # {}
  BY <1>1, ProductFacts
<1>3. X # {} /\ Y # {}
  BY <1>2, ProductFacts
<1> QED BY <1>3 DEF X, Y

LEMMA LevelSign ==
  ASSUME NEW t, NEW nt \in DOMAIN BinaryLevel, NEW k, Is(t, k, BinaryLevel[nt].ops)
  PROVE  Is(t, k, BinarySigns) /\ Parenthesis(t, k) = 0 /\ Precedence(t, k) = 8 - Rank[nt]
         /\ LevelOf(t[k].kind) = nt
<1>1. t[k].kind \in BinaryLevel[nt].ops /\ k \in DOMAIN t
  BY DEF Is
<1>2. t[k].kind \in BinarySigns /\ CPrecedence(t[k].kind) = 8 - Rank[nt]
  BY <1>1, LevelFacts
<1>3. "(" \notin BinaryLevel[nt].ops /\ ")" \notin BinaryLevel[nt].ops
  BY LevelFacts
<1>4. Parenthesis(t, k) = 0
  BY <1>3, NoParenthesis
<1>5. LevelOf(t[k].kind) = nt
  BY <1>1, <1>2, SignFacts
<1> QED BY <1>1, <1>2, <1>4, <1>5 DEF Is, Precedence

\* Only spans whose parentheses close derive anything.
LEMMA DerivedClosed ==
  ASSUME NEW S, NEW t \in Seq(S), NEW D, Derives(D, t)
  PROVE  \A nt \in ExpNonTerminals, i \in 1 .. Len(t) + 1, j \in 0 .. Len(t) :
           D[<<nt, i, j>>] # {} => Closed(t, i, j)
<1> DEFINE N == Len(t)
           Full(s) == D[s] # {} => Closed(t, s[2], s[3])
           G == {s \in ExpSpans(t) : Full(s)}
<1>1. N \in Nat
  OBVIOUS
<1>2. ASSUME NEW nt \in ExpNonTerminals, NEW i \in 1 .. N + 1, NEW j \in 0 .. N
      PROVE  <<nt, i, j>> \in G <=> (D[<<nt, i, j>>] # {} => Closed(t, i, j))
  BY DEF ExpSpans
<1> HIDE DEF G
<1>3. ASSUME NEW nt \in ExpNonTerminals, NEW i \in 1 .. N + 1, NEW j \in 0 .. N,
             \A m \in ExpNonTerminals, p \in 1 .. N + 1, q \in 0 .. N :
               Weight(m, p, q) < Weight(nt, i, j) => <<m, p, q>> \in G,
             D[<<nt, i, j>>] # {}
      PROVE  Closed(t, i, j)
  <2>1. \A m \in ExpNonTerminals, p \in 1 .. N + 1, q \in 0 .. N :
          Weight(m, p, q) < Weight(nt, i, j) => (D[<<m, p, q>>] # {} => Closed(t, p, q))
    BY <1>2, <1>3
  <2>2. D[<<nt, i, j>>] = Expression(D, t, nt, i, j)
    BY DEF Derives
  <2>3. i \in Int /\ j \in Int
    BY <1>1
  <2>4. CASE nt = "Exp"
    <3>1. "LOrExp" \in ExpNonTerminals /\ Weight("LOrExp", i, j) < Weight("Exp", i, j)
      BY <1>1, InnerSpans
    <3>2. D[<<"LOrExp", i, j>>] # {}
      BY <1>3, <2>2, <2>4, ExpIs
    <3> QED BY <2>1, <2>4, <3>1, <3>2
  <2>5. CASE nt = "UnaryExp"
    <3>1. /\ "PrimaryExp" \in ExpNonTerminals /\ Weight("PrimaryExp", i, j) < Weight("UnaryExp", i, j)
          /\ i < j => i + 1 \in 1 .. N + 1 /\ Weight("UnaryExp", i + 1, j) < Weight("UnaryExp", i, j)
      BY <1>1, InnerSpans
    <3>2. CASE D[<<"PrimaryExp", i, j>>] # {}
      BY <2>1, <2>5, <3>1, <3>2
    <3>3. CASE D[<<"PrimaryExp", i, j>>] = {}
      <4> DEFINE behind == D[<<"UnaryExp", i + 1, j>>] ** {<<Visit("UnaryExp", UnaryOp(t[i].kind), NoToken)>>}
      <4>0. Expression(D, t, "UnaryExp", i, j) = D[<<"PrimaryExp", i, j>>] \cup
              (IF i < j /\ Is(t, i, UnarySigns) THEN behind ELSE {})
        BY UnaryIs
      <4>1. i < j /\ Is(t, i, UnarySigns) /\ behind # {}
        <5> HIDE DEF behind
        <5> QED BY <1>3, <2>2, <2>5, <3>3, <4>0
      <4>2. D[<<"UnaryExp", i + 1, j>>] # {}
        BY <4>1, ProductFacts
      <4>3. Closed(t, i + 1, j)
        BY <2>1, <2>5, <3>1, <4>1, <4>2
      <4>4. "(" \notin UnarySigns /\ ")" \notin UnarySigns
        BY DEF UnarySigns
      <4>5. Parenthesis(t, i) = 0
        BY <4>1, <4>4, NoParenthesis
      <4> QED BY <2>3, <4>3, <4>5, ClosedBehind
    <3> QED BY <3>2, <3>3
  <2>6. CASE nt = "PrimaryExp"
    <3>1. "Exp" \in ExpNonTerminals
          /\ (i < j => /\ i + 1 \in 1 .. N + 1 /\ j - 1 \in 0 .. N
                       /\ Weight("Exp", i + 1, j - 1) < Weight("PrimaryExp", i, j))
      BY <1>1, InnerSpans, RankFacts
    <3>2. CASE i = j /\ (Is(t, i, {"ident"}) \/ Is(t, i, {"number"}))
      BY <2>3, <3>2, ClosedOne
    <3>3. CASE ~(i = j /\ (Is(t, i, {"ident"}) \/ Is(t, i, {"number"})))
      <4>1. Expression(D, t, "PrimaryExp", i, j)
            = IF i < j /\ Is(t, i, {"("}) /\ Is(t, j, {")"}) THEN D[<<"Exp", i + 1, j - 1>>] ELSE {}
        BY <3>3, PrimaryIs
      <4>2. i < j /\ Is(t, i, {"("}) /\ Is(t, j, {")"}) /\ D[<<"Exp", i + 1, j - 1>>] # {}
        BY <1>3, <2>2, <2>6, <4>1
      <4>3. Closed(t, i + 1, j - 1)
        BY <2>1, <2>6, <3>1, <4>2
      <4> QED BY <2>3, <4>2, <4>3, ClosedIn
    <3> QED BY <3>2, <3>3
  <2>7. CASE nt \in DOMAIN BinaryLevel
    <3> DEFINE low == BinaryLevel[nt].below
    <3>1. /\ low \in ExpNonTerminals /\ Weight(low, i, j) < Weight(nt, i, j)
          /\ \A k \in i + 1 .. j - 1 :
               /\ k - 1 \in 0 .. N /\ k + 1 \in 1 .. N + 1 /\ k \in 1 .. N
               /\ Weight(nt, i, k - 1) < Weight(nt, i, j)
               /\ Weight(low, k + 1, j) < Weight(nt, i, j)
      BY <1>1, <2>7, LevelSpans
    <3> HIDE DEF low
    <3>2. CASE D[<<low, i, j>>] # {}
      BY <2>1, <3>1, <3>2
    <3>3. CASE D[<<low, i, j>>] = {}
      <4>1. Alternatives(D, t, nt, i, j) # {}
        BY <1>3, <2>2, <2>7, <3>3, LevelIs DEF low
      <4>2. PICK k \in Places(t, i + 1, j - 1, BinaryLevel[nt].ops) : Applied(D, t, nt, i, j, k) # {}
        BY <4>1 DEF Alternatives
      <4>3. k \in i + 1 .. j - 1 /\ Is(t, k, BinaryLevel[nt].ops) /\ k \in Int
        BY DEF Places
      <4>4. D[<<nt, i, k - 1>>] # {} /\ D[<<low, k + 1, j>>] # {}
        BY <4>2, AppliedFacts DEF low
      <4>5. Closed(t, i, k - 1) /\ Closed(t, k + 1, j)
        BY <2>1, <3>1, <4>3, <4>4
      <4>6. Parenthesis(t, k) = 0
        BY <2>7, <4>3, LevelSign
      <4> QED BY <2>3, <4>3, <4>5, <4>6, ClosedJoin
    <3> QED BY <3>2, <3>3
  <2> QED BY <2>4, <2>5, <2>6, <2>7 DEF ExpNonTerminals
<1>4. \A nt \in ExpNonTerminals, i \in 1 .. N + 1, j \in 0 .. N :
        (\A m \in ExpNonTerminals, p \in 1 .. N + 1, q \in 0 .. N :
           Weight(m, p, q) < Weight(nt, i, j) => <<m, p, q>> \in G) => <<nt, i, j>> \in G
  BY <1>2, <1>3
<1>5. \A nt \in ExpNonTerminals, i \in 1 .. N + 1, j \in 0 .. N : <<nt, i, j>> \in G
  <2> HIDE DEF N
  <2> QED BY <1>1, <1>4, ByWeight, RankFacts
<1> QED BY <1>2, <1>5

-----------------------------------------------------------------------------
(* The binary operators of a span and of its parts.                        *)

LEMMA BinaryIs ==
  ASSUME NEW t, NEW i \in Int, NEW j \in Int, NEW m
  PROVE  m \in Binaries(t, i, j) <=>
           /\ m \in i + 1 .. j /\ Is(t, m, BinarySigns) /\ Is(t, m - 1, OperandEnds) /\ Depth(t, i, m) = 0
  BY DEF Binaries, Places, OperandEnds

LEMMA SignsAreNoEnds ==
  ASSUME NEW t, NEW k, Is(t, k, BinarySigns) \/ Is(t, k, UnarySigns)
  PROVE  ~Is(t, k, OperandEnds) /\ Parenthesis(t, k) = 0
<1>1. \A s \in BinarySigns : s \notin {"(", ")", "ident", "number"}
  BY SignFacts
<1>2. \A s \in UnarySigns : s \notin {"(", ")", "ident", "number"}
  BY DEF UnarySigns
<1>3. t[k].kind \notin {"(", ")", "ident", "number"}
  BY <1>1, <1>2 DEF Is
<1> QED BY <1>3 DEF Is, OperandEnds, Parenthesis

LEMMA BinariesBehindSign ==
  ASSUME NEW t, NEW i \in Int, NEW j \in Int, Is(t, i, UnarySigns)
  PROVE  Binaries(t, i, j) = Binaries(t, i + 1, j)
<1>1. ~Is(t, i, OperandEnds) /\ Parenthesis(t, i) = 0 /\ i + 1 \in Int
  BY SignsAreNoEnds
<1>2. ASSUME NEW m \in i + 1 .. j PROVE Depth(t, i, m) = Depth(t, i + 1, m)
  <2>1. m \in Int /\ i <= m
    OBVIOUS
  <2>2. Depth(t, i, m) = Parenthesis(t, i) + Depth(t, i + 1, m) /\ Depth(t, i + 1, m) \in Int
    BY <1>1, <2>1, DepthFirst, DepthType
  <2> QED BY <1>1, <2>2
<1>3. ASSUME NEW m \in Binaries(t, i, j) PROVE m \in Binaries(t, i + 1, j)
  <2>1. m \in i + 1 .. j /\ Is(t, m, BinarySigns) /\ Is(t, m - 1, OperandEnds) /\ Depth(t, i, m) = 0
    BY BinaryIs
  <2>2. m # i + 1
    BY <1>1, <2>1
  <2>3. m \in (i + 1) + 1 .. j
    BY <2>1, <2>2
  <2>4. Depth(t, i + 1, m) = 0
    BY <1>2, <2>1
  <2> QED BY <1>1, <2>1, <2>3, <2>4, BinaryIs
<1>4. ASSUME NEW m \in Binaries(t, i + 1, j) PROVE m \in Binaries(t, i, j)
  <2>1. m \in (i + 1) + 1 .. j /\ Is(t, m, BinarySigns) /\ Is(t, m - 1, OperandEnds) /\ Depth(t, i + 1, m) = 0
    BY <1>1, BinaryIs
  <2>2. m \in i + 1 .. j
    BY <2>1
  <2>3. Depth(t, i, m) = 0
    BY <1>2, <2>1, <2>2
  <2> QED BY <2>1, <2>2, <2>3, BinaryIs
<1> QED BY <1>3, <1>4

LEMMA BinariesAround ==
  ASSUME NEW t, NEW i \in Int, NEW j \in Int, NEW k \in i + 1 .. j,
         Is(t, k, BinarySigns), Is(t, k - 1, OperandEnds), Depth(t, i, k) = 0
  PROVE  /\ k \in Binaries(t, i, j)
         /\ Binaries(t, i, j) = Binaries(t, i, k - 1) \cup {k} \cup Binaries(t, k + 1, j)
<1>1. k \in Binaries(t, i, j)
  BY BinaryIs
<1>2. k \in Int /\ k - 1 \in Int /\ k + 1 \in Int /\ i - 1 <= k
  OBVIOUS
<1>3. ASSUME NEW m \in k + 1 .. j PROVE Depth(t, i, m) = Depth(t, k + 1, m)
  <2>1. m \in Int /\ k <= m
    OBVIOUS
  <2>2. Depth(t, i, m) = Depth(t, i, k) + Depth(t, k + 1, m)
    BY <1>2, <2>1, DepthSplit
  <2>3. Depth(t, k + 1, m) \in Int
    BY <1>2, <2>1, DepthType
  <2> QED BY <2>2, <2>3
<1>4. ASSUME NEW m \in Binaries(t, i, j) PROVE m \in Binaries(t, i, k - 1) \cup {k} \cup Binaries(t, k + 1, j)
  <2>1. m \in i + 1 .. j /\ Is(t, m, BinarySigns) /\ Is(t, m - 1, OperandEnds) /\ Depth(t, i, m) = 0
    BY BinaryIs
  <2>2. CASE m < k
    <3>1. m \in i + 1 .. k - 1
      BY <2>1, <2>2
    <3>2. m \in Binaries(t, i, k - 1)
      BY <1>2, <2>1, <3>1, BinaryIs
    <3> QED BY <3>2
  <2>3. CASE m > k
    <3>1. m \in k + 1 .. j /\ m \in Int
      BY <2>1, <2>3
    <3>2. m # k + 1
      <4>1. ~Is(t, k, OperandEnds)
        BY SignsAreNoEnds
      <4> QED BY <1>2, <2>1, <4>1
    <3>3. m \in (k + 1) + 1 .. j
      BY <1>2, <3>1, <3>2
    <3>4. Depth(t, k + 1, m) = 0
      BY <1>3, <2>1, <3>1
    <3>5. m \in Binaries(t, k + 1, j)
      BY <1>2, <2>1, <3>3, <3>4, BinaryIs
    <3> QED BY <3>5
  <2> QED BY <2>1, <2>2, <2>3
<1>5. ASSUME NEW m \in Binaries(t, i, k - 1) PROVE m \in Binaries(t, i, j)
  <2>1. m \in i + 1 .. k - 1 /\ Is(t, m, BinarySigns) /\ Is(t, m - 1, OperandEnds) /\ Depth(t, i, m) = 0
    BY <1>2, BinaryIs
  <2>2. m \in i + 1 .. j
    BY <2>1
  <2> QED BY <2>1, <2>2, BinaryIs
<1>6. ASSUME NEW m \in Binaries(t, k + 1, j) PROVE m \in Binaries(t, i, j)
  <2>1. m \in (k + 1) + 1 .. j /\ Is(t, m, BinarySigns) /\ Is(t, m - 1, OperandEnds) /\ Depth(t, k + 1, m) = 0
    BY <1>2, BinaryIs
  <2>2. m \in i + 1 .. j /\ m \in k + 1 .. j
    BY <1>2, <2>1
  <2>3. Depth(t, i, m) = 0
    BY <1>3, <2>1, <2>2
  <2> QED BY <2>1, <2>2, <2>3, BinaryIs
<1> QED BY <1>1, <1>4, <1>5, <1>6

-----------------------------------------------------------------------------
(* Each level derives what C reads, where C has no lower level outermost.  *)

From(t, i, j, p) == \A m \in Binaries(t, i, j) : Precedence(t, m) >= p
Expected(C, t, nt, i, j) == IF From(t, i, j, 8 - Rank[nt]) THEN C[<<i, j>>] ELSE {}

LEMMA UnaryReads ==
  ASSUME NEW S, NEW t \in Seq(S), NEW D, Derives(D, t), NEW C, Reads(C, t),
         NEW i \in 1 .. Len(t) + 1, NEW j \in 0 .. Len(t),
         i < j => /\ D[<<"UnaryExp", i + 1, j>>] = Expected(C, t, "UnaryExp", i + 1, j)
                  /\ D[<<"Exp", i + 1, j - 1>>] = Expected(C, t, "Exp", i + 1, j - 1)
  PROVE  D[<<"UnaryExp", i, j>>] = Expected(C, t, "UnaryExp", i, j)
<1> DEFINE N == Len(t)
           B == Binaries(t, i, j)
           V == {<<Visit("UnaryExp", UnaryOp(t[i].kind), NoToken)>>}
           U == D[<<"UnaryExp", i, j>>]
           P == D[<<"PrimaryExp", i, j>>]
<1>1. /\ N \in Nat /\ i \in Int /\ j \in Int /\ {"Exp", "UnaryExp", "PrimaryExp"} \subseteq ExpNonTerminals
      /\ Rank["UnaryExp"] = 1 /\ Rank["Exp"] = 8 /\ DOMAIN t = 1 .. N
  BY RankFacts
<1>2. U = P \cup (IF i < j /\ Is(t, i, UnarySigns) THEN D[<<"UnaryExp", i + 1, j>>] ** V ELSE {})
  <2>1. U = Expression(D, t, "UnaryExp", i, j)
    BY <1>1 DEF Derives
  <2> QED BY <2>1, UnaryIs
<1>3. P = IF i = j /\ Is(t, i, {"ident"}) THEN VisitsOf("LVal", t[i])
          ELSE IF i = j /\ Is(t, i, {"number"}) THEN VisitsOf("Number", t[i])
          ELSE IF i < j /\ Is(t, i, {"("}) /\ Is(t, j, {")"}) THEN D[<<"Exp", i + 1, j - 1>>]
          ELSE {}
  <2>1. P = Expression(D, t, "PrimaryExp", i, j)
    BY <1>1 DEF Derives
  <2> QED BY <2>1, PrimaryIs
<1>4. \A a \in Int, b \in Int : From(t, a, b, 8 - Rank["UnaryExp"]) <=> Binaries(t, a, b) = {}
  <2> SUFFICES ASSUME NEW a \in Int, NEW b \in Int
               PROVE  From(t, a, b, 7) <=> Binaries(t, a, b) = {}
    BY <1>1
  <2>1. ASSUME NEW m \in Binaries(t, a, b) PROVE ~(Precedence(t, m) >= 7)
    <3>1. Is(t, m, BinarySigns)
      BY BinaryIs
    <3>2. CPrecedence(t[m].kind) \in 1 .. 6
      BY <3>1, SignFacts DEF Is
    <3> QED BY <3>2 DEF Precedence
  <2> QED BY <2>1 DEF From
<1>5. \A a \in 1 .. N + 1, b \in 0 .. N : From(t, a, b, 8 - Rank["Exp"])
  <2> SUFFICES ASSUME NEW a \in 1 .. N + 1, NEW b \in 0 .. N PROVE From(t, a, b, 0)
    BY <1>1
  <2>1. ASSUME NEW m \in Binaries(t, a, b) PROVE Precedence(t, m) >= 0
    <3>1. Precedence(t, m) \in 1 .. 6
      BY BinaryFacts
    <3> QED BY <3>1
  <2> QED BY <2>1 DEF From
<1>6. i < j => D[<<"Exp", i + 1, j - 1>>] = C[<<i + 1, j - 1>>]
  <2>1. i < j => i + 1 \in 1 .. N + 1 /\ j - 1 \in 0 .. N
    BY <1>1
  <2>2. i < j => From(t, i + 1, j - 1, 8 - Rank["Exp"])
    BY <1>5, <2>1
  <2> QED BY <2>2 DEF Expected
<1>7. Expected(C, t, "UnaryExp", i, j) = IF B = {} THEN C[<<i, j>>] ELSE {}
  BY <1>1, <1>4 DEF Expected
<1>8. ASSUME Is(t, i, UnarySigns)
      PROVE  /\ i < j => D[<<"UnaryExp", i + 1, j>>] = IF B = {} THEN C[<<i + 1, j>>] ELSE {}
             /\ P = {} /\ ~Is(t, i, {"("})
  <2>1. Binaries(t, i + 1, j) = B
    BY <1>1, <1>8, BinariesBehindSign
  <2>2. i + 1 \in Int
    BY <1>1
  <2>3. Expected(C, t, "UnaryExp", i + 1, j) = IF B = {} THEN C[<<i + 1, j>>] ELSE {}
    BY <1>1, <1>4, <2>1, <2>2 DEF Expected
  <2>4. ~Is(t, i, {"ident"}) /\ ~Is(t, i, {"number"}) /\ ~Is(t, i, {"("})
    BY <1>8 DEF Is, UnarySigns
  <2> QED BY <1>3, <2>3, <2>4
<1>9. CASE B = {}
  <2>1. LastApplied(t, i, j) = {}
    BY <1>9, RootFacts
  <2>2. C[<<i, j>>] = ReadingOf(C, t, i, j)
    BY ReadingIs DEF Reads
  <2>3. C[<<i, j>>] = IF i > j THEN {}
                      ELSE IF Is(t, i, UnarySigns) THEN C[<<i + 1, j>>] ** V
                      ELSE IF Is(t, i, {"("}) /\ Is(t, j, {")"}) THEN C[<<i + 1, j - 1>>]
                      ELSE IF i = j /\ Is(t, i, {"ident"}) THEN VisitsOf("LVal", t[i])
                      ELSE IF i = j /\ Is(t, i, {"number"}) THEN VisitsOf("Number", t[i])
                      ELSE {}
    BY <2>1, <2>2 DEF ReadingOf
  <2> HIDE DEF B, V, U, P
  <2>4. U = C[<<i, j>>]
    <3>1. CASE i > j
      <4>1. i # j /\ ~(i < j)
        BY <1>1, <3>1
      <4> QED BY <1>2, <1>3, <2>3, <3>1, <4>1
    <3>2. CASE i <= j /\ Is(t, i, UnarySigns)
      <4>0. C[<<i, j>>] = C[<<i + 1, j>>] ** V
        BY <1>1, <2>3, <3>2
      <4>1. CASE i < j
        BY <1>2, <1>8, <1>9, <3>2, <4>0, <4>1
      <4>2. CASE i = j
        <5>1. i + 1 \in 1 .. N + 1 /\ i + 1 > j
          BY <1>1, <4>2
        <5>2. C[<<i + 1, j>>] = ReadingOf(C, t, i + 1, j)
          BY <5>1, ReadingIs DEF Reads
        <5>3. C[<<i + 1, j>>] = {}
          BY <5>1, <5>2 DEF ReadingOf
        <5>4. C[<<i, j>>] = {}
          BY <4>0, <5>3, ProductFacts
        <5>5. ~(i < j)
          BY <1>1, <4>2
        <5> QED BY <1>2, <1>8, <3>2, <5>4, <5>5
      <4> QED BY <1>1, <3>2, <4>1, <4>2
    <3>3. CASE i <= j /\ ~Is(t, i, UnarySigns)
      <4>1. U = P
        BY <1>2, <3>3
      <4>2. Is(t, i, {"("}) => ~Is(t, i, {"ident"}) /\ ~Is(t, i, {"number"}) /\ ~Is(t, i, {")"})
        BY DEF Is
      <4>3. ~(i > j) /\ (i # j => i < j)
        BY <1>1, <3>3
      <4>4. CASE Is(t, i, {"("}) /\ Is(t, j, {")"})
        <5>1. i # j /\ i < j
          BY <4>2, <4>3, <4>4
        <5>2. P = D[<<"Exp", i + 1, j - 1>>]
          BY <1>3, <4>4, <5>1
        <5>3. C[<<i, j>>] = C[<<i + 1, j - 1>>]
          BY <2>3, <3>3, <4>3, <4>4
        <5> QED BY <1>6, <4>1, <5>1, <5>2, <5>3
      <4>5. CASE ~(Is(t, i, {"("}) /\ Is(t, j, {")"}))
        BY <1>3, <2>3, <3>3, <4>1, <4>3, <4>5
      <4> QED BY <4>4, <4>5
    <3> QED BY <1>1, <3>1, <3>2, <3>3
  <2> QED BY <1>7, <1>9, <2>4 DEF U
<1>10. CASE B # {}
  <2>1. PICK k \in B : TRUE
    BY <1>10
  <2>2. k \in i + 1 .. j /\ k \in 1 .. N /\ i < j /\ t[k].kind \in BinarySigns /\ Depth(t, i, k) = 0
    BY <2>1, BinaryFacts
  <2>3. U = {}
    <3>1. CASE Is(t, i, UnarySigns)
      <4>1. D[<<"UnaryExp", i + 1, j>>] = {} /\ P = {}
        BY <1>8, <1>10, <2>2, <3>1
      <4>2. D[<<"UnaryExp", i + 1, j>>] ** V = {}
        BY <4>1, ProductFacts
      <4> HIDE DEF U, P, V
      <4> QED BY <1>2, <4>1, <4>2
    <3>2. CASE ~Is(t, i, UnarySigns)
      <4>1. U = P /\ i # j
        BY <1>1, <1>2, <2>2, <3>2
      <4>2. SUFFICES ASSUME Is(t, i, {"("}), Is(t, j, {")"}), D[<<"Exp", i + 1, j - 1>>] # {} PROVE FALSE
        <5> HIDE DEF U, P
        <5> QED BY <1>3, <4>1
      <4>3. i + 1 \in 1 .. N + 1 /\ j - 1 \in 0 .. N
        BY <1>1, <2>2
      <4>4. Closed(t, i + 1, j - 1)
        BY <1>1, <4>2, <4>3, DerivedClosed
      <4>5. \A q \in i .. j - 1 : Depth(t, i, q) >= 1
        BY <1>1, <4>2, <4>4, DepthInside
      <4>6. k # j
        <5>1. t[j].kind = ")"
          BY <4>2 DEF Is
        <5> QED BY <2>2, <5>1, SignFacts
      <4>7. k \in i .. j - 1
        BY <1>1, <2>2, <4>6
      <4>8. Depth(t, i, k) >= 1
        BY <4>5, <4>7
      <4> QED BY <2>2, <4>8
    <3> QED BY <3>1, <3>2
  <2> QED BY <1>7, <1>10, <2>3
<1> QED BY <1>9, <1>10

LEMMA LevelReads ==
  ASSUME NEW S, NEW t \in Seq(S), NEW D, Derives(D, t), NEW C, Reads(C, t),
         NEW nt \in DOMAIN BinaryLevel, NEW i \in 1 .. Len(t) + 1, NEW j \in 0 .. Len(t),
         D[<<BinaryLevel[nt].below, i, j>>] = Expected(C, t, BinaryLevel[nt].below, i, j),
         \A k \in i + 1 .. j - 1 :
           /\ D[<<nt, i, k - 1>>] = Expected(C, t, nt, i, k - 1)
           /\ D[<<BinaryLevel[nt].below, k + 1, j>>] = Expected(C, t, BinaryLevel[nt].below, k + 1, j)
  PROVE  D[<<nt, i, j>>] = Expected(C, t, nt, i, j)
<1> DEFINE N == Len(t)
           low == BinaryLevel[nt].below
           p == 8 - Rank[nt]
           B == Binaries(t, i, j)
           r == Root(t, i, j)
           Alt == Alternatives(D, t, nt, i, j)
<1>1. /\ N \in Nat /\ i \in Int /\ j \in Int /\ nt \in ExpNonTerminals /\ low \in ExpNonTerminals
      /\ p \in 1 .. 6 /\ 8 - Rank[low] = p + 1 /\ p \in Int
  <2>1. low \in (DOMAIN BinaryLevel) \cup {"UnaryExp"} /\ Rank[nt] = Rank[low] + 1
    BY LevelFacts
  <2>2. low \in ExpNonTerminals /\ nt \in ExpNonTerminals /\ Rank[nt] \in 2 .. 7
    BY <2>1, RankFacts
  <2>3. Rank[low] \in 0 .. 8
    BY <2>2, RankFacts
  <2> HIDE DEF low
  <2> QED BY <2>1, <2>2, <2>3
<1>2. /\ \A a, b : Expected(C, t, nt, a, b) = IF From(t, a, b, p) THEN C[<<a, b>>] ELSE {}
      /\ \A a, b : Expected(C, t, low, a, b) = IF From(t, a, b, p + 1) THEN C[<<a, b>>] ELSE {}
  BY <1>1 DEF Expected
<1> HIDE DEF low, p
<1>3. D[<<nt, i, j>>] = D[<<low, i, j>>] \cup Alt
  <2>1. D[<<nt, i, j>>] = Expression(D, t, nt, i, j)
    BY <1>1 DEF Derives
  <2> QED BY <2>1, LevelIs DEF low
<1>4. D[<<low, i, j>>] = IF From(t, i, j, p + 1) THEN C[<<i, j>>] ELSE {}
  BY <1>2 DEF low
<1>5. ASSUME NEW k \in i + 1 .. j - 1
      PROVE  /\ D[<<nt, i, k - 1>>] = IF From(t, i, k - 1, p) THEN C[<<i, k - 1>>] ELSE {}
             /\ D[<<low, k + 1, j>>] = IF From(t, k + 1, j, p + 1) THEN C[<<k + 1, j>>] ELSE {}
  BY <1>2 DEF low
<1>b. ASSUME NEW m \in B PROVE m \in i + 1 .. j /\ m \in Int /\ Precedence(t, m) \in 1 .. 6 /\ Precedence(t, m) \in Int
  <2>1. m \in i + 1 .. j /\ Precedence(t, m) \in 1 .. 6
    BY BinaryFacts
  <2> QED BY <2>1
<1>r. B # {} => /\ r \in B
                /\ \A m \in B : /\ Precedence(t, r) <= Precedence(t, m)
                                /\ m > r => Precedence(t, r) < Precedence(t, m)
  BY RootFacts
\* Only the operator C applies last can be the one of this level.
<1>6. ASSUME NEW k \in Places(t, i + 1, j - 1, BinaryLevel[nt].ops), Applied(D, t, nt, i, j, k) # {}
      PROVE  B # {} /\ k = r /\ Precedence(t, r) = p
  <2>1. k \in i + 1 .. j - 1 /\ Is(t, k, BinaryLevel[nt].ops) /\ k \in Int /\ k \in i + 1 .. j
    BY DEF Places
  <2>2. Is(t, k, BinarySigns) /\ Parenthesis(t, k) = 0 /\ Precedence(t, k) = p
    BY <2>1, LevelSign DEF p
  <2>3. D[<<nt, i, k - 1>>] # {} /\ D[<<low, k + 1, j>>] # {}
    BY <1>6, AppliedFacts DEF low
  <2>4. k - 1 \in 0 .. N /\ k + 1 \in 1 .. N + 1
    BY <1>1, <2>1
  <2>5. Closed(t, i, k - 1) /\ Closed(t, k + 1, j)
    BY <1>1, <2>3, <2>4, DerivedClosed
  <2>6. Depth(t, i, k) = 0
    BY <1>1, <2>1, <2>2, <2>5, ClosedJoin
  <2>7. Is(t, k - 1, OperandEnds)
    BY <2>5 DEF Closed
  <2>8. k \in B /\ B = Binaries(t, i, k - 1) \cup {k} \cup Binaries(t, k + 1, j)
    BY <1>1, <2>1, <2>2, <2>6, <2>7, BinariesAround
  <2>9. From(t, i, k - 1, p) /\ From(t, k + 1, j, p + 1)
    BY <1>5, <2>1, <2>3
  <2>10. r \in B
    BY <1>r, <2>8
  <2>11. r \notin Binaries(t, i, k - 1) \/ Precedence(t, r) >= p
    BY <2>9 DEF From
  <2>12. r \notin Binaries(t, k + 1, j) \/ Precedence(t, r) >= p + 1
    BY <2>9 DEF From
  <2>13. Precedence(t, r) <= p
    BY <1>r, <2>2, <2>8
  <2>14. k > r => Precedence(t, r) < p
    BY <1>r, <2>2, <2>8
  <2>15. r \in Int /\ Precedence(t, r) \in Int
    BY <1>b, <2>10
  <2>16. r \in Binaries(t, i, k - 1) => r < k
    <3> SUFFICES ASSUME r \in Binaries(t, i, k - 1) PROVE r < k
      OBVIOUS
    <3>1. r \in i + 1 .. k - 1
      BY <2>4, BinaryFacts
    <3> HIDE DEF r
    <3> QED BY <2>1, <2>15, <3>1
  <2>17. r \notin Binaries(t, k + 1, j)
    <3> HIDE DEF r
    <3> QED BY <1>1, <2>12, <2>13, <2>15
  <2>18. r \notin Binaries(t, i, k - 1)
    <3> HIDE DEF r
    <3> QED BY <1>1, <2>1, <2>11, <2>14, <2>15, <2>16
  <2>19. k = r
    <3> HIDE DEF r, B
    <3> QED BY <2>8, <2>10, <2>17, <2>18
  <2> QED BY <2>2, <2>8, <2>19
<1>7. ASSUME \A k \in Places(t, i + 1, j - 1, BinaryLevel[nt].ops) : Applied(D, t, nt, i, j, k) = {}
      PROVE  Alt = {}
  BY <1>7 DEF Alternatives
<1>8. CASE B = {}
  <2>1. Alt = {}
    BY <1>6, <1>7, <1>8
  <2>2. From(t, i, j, p) /\ From(t, i, j, p + 1)
    BY <1>8 DEF From
  <2> QED BY <1>2, <1>3, <1>4, <2>1, <2>2
<1>9. CASE B # {} /\ Precedence(t, r) > p
  <2>1. Precedence(t, r) \in Int /\ Precedence(t, r) # p
    <3>1. Precedence(t, r) \in Int
      BY <1>9, <1>b, <1>r
    <3> QED BY <1>1, <1>9, <3>1
  <2>2. Alt = {}
    BY <1>6, <1>7, <2>1
  <2>3. ASSUME NEW m \in B PROVE Precedence(t, m) >= p /\ Precedence(t, m) >= p + 1
    <3>1. Precedence(t, m) \in Int /\ Precedence(t, r) <= Precedence(t, m)
      BY <1>b, <1>r
    <3> HIDE DEF r
    <3> QED BY <1>1, <1>9, <2>1, <3>1
  <2>4. From(t, i, j, p) /\ From(t, i, j, p + 1)
    BY <2>3 DEF From
  <2> QED BY <1>2, <1>3, <1>4, <2>2, <2>4
<1>10. CASE B # {} /\ Precedence(t, r) < p
  <2>1. Precedence(t, r) \in Int /\ r \in B
    BY <1>10, <1>b, <1>r
  <2>2. Precedence(t, r) # p /\ ~(Precedence(t, r) >= p) /\ ~(Precedence(t, r) >= p + 1)
    BY <1>1, <1>10, <2>1
  <2>3. Alt = {}
    BY <1>6, <1>7, <2>2
  <2>4. ~From(t, i, j, p) /\ ~From(t, i, j, p + 1)
    BY <2>1, <2>2 DEF From
  <2> QED BY <1>2, <1>3, <1>4, <2>3, <2>4
<1>11. CASE B # {} /\ Precedence(t, r) = p
  <2> DEFINE V == {<<Visit(nt, BinaryOp(t[r].kind), NoToken)>>}
  <2>1. r \in B /\ r \in i + 1 .. j /\ r \in Int
    BY <1>11, <1>b, <1>r
  <2>2. Is(t, r, BinarySigns) /\ Is(t, r - 1, OperandEnds) /\ Depth(t, i, r) = 0
    BY <1>1, <2>1, BinaryIs
  <2>3. B = Binaries(t, i, r - 1) \cup {r} \cup Binaries(t, r + 1, j)
    BY <1>1, <2>1, <2>2, BinariesAround
  <2>4. t[r].kind \in BinaryLevel[nt].ops /\ LevelOf(t[r].kind) = nt
    <3>1. t[r].kind \in BinarySigns /\ CPrecedence(t[r].kind) = 8 - Rank[nt]
      BY <1>11, <2>2 DEF Is, Precedence, p
    <3> QED BY <3>1, SignFacts
  <2>5. LastApplied(t, i, j) # {} /\ ~(i > j)
    <3>1. LastApplied(t, i, j) # {}
      BY <1>11, RootFacts
    <3>2. ~(i > j)
      BY <1>1, <2>1
    <3> QED BY <3>1, <3>2
  <2>6. C[<<i, j>>] = C[<<i, r - 1>>] ** C[<<r + 1, j>>] ** V
    <3>1. C[<<i, j>>] = ReadingOf(C, t, i, j)
      BY ReadingIs DEF Reads
    <3> QED BY <2>4, <2>5, <3>1 DEF ReadingOf
  <2>7. From(t, i, j, p) /\ ~From(t, i, j, p + 1) /\ From(t, i, r - 1, p) /\ From(t, r + 1, j, p + 1)
    <3>1. ASSUME NEW m \in B
          PROVE  /\ Precedence(t, m) >= p
                 /\ m > r => Precedence(t, m) >= p + 1
      <4>1. Precedence(t, m) \in Int /\ p <= Precedence(t, m) /\ (m > r => p < Precedence(t, m))
        BY <1>b, <1>r, <1>11
      <4> QED BY <1>1, <4>1
    <3>2. ~(Precedence(t, r) >= p + 1)
      BY <1>1, <1>11
    <3>3. ASSUME NEW m \in Binaries(t, r + 1, j) PROVE Precedence(t, m) >= p + 1
      <4>1. m \in B
        BY <2>3
      <4>2. m \in (r + 1) + 1 .. j
        <5>1. r + 1 \in Int
          BY <2>1
        <5> HIDE DEF r
        <5> QED BY <1>1, <5>1, BinaryIs
      <4>3. m > r
        BY <2>1, <4>2
      <4> QED BY <3>1, <4>1, <4>3
    <3>4. \A m \in Binaries(t, i, r - 1) : m \in B
      BY <2>3
    <3> QED BY <2>1, <3>1, <3>2, <3>3, <3>4 DEF From
  <2>8. D[<<nt, i, j>>] = Alt /\ Expected(C, t, nt, i, j) = C[<<i, j>>]
    BY <1>2, <1>3, <1>4, <2>7
  <2>9. CASE r = j
    <3>1. Alt = {}
      <4>1. ASSUME NEW k \in Places(t, i + 1, j - 1, BinaryLevel[nt].ops)
            PROVE  Applied(D, t, nt, i, j, k) = {}
        <5>1. k # j
          BY <1>1 DEF Places
        <5> QED BY <1>6, <2>9, <5>1
      <4> QED BY <1>7, <4>1
    <3>2. C[<<j + 1, j>>] = {}
      <4>1. j + 1 \in 1 .. N + 1 /\ j + 1 > j
        BY <1>1
      <4>2. C[<<j + 1, j>>] = ReadingOf(C, t, j + 1, j)
        BY <4>1, ReadingIs DEF Reads
      <4> QED BY <4>1, <4>2 DEF ReadingOf
    <3>3. C[<<i, r - 1>>] ** C[<<r + 1, j>>] = {}
      BY <2>9, <3>2, ProductFacts
    <3>4. C[<<i, j>>] = {}
      <4> HIDE DEF V
      <4> QED BY <2>6, <3>3, ProductFacts
    <3> QED BY <2>8, <3>1, <3>4
  <2>10. CASE r # j
    <3>1. r \in i + 1 .. j - 1
      BY <1>1, <2>1, <2>10
    <3>2. r \in Places(t, i + 1, j - 1, BinaryLevel[nt].ops)
      BY <2>2, <2>4, <3>1 DEF Places, Is
    <3>3. D[<<nt, i, r - 1>>] = C[<<i, r - 1>>] /\ D[<<low, r + 1, j>>] = C[<<r + 1, j>>]
      BY <1>5, <2>7, <3>1
    <3>4. Applied(D, t, nt, i, j, r) = C[<<i, j>>]
      BY <2>6, <3>3 DEF Applied, low
    <3>5. \A k \in Places(t, i + 1, j - 1, BinaryLevel[nt].ops) : k # r => Applied(D, t, nt, i, j, k) = {}
      BY <1>6
    <3>6. Alt = Applied(D, t, nt, i, j, r)
      <4> DEFINE P == Places(t, i + 1, j - 1, BinaryLevel[nt].ops)
                 A(k) == Applied(D, t, nt, i, j, k)
      <4>1. Alt = UNION {A(k) : k \in P}
        BY DEF Alternatives
      <4> HIDE DEF A, P, Alt
      <4> QED BY <3>2, <3>5, <4>1 DEF A, P
    <3> QED BY <2>8, <3>4, <3>6
  <2> QED BY <2>9, <2>10
<1> QED
  <2>1. B # {} => Precedence(t, r) \in Int
    BY <1>b, <1>r
  <2> HIDE DEF B, r
  <2> QED BY <1>1, <1>8, <1>9, <1>10, <1>11, <2>1

LEMMA DerivedReads ==
  ASSUME NEW S, NEW t \in Seq(S), NEW D, Derives(D, t), NEW C, Reads(C, t)
  PROVE  \A nt \in ExpNonTerminals, i \in 1 .. Len(t) + 1, j \in 0 .. Len(t) :
           nt # "PrimaryExp" => D[<<nt, i, j>>] = Expected(C, t, nt, i, j)
<1> DEFINE N == Len(t)
           Agrees(s) == s[1] # "PrimaryExp" => D[s] = Expected(C, t, s[1], s[2], s[3])
           G == {s \in ExpSpans(t) : Agrees(s)}
<1>1. N \in Nat
  OBVIOUS
<1>2. ASSUME NEW nt \in ExpNonTerminals, NEW i \in 1 .. N + 1, NEW j \in 0 .. N
      PROVE  <<nt, i, j>> \in G <=> (nt # "PrimaryExp" => D[<<nt, i, j>>] = Expected(C, t, nt, i, j))
  BY DEF ExpSpans
<1> HIDE DEF G
<1>3. ASSUME NEW nt \in ExpNonTerminals, NEW i \in 1 .. N + 1, NEW j \in 0 .. N, nt # "PrimaryExp",
             \A m \in ExpNonTerminals, p \in 1 .. N + 1, q \in 0 .. N :
               Weight(m, p, q) < Weight(nt, i, j) => <<m, p, q>> \in G
      PROVE  D[<<nt, i, j>>] = Expected(C, t, nt, i, j)
  <2>1. \A m \in ExpNonTerminals, p \in 1 .. N + 1, q \in 0 .. N :
          Weight(m, p, q) < Weight(nt, i, j) /\ m # "PrimaryExp" => D[<<m, p, q>>] = Expected(C, t, m, p, q)
    BY <1>2, <1>3
  <2>2. CASE nt = "Exp"
    <3>1. "LOrExp" \in ExpNonTerminals /\ Weight("LOrExp", i, j) < Weight("Exp", i, j)
      BY <1>1, InnerSpans
    <3>2. D[<<"LOrExp", i, j>>] = Expected(C, t, "LOrExp", i, j)
      BY <2>1, <2>2, <3>1
    <3>3. From(t, i, j, 8 - Rank["LOrExp"]) /\ From(t, i, j, 8 - Rank["Exp"])
      <4>1. 8 - Rank["LOrExp"] = 1 /\ 8 - Rank["Exp"] = 0
        BY RankFacts
      <4>2. ASSUME NEW m \in Binaries(t, i, j) PROVE Precedence(t, m) >= 1 /\ Precedence(t, m) >= 0
        <5>1. Precedence(t, m) \in 1 .. 6
          BY BinaryFacts
        <5> QED BY <5>1
      <4> QED BY <4>1, <4>2 DEF From
    <3>4. D[<<"Exp", i, j>>] = D[<<"LOrExp", i, j>>]
      BY <2>2, ExpIs DEF Derives
    <3> QED BY <2>2, <3>2, <3>3, <3>4 DEF Expected
  <2>3. CASE nt = "UnaryExp"
    <3>1. {"Exp", "UnaryExp", "PrimaryExp"} \subseteq ExpNonTerminals
      BY RankFacts
    <3>2. /\ Weight("PrimaryExp", i, j) < Weight("UnaryExp", i, j)
          /\ i < j => /\ i + 1 \in 1 .. N + 1 /\ j - 1 \in 0 .. N
                      /\ Weight("UnaryExp", i + 1, j) < Weight("UnaryExp", i, j)
                      /\ Weight("Exp", i + 1, j - 1) < Weight("PrimaryExp", i, j)
      BY <1>1, InnerSpans
    <3>3. i < j => Weight("Exp", i + 1, j - 1) < Weight("UnaryExp", i, j)
      <4> SUFFICES ASSUME i < j PROVE Weight("Exp", i + 1, j - 1) < Weight("UnaryExp", i, j)
        OBVIOUS
      <4>1. Weight("Exp", i + 1, j - 1) \in 0 .. 9 * N + 8
        BY <1>1, <3>1, <3>2, WeightFacts, RankFacts
      <4>2. Weight("PrimaryExp", i, j) \in 0 .. 9 * N + 8
        BY <1>1, <3>1, WeightFacts, RankFacts
      <4>3. Weight("UnaryExp", i, j) \in 0 .. 9 * N + 8
        BY <1>1, <3>1, WeightFacts, RankFacts
      <4> QED BY <1>1, <3>2, <4>1, <4>2, <4>3
    <3>4. i < j => /\ D[<<"UnaryExp", i + 1, j>>] = Expected(C, t, "UnaryExp", i + 1, j)
                   /\ D[<<"Exp", i + 1, j - 1>>] = Expected(C, t, "Exp", i + 1, j - 1)
      BY <2>1, <2>3, <3>1, <3>2, <3>3
    <3>5. D[<<"UnaryExp", i, j>>] = Expected(C, t, "UnaryExp", i, j)
      BY <3>4, UnaryReads
    <3> QED BY <2>3, <3>5
  <2>4. CASE nt \in DOMAIN BinaryLevel
    <3> DEFINE low == BinaryLevel[nt].below
    <3>1. /\ low \in ExpNonTerminals /\ Weight(low, i, j) < Weight(nt, i, j)
          /\ \A k \in i + 1 .. j - 1 :
               /\ k - 1 \in 0 .. N /\ k + 1 \in 1 .. N + 1 /\ k \in 1 .. N
               /\ Weight(nt, i, k - 1) < Weight(nt, i, j)
               /\ Weight(low, k + 1, j) < Weight(nt, i, j)
      BY <1>1, <2>4, LevelSpans
    <3>2. low # "PrimaryExp"
      BY <2>4, LevelFacts, RankFacts
    <3>3. D[<<low, i, j>>] = Expected(C, t, low, i, j)
      <4> HIDE DEF low
      <4> QED BY <2>1, <3>1, <3>2
    <3>4. ASSUME NEW k \in i + 1 .. j - 1
          PROVE  /\ D[<<nt, i, k - 1>>] = Expected(C, t, nt, i, k - 1)
                 /\ D[<<low, k + 1, j>>] = Expected(C, t, low, k + 1, j)
      <4>1. /\ k - 1 \in 0 .. N /\ k + 1 \in 1 .. N + 1
            /\ Weight(nt, i, k - 1) < Weight(nt, i, j) /\ Weight(low, k + 1, j) < Weight(nt, i, j)
        BY <3>1
      <4> HIDE DEF low
      <4>2. D[<<nt, i, k - 1>>] = Expected(C, t, nt, i, k - 1)
        BY <1>3, <2>1, <4>1
      <4>3. D[<<low, k + 1, j>>] = Expected(C, t, low, k + 1, j)
        BY <2>1, <3>1, <3>2, <4>1
      <4> QED BY <4>2, <4>3
    <3>5. \A k \in i + 1 .. j - 1 :
            /\ D[<<nt, i, k - 1>>] = Expected(C, t, nt, i, k - 1)
            /\ D[<<BinaryLevel[nt].below, k + 1, j>>] = Expected(C, t, BinaryLevel[nt].below, k + 1, j)
      BY <3>4
    <3>6. D[<<BinaryLevel[nt].below, i, j>>] = Expected(C, t, BinaryLevel[nt].below, i, j)
      BY <3>3
    <3> HIDE DEF low
    <3> QED BY <2>4, <3>5, <3>6, LevelReads, ZenonT(60)
  <2> QED BY <1>3, <2>2, <2>3, <2>4 DEF ExpNonTerminals
<1>4. \A nt \in ExpNonTerminals, i \in 1 .. N + 1, j \in 0 .. N :
        (\A m \in ExpNonTerminals, p \in 1 .. N + 1, q \in 0 .. N :
           Weight(m, p, q) < Weight(nt, i, j) => <<m, p, q>> \in G) => <<nt, i, j>> \in G
  BY <1>2, <1>3
<1>5. \A nt \in ExpNonTerminals, i \in 1 .. N + 1, j \in 0 .. N : <<nt, i, j>> \in G
  <2> HIDE DEF N
  <2> QED BY <1>1, <1>4, ByWeight, RankFacts
<1> QED BY <1>2, <1>5

\* The expressions of the grammar are those of C, for every sequence of tokens.
LEMMA DerivedIsRead ==
  ASSUME NEW S, NEW t \in Seq(S)
  PROVE  Expressions(t)[<<"Exp", 1, Len(t)>>] = CReading(t)
<1> DEFINE N == Len(t)
<1>1. N \in Nat /\ 1 \in 1 .. N + 1 /\ N \in 0 .. N
  OBVIOUS
<1>2. Derives(Expressions(t), t)
  BY <1>1, ExpressionsDerive
<1>3. PICK C : Reads(C, t) /\ CReading(t) = C[<<1, N>>]
  BY CReadingIs
<1>4. "Exp" \in ExpNonTerminals /\ 8 - Rank["Exp"] = 0
  BY RankFacts
<1>5. From(t, 1, N, 0)
  <2>1. ASSUME NEW m \in Binaries(t, 1, N) PROVE Precedence(t, m) >= 0
    <3>1. Precedence(t, m) \in 1 .. 6
      BY <1>1, BinaryFacts
    <3> QED BY <3>1
  <2> QED BY <2>1 DEF From
<1>6. Expressions(t)[<<"Exp", 1, N>>] = Expected(C, t, "Exp", 1, N)
  BY <1>1, <1>2, <1>3, <1>4, DerivedReads
<1> QED BY <1>3, <1>4, <1>5, <1>6 DEF Expected

\* An expression of any tokens is accepted exactly if C accepts it, and its
\* operators are applied in C's order (sysy.lalrpop:106-205, the chain of levels
\* from Exp to PrimaryExp), however long it is and however deep its parentheses.
THEOREM ExpressionsRead == SyntaxSpec => []ExpressionsAsInC
<1>1. TextType => ExpressionsAsInC
  <2> SUFFICES ASSUME TextType PROVE Expressions(Lex(text))[<<"Exp", 1, Len(Lex(text))>>] = CReading(Lex(text))
    BY DEF ExpressionsAsInC
  <2>1. Len(text) \in Nat
    BY DEF TextType
  <2>2. Lex(text) \in Seq(TokensIn(text))
    BY <2>1, LexType
  <2> QED BY <2>2, DerivedIsRead
<1> QED BY <1>1, TextIsAText, PTL
=============================================================================
