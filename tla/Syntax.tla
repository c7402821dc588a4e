------------------------------- MODULE Syntax -------------------------------
(***************************************************************************)
(* What the lexer and the grammar make of a source text, compared with     *)
(* what C makes of it.  The only behaviour is that a text is typed, one    *)
(* piece after another; a sample says what the pieces may be.              *)
(***************************************************************************)
EXTENDS Grammar

CONSTANT Samples   \* each a sequence of sets of pieces, which are texts
ASSUME SamplesAssumption == Samples \subseteq Seq(SUBSET Seq(STRING))

VARIABLES text, sample

syntaxvars == <<text, sample>>

SyntaxInit == text = <<>> /\ sample \in Samples

Type ==
  /\ sample # <<>>
  /\ \E piece \in Head(sample) : text' = text \o piece
  /\ sample' = Tail(sample)

SyntaxSpec == SyntaxInit /\ [][Type]_syntaxvars

-----------------------------------------------------------------------------
(* Comments.                                                               *)

BlockEnds == {k \in 2 .. Len(text) : At(text, k - 1, <<"*", "/">>)}

\* The text as C reads it: the comments, as the intervals they fill.  A block
\* comment without an end is none and stays what it is.
CComments ==
  LET comments[i \in 1 .. Len(text) + 1] ==
        LET lineEnd  == While(text, i, LAMBDA c : c \notin NewLine) - 1
            blockEnd == Min({k \in BlockEnds : k >= i + 3})
        IN IF i > Len(text) THEN {}
           ELSE IF At(text, i, <<"/", "/">>) THEN {i .. lineEnd} \cup comments[lineEnd + 1]
           ELSE IF At(text, i, <<"/", "*">>) /\ \E k \in BlockEnds : k >= i + 3
                THEN {i .. blockEnd} \cup comments[blockEnd + 1]
           ELSE comments[i + 1]
  IN comments[1]

WithoutComments ==
  LET inside == UNION CComments
  IN [k \in DOMAIN text |-> IF k \in inside THEN " " ELSE text[k]]

\* On a text whose lines have one "*/" at most, and none at the beginning,
\* and whose comments end in the line where they begin, the lexer skips the
\* comments of C and nothing else.
LineOf(k) == Cardinality({i \in 1 .. k - 1 : text[i] \in NewLine})
OneLiners ==
  /\ \A c \in CComments : \A k \in c : text[k] \notin NewLine
  /\ \A k, m \in BlockEnds : LineOf(k) = LineOf(m) => k = m
  /\ \A k \in BlockEnds : k = 2 \/ text[k - 2] \notin NewLine

CommentsOnOneLine == OneLiners => Lex(text) = Lex(WithoutComments)

\* What the comment over the rules says (sysy.lalrpop:9): the lexer skips
\* white space and comments.
CommentsSkipped == Lex(text) = Lex(WithoutComments)

-----------------------------------------------------------------------------
(* Literals.                                                               *)

\* The digits of n in a base, as many as it takes.
Numeral(n, base) ==
  LET digits[m \in 0 .. n] ==
        IF m = 0 THEN <<>> ELSE Append(digits[m \div base], Digits[(m % base) + 1])
  IN digits[n]

\* What C writes for n, in decimal, octal or hexadecimal: zeros and a numeral,
\* which must begin with no zero, with a zero, or follow 0x.
Pads(digits, numeral) ==
  LET zeros == Len(digits) - Len(numeral)
  IN zeros >= 0 /\ \A k \in DOMAIN digits :
                      digits[k] = IF k <= zeros THEN "0" ELSE numeral[k - zeros]
Writes(n) ==
  /\ text # <<>>
  /\ \/ text[1] \in DigitsOf(10) \ {"0"} /\ Pads(text, Numeral(n, 10))
     \/ text[1] = "0" /\ Pads(text, Numeral(n, 8))
     \/ /\ Len(text) > 2 /\ text[1] = "0" /\ text[2] \in HexMark
        /\ Pads(SubSeq(text, 3, Len(text)), Numeral(n, 16))

\* A text without white space and comments is the literal of a number that
\* fits an i32 exactly if it is one in C, in each of the three bases; any other
\* text of digits is refused, for the unwrap or because no production has two
\* numbers in a row.
Unspaced ==
  \A k \in DOMAIN text : /\ text[k] \notin Space
                         /\ ~At(text, k, <<"/", "/">>) /\ ~At(text, k, <<"/", "*">>)
LiteralsAsInC ==
  LET tokens == Lex(text)
  IN Unspaced => \A n \in 0 .. MaxInt : tokens = <<Number(n)>> <=> Writes(n)

-----------------------------------------------------------------------------
(* Expressions.                                                            *)

CPrecedence(op) ==
  CASE op = "||" -> 1 [] op = "&&" -> 2 [] op \in {"==", "!="} -> 3
    [] op \in {"<", "<=", ">", ">="} -> 4 [] op \in {"+", "-"} -> 5
    [] op \in {"*", "/", "%"} -> 6
BinarySigns == UNION {BinaryLevel[l].ops : l \in DOMAIN BinaryLevel}
LevelOf(sign) == CHOOSE l \in DOMAIN BinaryLevel : sign \in BinaryLevel[l].ops

\* How C reads the tokens i .. j, where C is how it reads fewer: an operator is
\* binary if it follows an operand; the one applied last is the rightmost of
\* the lowest precedence that is not in parentheses; without one, a sign
\* applies to all the rest.
Depth(tokens, i, k) == Cardinality(Places(tokens, i, k, {"("})) - Cardinality(Places(tokens, i, k, {")"}))
Binaries(tokens, i, j) ==
  {k \in Places(tokens, i + 1, j, BinarySigns) :
     Is(tokens, k - 1, {"ident", "number", ")"}) /\ Depth(tokens, i, k) = 0}
Reading(C, tokens, i, j) ==
  LET prec(k) == CPrecedence(tokens[k].kind)
      last == {k \in Binaries(tokens, i, j) : \A m \in Binaries(tokens, i, j) : prec(k) <= prec(m)}
      root == Max(last)
      sign == tokens[root].kind
  IN IF i > j THEN {}
     ELSE IF last # {}
     THEN C[<<i, root - 1>>] ** C[<<root + 1, j>>] ** {<<Visit(LevelOf(sign), BinaryOp(sign), NoToken)>>}
     ELSE IF Is(tokens, i, UnarySigns)
     THEN C[<<i + 1, j>>] ** {<<Visit("UnaryExp", UnaryOp(tokens[i].kind), NoToken)>>}
     ELSE IF Is(tokens, i, {"("}) /\ Is(tokens, j, {")"}) THEN C[<<i + 1, j - 1>>]
     ELSE IF i = j /\ Is(tokens, i, {"ident"}) THEN VisitsOf("LVal", tokens[i])
     ELSE IF i = j /\ Is(tokens, i, {"number"}) THEN VisitsOf("Number", tokens[i])
     ELSE {}
CReading(tokens) ==
  LET C[s \in (1 .. Len(tokens) + 1) \X (0 .. Len(tokens))] == Reading(C, tokens, s[1], s[2])
  IN C[<<1, Len(tokens)>>]

\* An expression is accepted exactly if C accepts it, and the handlers apply
\* its operators in C's order: each level of productions has the precedence
\* and the associativity of its operators ("the match items in the block must
\* follow the priority strictly", sysy.lalrpop:109).
ExpressionsAsInC ==
  LET tokens == Lex(text) IN Expressions(tokens)[<<"Exp", 1, Len(tokens)>>] = CReading(tokens)

-----------------------------------------------------------------------------
(* Programs.                                                               *)

\* The text of a program of which only the handlers' visits are known.
Sign(op) ==
  CASE op = "Or"  -> "||" [] op = "And" -> "&&" [] op = "Eq" -> "==" [] op = "Ne" -> "!="
    [] op = "Lt"  -> "<"  [] op = "Le"  -> "<=" [] op = "Gt" -> ">"  [] op = "Ge" -> ">="
    [] op = "Add" -> "+"  [] op = "Sub" -> "-"  [] op = "Mul" -> "*" [] op = "Div" -> "/"
    [] op = "Mod" -> "%"  [] op = "Plus" -> "+" [] op = "Minus" -> "-" [] op = "Not" -> "!"
Write(kinds) == [k \in DOMAIN kinds |-> Terminal(kinds[k])]
Parenthesised(exp) == Write(<<"(">>) \o exp \o Write(<<")">>)

\* so far: the tokens written and the operands that wait for an operator.
Spell(far, visit) ==
  LET exps == far.exps
      n    == Len(exps)
      put(tokens)  == [far EXCEPT !.tokens = @ \o tokens]
      push(k, exp) == [far EXCEPT !.exps = Append(SubSeq(@, 1, n - k), Parenthesised(exp))]
      name == <<visit.token>>
  IN CASE visit.handler = "BeginFunc"  -> put(Write(<<"int">>) \o name \o Write(<<"(", ")", "{">>))
       [] visit.handler \in {"EndFunc", "EndBlock"} -> put(Write(<<"}">>))
       [] visit.handler = "BeginBlock" -> put(Write(<<"{">>))
       [] visit.handler = "BeginConstDef" -> put(Write(<<"const", "int">>) \o name \o Write(<<"=">>))
       [] visit.handler = "BeginVarDef"   -> put(Write(<<"int">>) \o name \o Write(<<"=">>))
       [] visit.handler = "VarDefOnly"    -> put(Write(<<"int">>) \o name \o Write(<<";">>))
       [] visit.handler = "BeginAssign"   -> put(name \o Write(<<"=">>))
       [] visit.handler = "BeginReturn"   -> put(Write(<<"return">>))
       [] visit.handler = "BeginRaw"      -> far
       [] visit.handler \in {"EndConstDef", "EndVarDef", "EndAssign", "EndReturn", "EndRawExp"} ->
            [tokens |-> far.tokens \o exps[1] \o Write(<<";">>), exps |-> <<>>]
       [] visit.handler \in {"LVal", "Number"} -> push(0, name)
       [] visit.handler = "UnaryExp" -> push(1, Write(<<Sign(visit.op)>>) \o exps[n])
       [] OTHER -> push(2, exps[n - 1] \o Write(<<Sign(visit.op)>>) \o exps[n])

Spelling(visits) ==
  LET far[n \in 0 .. Len(visits)] ==
        IF n = 0 THEN [tokens |-> <<>>, exps |-> <<>>] ELSE Spell(far[n - 1], visits[n])
  IN far[Len(visits)].tokens

\* What is left of a program when its layout and its types are taken away.
WordKinds == {"ident", "number", "return"} \cup BinarySigns \cup UnarySigns
Words(tokens) ==
  LET words[n \in 0 .. Len(tokens)] ==
        IF n = 0 THEN <<>>
        ELSE IF tokens[n].kind \in WordKinds THEN Append(words[n - 1], tokens[n]) ELSE words[n - 1]
  IN words[Len(tokens)]

\* The handlers visit all that is written, in its order: no definition,
\* statement or operand is lost, repeated or moved by a production, a program
\* has one derivation, and what the handlers visit could be written so that
\* they visit it again.
ProgramsReadBack ==
  LET tokens   == Lex(text)
      readings == Derivations(tokens)
  IN /\ Cardinality(readings) <= 1
     /\ \A visits \in readings :
          /\ Words(Spelling(visits)) = Words(tokens)
          /\ Derivations(Spelling(visits)) = {visits}
=============================================================================
