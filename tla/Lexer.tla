------------------------------- MODULE Lexer -------------------------------
(***************************************************************************)
(* The lexer of src/src/sysy.lalrpop: the rules of its "match" block, and  *)
(* the terminals the grammar names.  lalrpop's lexer takes the longest     *)
(* match of any rule at each position and drops what the rules of the      *)
(* block match.                                                            *)
(*                                                                         *)
(* A text is a sequence of characters.  A keyword is one character here,   *)
(* and no part of an identifier; "nl" stands for line feed and carriage    *)
(* return; a few letters stand for all.                                    *)
(***************************************************************************)
EXTENDS I32, SequencesExt

NewLine == {"nl"}
Space   == {" "} \cup NewLine

Digits   == <<"0", "1", "2", "3", "4", "5", "6", "7", "8", "9", "a", "b", "c", "d", "e", "f">>
DigitsOf(base) == {Digits[k] : k \in 1 .. base}
DigitValue(c)  == (CHOOSE k \in DOMAIN Digits : Digits[k] = c) - 1
HexMark  == {"x", "X"}
Letters  == {"a", "b", "c", "d", "e", "f", "g", "h", "_"} \cup HexMark

Keywords == {"int", "void", "const", "return"}
Terminals == Keywords \cup
  {"(", ")", "{", "}", ";", ",", "=", "||", "&&", "==", "!=", "<", "<=", ">", ">=",
   "+", "-", "!", "*", "/", "%"}
Spelt(terminal) ==
  CASE terminal = "||" -> <<"|", "|">>
    [] terminal = "&&" -> <<"&", "&">>
    [] terminal = "==" -> <<"=", "=">>
    [] terminal = "!=" -> <<"!", "=">>
    [] terminal = "<=" -> <<"<", "=">>
    [] terminal = ">=" -> <<">", "=">>
    [] OTHER           -> <<terminal>>

\* A terminal, an identifier, a number that fits, or what no token is:
\* characters no rule matches, a literal from_str_radix(..).unwrap() refuses.
Token(kind, name, num) == [kind |-> kind, name |-> name, num |-> num]
Terminal(t) == Token(t, <<>>, 0)
Ident(name) == Token("ident", name, 0)
Number(n)   == Token("number", <<>>, n)
NoToken     == Token("none", <<>>, 0)

-----------------------------------------------------------------------------
At(text, i, chars) ==
  i + Len(chars) - 1 <= Len(text) /\ \A k \in DOMAIN chars : text[i + k - 1] = chars[k]

\* Where a run of characters that begins at i ends: the first place after it.
While(text, i, IsIn(_)) ==
  Min({k \in i .. Len(text) : ~IsIn(text[k])} \cup {Max({i, Len(text) + 1})})

Class(text, i, first, others) ==
  IF i <= Len(text) /\ text[i] \in first
  THEN {While(text, i + 1, LAMBDA c : c \in others)} ELSE {}

\* Slip: the characters of the comment are not restricted to its line.
LineComment_AnyCharacter(text, i) ==
  IF At(text, i, <<"/", "/">>) THEN {While(text, i + 2, LAMBDA c : TRUE)} ELSE {}

\* r"//[^\n\r]*[\n\r]*"
LineComment(text, i) ==
  IF At(text, i, <<"/", "/">>)
  THEN {While(text, While(text, i + 2, LAMBDA c : c \notin NewLine), LAMBDA c : c \in NewLine)}
  ELSE {}

\* r"/\*[^\n\r]*[\n\r]*\*/": any such end; the longest match takes the last.
BlockComment(text, i) ==
  {k + 2 : k \in {m \in i + 2 .. Len(text) :
     /\ At(text, i, <<"/", "*">>) /\ At(text, m, <<"*", "/">>)
     /\ \E line \in i + 2 .. m : \A c \in i + 2 .. m - 1 : text[c] \in NewLine <=> c >= line}}

HexLiteral(text, i) ==
  IF At(text, i, <<"0">>) /\ i < Len(text) /\ text[i + 1] \in HexMark
  THEN Class(text, i + 2, DigitsOf(16), DigitsOf(16)) ELSE {}

\* Where each rule's match at i may end.
Ends(text, i) ==
  [space   |-> Class(text, i, Space, Space),
   line    |-> LineComment(text, i),
   block   |-> BlockComment(text, i),
   ident   |-> Class(text, i, Letters, Letters \cup DigitsOf(10)),
   decimal |-> Class(text, i, DigitsOf(10) \ {"0"}, DigitsOf(10)),
   octal   |-> Class(text, i, {"0"}, DigitsOf(8)),
   hex     |-> HexLiteral(text, i),
   literal |-> {i + Len(Spelt(t)) : t \in {u \in Terminals : At(text, i, Spelt(u))}}]

\* i32::from_str_radix and its unwrap.
IntConst(base, digits) ==
  LET value[k \in 0 .. Len(digits)] ==
        IF k = 0 THEN 0 ELSE value[k - 1] * base + DigitValue(digits[k])
      n == value[Len(digits)]
  IN IF n <= MaxInt THEN Number(n) ELSE NoToken

\* Slip: a literal is decimal unless it is hexadecimal.
TokenOf_NoOctal(rule, lexeme) ==
  CASE rule = "literal" -> Terminal(CHOOSE t \in Terminals : Spelt(t) = lexeme)
    [] rule = "ident"   -> Ident(lexeme)
    [] rule \in {"decimal", "octal"} -> IntConst(10, lexeme)
    [] rule = "hex"     -> IntConst(16, SubSeq(lexeme, 3, Len(lexeme)))

TokenOf(rule, lexeme) ==
  CASE rule = "literal" -> Terminal(CHOOSE t \in Terminals : Spelt(t) = lexeme)
    [] rule = "ident"   -> Ident(lexeme)
    [] rule = "decimal" -> IntConst(10, lexeme)
    [] rule = "octal"   -> IntConst(8, lexeme)
    [] rule = "hex"     -> IntConst(16, SubSeq(lexeme, 3, Len(lexeme)))

Lex(text) ==
  LET lex[i \in 1 .. Len(text) + 1] ==
        LET ends   == Ends(text, i)
            all    == UNION {ends[r] : r \in DOMAIN ends}
            rule   == CHOOSE r \in DOMAIN ends : Max(all) \in ends[r]
            lexeme == SubSeq(text, i, Max(all) - 1)
        IN IF i > Len(text) THEN <<>>
           ELSE IF all = {} THEN <<NoToken>>
           ELSE IF rule \in {"space", "line", "block"} THEN lex[Max(all)]
           ELSE <<TokenOf(rule, lexeme)>> \o lex[Max(all)]
  IN lex[1]
=============================================================================
