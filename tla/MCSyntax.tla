------------------------------ MODULE MCSyntax ------------------------------
(***************************************************************************)
(* Syntax on samples of texts.                                             *)
(***************************************************************************)
EXTENDS Syntax

\* Any text of up to eight characters of comments.
CommentText == [k \in 1 .. 8 |-> {<<"/">>, <<"*">>, <<"nl">>, <<"a">>}]

\* Any text of up to five characters of literals.
LiteralText ==
  [k \in 1 .. 5 |-> {<<"0">>, <<"1">>, <<"7">>, <<"9">>, <<"x">>, <<"b">>}]

\* Any two operators, or three of different levels, with signs and parentheses.
Prefix    == {<<"!">>, <<"-">>, <<"+">>}
Operand  == {<<"a">>, <<"(", "a">>, <<"a", ")">>}
Operator == {<<"|", "|">>, <<"&", "&">>, <<"=", "=">>, <<"<", "=">>, <<"+">>, <<"*">>}
Others   == {<<"!", "=">>, <<"<">>, <<">">>, <<">", "=">>, <<"-">>, <<"/">>, <<"%">>}
TwoText   == <<Operand \cup {s \o <<"a">> : s \in Prefix}, Operator \cup Others,
               Operand \cup Prefix, Operator \cup Others, Operand>>
ThreeText == <<Operand, Operator, Operand, Operator, Operand, Operator, Operand>>

\* A function of up to four pieces of declarations and statements, or two.
Opening == <<"int", " ", "f", "(", ")", "{">>
Piece   == {<<"{">>, <<"}">>, <<";">>, <<"a">>, <<"=", "1">>, <<",", "g", "=", "1">>,
            <<"int", " ", "a">>, <<"const", " ", "int", " ", "b", "=", "1">>,
            <<"return", " ", "a">>}
ProgramText == <<{Opening}, Piece, Piece, Piece, Piece, {<<"}">>, <<"}">> \o Opening \o <<"}">>}>>

AllSamples == {CommentText, LiteralText, TwoText, ThreeText, ProgramText}
\* Comments that are whole, names and line breaks.
CommentSamples == {[k \in 1 .. 4 |-> {<<"/", "*", "*", "/">>, <<"/", "/", "nl">>, <<"a">>, <<"nl">>}]}
=============================================================================
