---------------------------- MODULE KoopaReader ----------------------------
(***************************************************************************)
(* A reader of Koopa text as KoopaPrinter writes it, with nothing but the  *)
(* text to go by: a name means the line that defines it, whatever graph or *)
(* list the line came from.  The opcodes mean what KoopaExec says.         *)
(***************************************************************************)
EXTENDS KoopaExec

\* What each defined name stands for (a result, or what is stored at a
\* pointer), and what the function returned.
NewReader == [env |-> [w \in {} |-> Undef], ret |-> Undef]

Denotes(reader, word) ==
  IF word.sigil = "" THEN word.num
  ELSE IF word \in DOMAIN reader.env THEN reader.env[word]
  ELSE Undef

Define(reader, word, v) ==
  [reader EXCEPT !.env =
     [w \in DOMAIN @ \cup {word} |-> IF w = word THEN v ELSE @[w]]]

\* The operations, by the names they have in Koopa.
Operation ==
  [ne  |-> "NE",  eq  |-> "EQ",  gt  |-> "GT",  lt  |-> "LT",  ge |-> "GE", le |-> "LE",
   add |-> "ADD", sub |-> "SUB", mul |-> "MUL", div |-> "DIV", mod |-> "MOD",
   and |-> "AND", or  |-> "OR"]

ReadLine(reader, line, bitwise) ==
  LET arg(k) == Denotes(reader, line.words[k])
  IN CASE line.mnemonic = "alloc" -> Define(reader, line.lhs, Undef)
       [] line.mnemonic = "load"  -> Define(reader, line.lhs, arg(1))
       [] line.mnemonic = "store" -> Define(reader, line.words[2], arg(1))
       [] line.mnemonic = "ret"   ->
            [reader EXCEPT !.ret = IF @ = Undef THEN arg(1) ELSE @]
       [] OTHER                 ->
            Define(reader, line.lhs, Compute(Operation[line.mnemonic], bitwise, arg(1), arg(2)))

\* What is known after reading all of the lines.
ReadText(lines, bitwise) ==
  LET after[k \in 0 .. Len(lines)] ==
        IF k = 0 THEN NewReader ELSE ReadLine(after[k - 1], lines[k], bitwise)
  IN after[Len(lines)]
=============================================================================
