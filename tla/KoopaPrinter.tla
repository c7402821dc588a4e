---------------------------- MODULE KoopaPrinter ----------------------------
(***************************************************************************)
(* The text of a Koopa program (the Display impls of                       *)
(* src/src/koopa_ir/koopa_ir.rs), which main writes for -koopa and, before *)
(* the assembly, for -riscv.  Printing is not read-only: each function and *)
(* each block enters CONTEXT_STACK again, because a block finds the graph  *)
(* of its instructions there.                                              *)
(*                                                                         *)
(* An action prints one function.  A printed name or number is a word: its *)
(* sigil and its number; a line is the word left of "=", the mnemonic and  *)
(* the words after it.  Left out: indentation, braces and the header, and  *)
(* the errors of a formatter, which a String does not give.                *)
(***************************************************************************)
EXTENDS ContextStack

VARIABLES
  stack,     \* CONTEXT_STACK
  funcs,     \* Program.funcs
  printed,   \* the text: the lines of each function printed so far
  printing   \* "idle", "func" between functions, "done", "panic"

Word(sigil, num) == [sigil |-> sigil, num |-> num]
NoWord == Word("none", 0)

\* Operand::to_string
OperandWord(operand) ==
  CASE operand.kind = "InstId"  -> Word("%", operand.val)
    [] operand.kind = "Const"   -> Word("", operand.val)
    [] operand.kind = "BType"   -> Word("i32", 0)
    [] operand.kind = "Pointer" -> Word("@", operand.val)
    [] operand.kind = "None"    -> NoWord

Words(inst) == [k \in DOMAIN inst.operands |-> OperandWord(inst.operands[k])]

\* Slip: pointers and results have one sigil.
ResultWord_OneSigil(id, inst) ==
  CASE inst.ir_obj.kind = "InstId"  -> Word("%", id)
    [] inst.ir_obj.kind = "Pointer" -> Word("%", inst.ir_obj.val)
    [] OTHER                        -> NoWord

\* What stands before "=": the id under which the list has the instruction,
\* the pointer an ALLOC gives, or nothing.
ResultWord(id, inst) ==
  CASE inst.opcode = "RET"             -> NoWord
    [] inst.ir_obj.kind = "InstId"     -> Word("%", id)
    [] inst.ir_obj.kind = "Pointer"    -> Word("@", inst.ir_obj.val)
    [] OTHER                           -> NoWord

\* KoopaOpCode's Display.
Mnemonic ==
  [NE |-> "ne", EQ |-> "eq", GT |-> "gt", LT |-> "lt", GE |-> "ge", LE |-> "le",
   ADD |-> "add", SUB |-> "sub", MUL |-> "mul", DIV |-> "div", MOD |-> "mod",
   AND |-> "and", OR |-> "or", XOR |-> "xor", SHL |-> "shl", SHR |-> "shr", SAR |-> "sar",
   STORE |-> "store", LOAD |-> "load", ALLOC |-> "alloc", RET |-> "ret"]

\* Slip: the words are printed last to first.
Line_Reversed(id, inst) ==
  [lhs |-> ResultWord(id, inst), mnemonic |-> Mnemonic[inst.opcode], words |-> Reverse(Words(inst))]

\* "ret" prints its first operand only.
Line(id, inst) ==
  [lhs      |-> ResultWord(id, inst),
   mnemonic |-> Mnemonic[inst.opcode],
   words    |-> IF inst.opcode = "RET" THEN <<Words(inst)[1]>> ELSE Words(inst)]

\* get_inst(..).unwrap() and operands[0] of a return.
Printable(dfg, id) ==
  id \in DOMAIN dfg /\ (dfg[id].opcode = "RET" => dfg[id].operands # <<>>)

PrinterInit == printed = <<>> /\ printing = "idle"

StartPrinting ==
  /\ printing = "idle"
  /\ printing' = "func"
  /\ UNCHANGED <<stack, funcs, printed>>

\* Program's loop body, Func's and IRBlock's Display: the list is the block's
\* own, the graph that of the innermost context.  The second exit_scope finds
\* the stack empty, as in FuncDef::parse.
PrintFunc ==
  LET f       == Len(printed) + 1
      entered == EnterBlockScope(EnterFuncScope(stack, f))
      dfg     == funcs[Last(entered).func].inst_map
      list    == funcs[f].inst_list
      total   == \A k \in DOMAIN list : Printable(dfg, list[k])
      text    == [k \in DOMAIN list |-> Line(list[k], dfg[list[k]])]
  IN /\ printing = "func" /\ f <= Len(funcs)
     /\ stack'    = IF total THEN ExitScope(ExitScope(entered)) ELSE entered
     /\ printed'  = IF total THEN Append(printed, text) ELSE printed
     /\ printing' = IF total THEN "func" ELSE "panic"
     /\ UNCHANGED funcs

FinishPrinting ==
  /\ printing = "func" /\ Len(printed) = Len(funcs)
  /\ printing' = "done"
  /\ UNCHANGED <<stack, funcs, printed>>

PrinterNext == StartPrinting \/ PrintFunc \/ FinishPrinting
=============================================================================
