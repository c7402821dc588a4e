----------------------------- MODULE KoopaExec -----------------------------
(***************************************************************************)
(* What Koopa instructions compute: a machine that executes the code of    *)
(* one function, an instruction at a time.  The repository prints Koopa or *)
(* lowers it and has no interpreter; the meaning is the one its back end   *)
(* gives each opcode (src/src/asm/asm.rs, AsmInst::from), except where a   *)
(* comment and the back end disagree: then it is a parameter or the name   *)
(* of the opcode decides.                                                  *)
(***************************************************************************)
EXTENDS I32, KoopaIR, FiniteSetsExt

\* A value nothing is promised about: of memory that was never stored to.
Undef == MaxInt + 1
Value == Int32 \cup {Undef}

\* The machine: the value of each instruction, the content of each allocated
\* pointer, and what the function returned (Undef until it does).
NewMachine == [vals |-> <<>>, mem |-> <<>>, ret |-> Undef]

\* The word whose bits op gives for the bits of l and r, which are two's
\* complement: halving drops the last bit, and 0 and -1, whose bits are all
\* one bit, stay what they are.
OnBits(op, l, r) ==
  LET word[p \in Int32 \X Int32] ==
        LET rest == <<p[1] \div 2, p[2] \div 2>>
            bit  == op[<<p[1] % 2, p[2] % 2>>]
        IN IF rest = p THEN -bit ELSE 2 * word[rest] + bit
  IN word[<<Wrap(l), Wrap(r)>>]

BitPairs == {0, 1} \X {0, 1}
BitAnd(l, r) == OnBits([p \in BitPairs |-> p[1] * p[2]], l, r)
BitOr(l, r)  == OnBits([p \in BitPairs |-> p[1] + p[2] - p[1] * p[2]], l, r)

\* Division as RISC-V defines it where Rust and C do not.
Div(l, r) == IF r = 0 THEN -1 ELSE Wrap(TruncDiv(l, r))
Rem(l, r) == IF r = 0 THEN l ELSE Wrap(TruncRem(l, r))

\* AND and OR on truth values, which is how the back end lowers them (two
\* SNEZ first), or on bits, which is what their names say in Koopa.
Compute(opcode, bitwise, l, r) ==
  CASE opcode = "NE"  -> Truth(l # r)
    [] opcode = "EQ"  -> Truth(l = r)
    [] opcode = "GT"  -> Truth(l > r)
    [] opcode = "LT"  -> Truth(l < r)
    [] opcode = "GE"  -> Truth(l >= r)
    [] opcode = "LE"  -> Truth(l <= r)
    [] opcode = "ADD" -> Wrap(l + r)
    [] opcode = "SUB" -> Wrap(l - r)
    [] opcode = "MUL" -> Wrap(l * r)
    [] opcode = "DIV" -> Div(l, r)
    [] opcode = "MOD" -> Rem(l, r)
    [] opcode = "AND" -> IF bitwise THEN BitAnd(l, r) ELSE Truth(l # 0 /\ r # 0)
    [] opcode = "OR"  -> IF bitwise THEN BitOr(l, r) ELSE Truth(l # 0 \/ r # 0)

\* The value of an operand.
Read(machine, operand) ==
  CASE operand.kind = "Const"   -> operand.val
    [] operand.kind = "InstId"  -> machine.vals[operand.val + 1]
    [] operand.kind = "Pointer" -> machine.mem[operand.val]

\* One instruction.  The first RET decides what the function returns; code
\* after it is never reached, and what it would compute is computed all the
\* same, so that it too can be compared with its source.
Execute(machine, inst, bitwise) ==
  LET arg(k)    == Read(machine, inst.operands[k])
      result(v) == [machine EXCEPT !.vals = Append(@, v)]
      pointer   == inst.ir_obj.val
  IN CASE inst.opcode = "ALLOC" ->
            [result(Undef) EXCEPT !.mem =
               [p \in DOMAIN @ \cup {pointer} |-> IF p = pointer THEN Undef ELSE @[p]]]
       [] inst.opcode = "LOAD"  -> result(arg(1))
       [] inst.opcode = "STORE" ->
            [result(Undef) EXCEPT !.mem[inst.operands[2].val] = arg(1)]
       [] inst.opcode = "RET"   ->
            [result(Undef) EXCEPT !.ret = IF @ = Undef THEN arg(1) ELSE @]
       [] OTHER                 ->
            result(Compute(inst.opcode, bitwise, arg(1), arg(2)))
=============================================================================
