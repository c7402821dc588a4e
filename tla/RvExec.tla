------------------------------- MODULE RvExec -------------------------------
(***************************************************************************)
(* A RISC-V core, as far as the code of AsmGen uses one: 32 registers and  *)
(* memory.  The caller's stack pointer counts as address 0, and everything *)
(* else the caller left in registers is a value of its own, outside Int32, *)
(* so that one that turns up later is recognised.                          *)
(*                                                                         *)
(* It executes the text: a line is a mnemonic and the words after it, in   *)
(* the order the assembler reads them (the target of "lw" first, the value *)
(* of "sw" first).                                                         *)
(***************************************************************************)
EXTENDS KoopaExec, RegAlloc, Sequences

CallerValue(r) == Modulus + r
CalleeSaved    == {1, 3, 4, 8, 9} \cup 18 .. 27   \* ra, gp, tp, s0-s11

NewCpu == [x      |-> [r \in Reg |-> CASE r = ZERO -> 0 [] r = SP -> 0
                                       [] OTHER -> CallerValue(r)],
           mem    |-> [a \in {} |-> 0],
           halted |-> FALSE]

Written(cpu, r, v) == IF r = ZERO THEN cpu ELSE [cpu EXCEPT !.x[r] = v]

AddressOf(cpu, slot) == cpu.x[slot.reg] + slot.offset
Peek(cpu, a) == IF a \in DOMAIN cpu.mem THEN cpu.mem[a] ELSE Undef
Poke(cpu, a, v) ==
  [cpu EXCEPT !.mem = [b \in DOMAIN @ \cup {a} |-> IF b = a THEN v ELSE @[b]]]

BitXor(l, r) == OnBits([p \in BitPairs |-> (p[1] + p[2]) % 2], l, r)

\* The instructions that compute a register from registers.
Alu(mnemonic, l, r) ==
  CASE mnemonic = "add"  -> Wrap(l + r)
    [] mnemonic = "sub"  -> Wrap(l - r)
    [] mnemonic = "mul"  -> Wrap(l * r)
    [] mnemonic = "div"  -> Div(l, r)
    [] mnemonic = "rem"  -> Rem(l, r)
    [] mnemonic = "slt"  -> Truth(l < r)
    [] mnemonic = "sgt"  -> Truth(l > r)
    [] mnemonic = "seqz" -> Truth(l = 0)
    [] mnemonic = "snez" -> Truth(l # 0)
    [] mnemonic = "xor"  -> BitXor(l, r)
    [] mnemonic = "and"  -> BitAnd(l, r)
    [] mnemonic = "or"   -> BitOr(l, r)

\* One line; after "ret" the caller goes on and nothing here is reached.
Step(cpu, line) ==
  LET w    == line.words
      x(k) == cpu.x[w[k].reg]
  IN IF cpu.halted THEN cpu
     ELSE CASE line.mnemonic = "ret"  -> [cpu EXCEPT !.halted = TRUE]
            [] line.mnemonic = "li"   -> Written(cpu, w[1].reg, w[2].offset)
            [] line.mnemonic = "addi" -> Written(cpu, w[1].reg, x(2) + w[3].offset)
            [] line.mnemonic = "lw"   -> Written(cpu, w[1].reg, Peek(cpu, AddressOf(cpu, w[2])))
            [] line.mnemonic = "sw"   -> Poke(cpu, AddressOf(cpu, w[2]), x(1))
            [] line.mnemonic \in {"seqz", "snez"} ->
                 Written(cpu, w[1].reg, Alu(line.mnemonic, x(2), 0))
            [] OTHER -> Written(cpu, w[1].reg, Alu(line.mnemonic, x(2), x(3)))
=============================================================================
