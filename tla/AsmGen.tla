------------------------------- MODULE AsmGen -------------------------------
(***************************************************************************)
(* The back end (src/src/asm/asm.rs): lowers the Koopa code of every       *)
(* function to RISC-V, one instruction after the other.  Every value lives *)
(* in a slot of the function's frame; an instruction loads its operands    *)
(* into temporary registers, computes, frees them all and stores.          *)
(*                                                                         *)
(* An action is the lowering of one Koopa instruction, all the calls of    *)
(* AsmInst::from for its opcode.  A lowering is a chain of steps on a      *)
(* record g: the register map, the frames, the RISC-V instructions emitted *)
(* so far, and what the last step gave back.                               *)
(***************************************************************************)
EXTENDS ContextStack, RegAlloc, StackFrames

VARIABLES
  stack,    \* CONTEXT_STACK, which the front end left
  funcs,    \* Program.funcs
  regs,     \* RVREG_ALLOCATOR.map
  frames,   \* STK_FRM_MANAGER.frames
  blocks,   \* Asm.blocks: the instructions of each function lowered so far
  fn,       \* the function being lowered or next to be
  pos,      \* the place of the next instruction in its list
  phase     \* "func" between functions, "inst" within one, "done", "panic"

genvars == <<stack, funcs, regs, frames, blocks, fn, pos, phase>>

\* A field the instruction does not have is Absent.
AsmInst(opcode, rd, rs1, rs2, imm) ==
  [opcode |-> opcode, rd |-> rd, rs1 |-> rs1, rs2 |-> rs2, imm |-> imm]

\* Asm::from starts with what thread_local! initialises.
GenInit ==
  /\ regs = AllIdle /\ frames = <<>> /\ blocks = <<>>
  /\ fn = 1 /\ pos = 1 /\ phase = "func"

-----------------------------------------------------------------------------
(* Functions.                                                              *)

\* The function of the innermost context, and its instruction to be lowered.
Func == funcs[Last(stack).func]
Id   == Func.inst_list[pos]
Data == Func.inst_map[Id]

AdjustSp(n) == AsmInst("ADDI", Temp(SP), Temp(SP), Absent, Imm(n))

\* Asm::from up to the function's first instruction: the scopes are entered
\* and the frame is opened.  FuncDef::parse pushed one ir_block, so the loop
\* over ir_blocks runs once.
BeginAsmBlock ==
  /\ phase = "func" /\ fn <= Len(funcs)
  /\ stack'  = EnterBlockScope(EnterFuncScope(stack, fn))
  /\ frames' = Prologue(frames, funcs[fn])
  /\ blocks' = Append(blocks,
       <<AdjustSp(-GetSize(frames'))>> \o
       (IF IsCallee(frames') THEN <<AsmInst("SW", Absent, Mem(0), Absent, Absent)>> ELSE <<>>))
  /\ pos' = 1
  /\ phase' = "inst"
  /\ UNCHANGED <<funcs, regs, fn>>

\* The end of the block and of the function; the second exit_scope, of
\* Asm::from, finds an empty stack.
EndAsmBlock ==
  /\ phase = "inst" /\ pos > Len(Func.inst_list)
  /\ stack'  = ExitScope(ExitScope(stack))
  /\ frames' = Epilogue(frames)
  /\ fn' = fn + 1
  /\ phase' = "func"
  /\ UNCHANGED <<funcs, regs, blocks, pos>>

FinishAsm ==
  /\ phase = "func" /\ fn > Len(funcs)
  /\ phase' = "done"
  /\ UNCHANGED <<stack, funcs, regs, frames, blocks, fn, pos>>

-----------------------------------------------------------------------------
(* The steps of a lowering.                                                *)

Lowering(opcodes) ==
  phase = "inst" /\ pos <= Len(Func.inst_list) /\ Data.opcode \in opcodes

Now == [regs |-> regs, frames |-> frames, out |-> <<>>, got |-> NoReg, ok |-> TRUE]

\* AsmBlock::from takes what AsmInst::from gave back.
Commit(g) ==
  /\ regs' = g.regs /\ frames' = g.frames
  /\ blocks' = [blocks EXCEPT ![Len(blocks)] = @ \o g.out]
  /\ pos' = pos + 1
  /\ phase' = IF g.ok THEN "inst" ELSE "panic"
  /\ UNCHANGED <<stack, funcs, fn>>

Emitted(g, opcode, rd, rs1, rs2, imm) ==
  [g EXCEPT !.out = Append(@, AsmInst(opcode, rd, rs1, rs2, imm))]

\* A temporary register for instruction id, nothing if all are taken.
Occupied(g, id) ==
  [g EXCEPT !.regs = OccupyReg(@, id), !.got = FindFreeReg(g.regs)]

\* Slip: the register that was taken last stays taken.
Freed_NotLast(g, taken) ==
  [g EXCEPT !.regs = [r \in Reg |->
     IF Temp(r) \in taken \ {g.got} THEN REG_IDLE ELSE g.regs[r]]]

\* free_temp of everything that was taken.
Freed(g, taken) ==
  [g EXCEPT !.regs = [r \in Reg |-> IF Temp(r) \in taken THEN REG_IDLE ELSE @[r]]]

\* The slot of an operand; the unwrap panics when it has none.
NamedVar(g, name) ==
  IF HasVar(g.frames, name)
  THEN [g EXCEPT !.got = Mem(GetNamedVar(g.frames, name))]
  ELSE [g EXCEPT !.got = NoReg, !.ok = FALSE]

\* A slot for the result of the instruction, of the size of its type, and the
\* register r stored there.
ResultVar(g) ==
  [g EXCEPT !.got = Mem(VarOffset(g.frames)),
            !.frames = AllocVar(@, FromParseResult(Data.ir_obj), Data.typ)]
Saved(g, r) ==
  LET slot == ResultVar(g) IN Emitted(slot, "SW", Absent, slot.got, r, Absent)

\* Slip: a return value goes to any register.
TargetReg_Any(g, id) == Occupied(g, id)

\* A return value goes to a0, which is neither looked up in the map nor marked.
TargetReg(g, id) ==
  IF Data.opcode = "RET" THEN [g EXCEPT !.got = Temp(A0)] ELSE Occupied(g, id)

\* Slip: an operand that is a result is taken from a0, where the last result
\* might still be.
ProcessOp_StaleReg(g, k) ==
  LET operand == Data.operands[k]
      imm     == TargetReg(g, Id)
      slot    == NamedVar(g, operand)
  IN CASE operand.kind = "Const" /\ operand.val = 0 -> [g EXCEPT !.got = Temp(ZERO)]
       [] operand.kind = "Const" /\ operand.val # 0 ->
            Emitted(imm, "LI", imm.got, Absent, Absent, Imm(operand.val))
       [] operand.kind = "InstId"  -> [g EXCEPT !.got = Temp(A0)]
       [] operand.kind = "Pointer" -> slot

\* process_op for the k-th operand gives back a register that holds the value,
\* or the slot a pointer names.
ProcessOp(g, k) ==
  LET operand == Data.operands[k]
      slot    == NamedVar(g, operand)
      imm     == TargetReg(g, Id)
      value   == TargetReg(slot, operand.val)
      panic   == [g EXCEPT !.got = NoReg, !.ok = FALSE]
  IN CASE operand.kind = "Const" /\ operand.val = 0 -> [g EXCEPT !.got = Temp(ZERO)]
       [] operand.kind = "Const" /\ operand.val # 0 ->
            IF imm.got = NoReg THEN panic
            ELSE Emitted(imm, "LI", imm.got, Absent, Absent, Imm(operand.val))
       [] operand.kind = "InstId"  -> Emitted(value, "LW", slot.got, value.got, Absent, Absent)
       [] operand.kind = "Pointer" -> slot
       [] operand.kind = "BType"   -> panic
       [] operand.kind = "None"    -> [g EXCEPT !.got = NoReg]

-----------------------------------------------------------------------------
(* AsmInst::from, by opcode.                                               *)

\* The difference of the operands, compared with zero.
LowerEq ==
  /\ Lowering({"EQ", "NE"})
  /\ LET a == ProcessOp(Now, 1)
         b == ProcessOp(a, 2)
         x == Occupied(b, Id)
         d == Occupied(Emitted(x, "XOR", x.got, a.got, b.got, Absent), Id)
         e == Emitted(d, IF Data.opcode = "EQ" THEN "SEQZ" ELSE "SNEZ",
                      d.got, x.got, Absent, Absent)
     IN Commit(Saved(Freed(e, {a.got, b.got, x.got, d.got}), d.got))

\* Slip: the operation is applied to the operands themselves.
LowerLogic_Raw ==
  /\ Lowering({"AND", "OR"})
  /\ LET a == ProcessOp(Now, 1)
         b == ProcessOp(a, 2)
         d == Occupied(b, Id)
         e == Emitted(d, Data.opcode, d.got, a.got, b.got, Absent)
     IN Commit(Saved(Freed(e, {a.got, b.got, d.got}), d.got))

\* Both operands become truth values before the operation.
LowerLogic ==
  /\ Lowering({"AND", "OR"})
  /\ LET a == ProcessOp(Now, 1)
         b == ProcessOp(a, 2)
         x == Occupied(b, Id)
         y == Occupied(Emitted(x, "SNEZ", x.got, a.got, Absent, Absent), Id)
         d == Occupied(Emitted(y, "SNEZ", y.got, b.got, Absent, Absent), Id)
         e == Emitted(d, Data.opcode, d.got, x.got, y.got, Absent)
     IN Commit(Saved(Freed(e, {a.got, b.got, x.got, y.got, d.got}), d.got))

\* LE and GE become the strict comparisons, as the code has it.
RVOpCode ==
  [ADD |-> "ADD", SUB |-> "SUB", MUL |-> "MUL", DIV |-> "DIV", MOD |-> "REM",
   XOR |-> "XOR", LT  |-> "SLT", LE  |-> "SLT", GT  |-> "SGT", GE  |-> "SGT",
   SAR |-> "SRA", SHL |-> "SLL", SHR |-> "SRL"]

LowerBinary ==
  /\ Lowering(DOMAIN RVOpCode)
  /\ LET a == ProcessOp(Now, 1)
         b == ProcessOp(a, 2)
         d == Occupied(b, Id)
         e == Emitted(d, RVOpCode[Data.opcode], d.got, a.got, b.got, Absent)
     IN Commit(Saved(Freed(e, {a.got, b.got, d.got}), d.got))

LowerAlloc == Lowering({"ALLOC"}) /\ Commit(ResultVar(Now))

LowerLoad ==
  /\ Lowering({"LOAD"})
  /\ LET p == ProcessOp(Now, 1)
         r == Occupied(p, Id)
         e == Emitted(r, "LW", p.got, r.got, Absent, Absent)
     IN Commit(Saved(Freed(e, {r.got, p.got}), r.got))

\* The pointer, the second operand, is processed first.
LowerStore ==
  /\ Lowering({"STORE"})
  /\ LET p == ProcessOp(Now, 2)
         v == ProcessOp(p, 1)
     IN Commit(Freed(Emitted(v, "SW", Absent, p.got, v.got, Absent), {p.got, v.got}))

\* Slip: the frame stays.
LowerRet_NoEpilogue ==
  /\ Lowering({"RET"})
  /\ LET r == ProcessOp(Now, 1)
     IN Commit(Freed(Emitted(r, "RET", Absent, Absent, Absent, Absent), {r.got}))

\* Slip: the return itself is forgotten.
LowerRet_FallsThrough ==
  /\ Lowering({"RET"})
  /\ LET r == ProcessOp(Now, 1)
     IN Commit(Freed(Emitted(r, "ADDI", Temp(SP), Temp(SP), Absent, Imm(GetSize(frames))),
                     {r.got}))

\* The result, the epilogue, and the return.
LowerRet ==
  /\ Lowering({"RET"})
  /\ LET r == ProcessOp(Now, 1)
         e == Emitted(r, "ADDI", Temp(SP), Temp(SP), Absent, Imm(GetSize(frames)))
     IN Commit(Freed(Emitted(e, "RET", Absent, Absent, Absent, Absent), {r.got}))

Lower == \/ LowerEq \/ LowerLogic \/ LowerBinary \/ LowerAlloc
         \/ LowerLoad \/ LowerStore \/ LowerRet

GenNext == BeginAsmBlock \/ EndAsmBlock \/ FinishAsm \/ Lower
-----------------------------------------------------------------------------
(* The text of the assembly: AsmInst's Display.                            *)

\* A field is printed if the instruction has it.
Field(w) == IF w = Absent THEN <<>> ELSE <<w>>

\* "lw" prints rs1 and then rd, "sw" rs2 and then rs1, and unwraps both; any
\* other instruction prints the fields it has.
AsmWords(inst) ==
  CASE inst.opcode = "LW" -> <<inst.rs1, inst.rd>>
    [] inst.opcode = "SW" -> <<inst.rs2, inst.rs1>>
    [] OTHER -> Field(inst.rd) \o Field(inst.rs1) \o Field(inst.rs2) \o Field(inst.imm)

\* RVOpCode's Display, for the opcodes that are emitted.
Mnemonic ==
  [RET |-> "ret", LW |-> "lw", SW |-> "sw", ADD |-> "add", ADDI |-> "addi", SUB |-> "sub",
   SLT |-> "slt", SGT |-> "sgt", SEQZ |-> "seqz", SNEZ |-> "snez", XOR |-> "xor",
   OR |-> "or", AND |-> "and", SLL |-> "sll", SRL |-> "srl", SRA |-> "sra",
   MUL |-> "mul", DIV |-> "div", REM |-> "rem", LI |-> "li"]

AsmLine(inst) == [mnemonic |-> Mnemonic[inst.opcode], words |-> AsmWords(inst)]
=============================================================================
