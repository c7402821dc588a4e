------------------------------ MODULE RegAlloc ------------------------------
(***************************************************************************)
(* The register map of the back end (src/src/asm/config.rs,                *)
(* RVRegAllocator and RegAllocType), as operators on the map's value.      *)
(* Left out: RegAllocType::Perm and what serves it, which nobody requests. *)
(***************************************************************************)
EXTENDS Integers, FiniteSets, FiniteSetsExt

REG_IDLE == -1   \* u32::MAX in the code, no instruction's id

\* RVRegCode: registers are their numbers.
Reg  == 0 .. 31
ZERO == 0
SP   == 2
A0   == 10

\* t0-t2, a0-a7, t3-t6: the registers find_free_reg may hand out.
TempRegs == (5 .. 7) \cup (10 .. 17) \cup (28 .. 31)

AllIdle == [r \in Reg |-> REG_IDLE]

\* RegAllocType: a register, a slot at an offset from sp, or nothing.  A field
\* of an instruction may also be an immediate, or be None.
Temp(reg)   == [kind |-> "Temp", reg |-> reg, offset |-> 0]
Mem(offset) == [kind |-> "Mem", reg |-> SP, offset |-> offset]
NoReg       == [kind |-> "None", reg |-> 0, offset |-> 0]

Imm(n)      == [kind |-> "Imm", reg |-> 0, offset |-> n]
Absent      == [kind |-> "Absent", reg |-> 0, offset |-> 0]

RegAllocType == [kind : {"Temp", "Mem", "None"}, reg : Reg, offset : Nat]

FreeRegs(map) == {r \in TempRegs : map[r] = REG_IDLE}

\* find_free_reg takes the lowest number.
FindFreeReg(map) == IF FreeRegs(map) = {} THEN NoReg ELSE Temp(Min(FreeRegs(map)))

\* find_and_occupy_temp_reg: the register, and the map with it taken.
OccupyReg(map, id) ==
  IF FreeRegs(map) = {} THEN map ELSE [map EXCEPT ![Min(FreeRegs(map))] = id]

\* free_temp; a slot is nobody's register.
FreeTemp(map, r) == IF r.kind = "Temp" THEN [map EXCEPT ![r.reg] = REG_IDLE] ELSE map
=============================================================================
