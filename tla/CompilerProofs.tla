---------------------------- MODULE CompilerProofs ----------------------------
(***************************************************************************)
(* The whole compiler, for every program and every size: what the lowering *)
(* of one Koopa instruction does, the invariant of the back end and of     *)
(* printing, and the properties that follow from it.                       *)
(*                                                                         *)
(* Neither pass checks anything: that it finds what it unwraps rests on    *)
(* what the front end has made of the program.  The invariant CompilerInv  *)
(* carries CodeInv over the handing over of the tables, and ties the frame *)
(* to the instructions that have been lowered.                             *)
(***************************************************************************)
EXTENDS Compiler, SimProofs

-----------------------------------------------------------------------------
(* The instructions the back end may emit.                                 *)

Operations == {"ADD", "SUB", "MUL", "DIV", "REM", "AND", "OR", "XOR", "SLT", "SGT",
               "SLL", "SRL", "SRA"}
RVOpCodes  == Operations \cup {"LI", "LW", "SW", "SEQZ", "SNEZ", "ADDI", "RET"}

Fields == [kind : {"Temp", "Mem", "Imm", "Absent"}, reg : Reg, offset : Int]
Insts  == [opcode : RVOpCodes, rd : Fields, rs1 : Fields, rs2 : Fields, imm : Fields]

\* The slots of a frame of size bytes.
FrameSlots(size) == {w \in Fields : IsSlot(w) /\ w.offset \in 0 .. size - 4}

Within(w, size) == w.kind = "Mem" => w.offset \in 0 .. size - 4

\* An instruction whose line the assembler accepts and that stays within the
\* frame.
GoodInsts(size) ==
  {inst \in Insts :
     /\ WellFormed(Gen!AsmLine(inst))
     /\ \A w \in {inst.rd, inst.rs1, inst.rs2, inst.imm} : Within(w, size)
     /\ inst.opcode = "ADDI" => \E n \in {size, -size} : inst = Gen!AdjustSp(n)}
BodyInsts(size) == {inst \in GoodInsts(size) : inst.opcode # "RET"}

LEMMA PairJoins ==
  ASSUME NEW a, NEW b
  PROVE  <<a>> \o <<b>> = <<a, b>>
<1> DEFINE S == {a, b}
<1>1. <<a>> \in Seq(S) /\ <<b>> \in Seq(S) /\ <<a, b>> \in Seq(S)
  OBVIOUS
<1>2. Len(<<a>>) = 1 /\ Len(<<b>>) = 1 /\ Len(<<a, b>>) = 2
  OBVIOUS
<1> DEFINE s == <<a>> \o <<b>>
<1>3. s \in Seq(S) /\ Len(s) = 2 /\ s[1] = a /\ s[2] = b
  BY <1>1, <1>2, ConcatProperties
<1> HIDE DEF s
<1>4. \A i \in 1 .. 2 : s[i] = <<a, b>>[i]
  <2>1. \A i \in 1 .. 2 : i = 1 \/ i = 2
    OBVIOUS
  <2> QED BY <1>3, <2>1
<1>5. s = <<a, b>>
  BY <1>1, <1>2, <1>3, <1>4, SeqEqual
<1> QED BY <1>5 DEF s

LEMMA TripleJoins ==
  ASSUME NEW a, NEW b, NEW c
  PROVE  <<a, b>> \o <<c>> = <<a, b, c>>
<1> DEFINE S == {a, b, c}
<1>1. <<a, b>> \in Seq(S) /\ <<c>> \in Seq(S) /\ <<a, b, c>> \in Seq(S)
  OBVIOUS
<1>2. Len(<<a, b>>) = 2 /\ Len(<<c>>) = 1 /\ Len(<<a, b, c>>) = 3
  OBVIOUS
<1> DEFINE s == <<a, b>> \o <<c>>
<1>3. s \in Seq(S) /\ Len(s) = 3 /\ s[1] = a /\ s[2] = b /\ s[3] = c
  BY <1>1, <1>2, ConcatProperties
<1> HIDE DEF s
<1>4. \A i \in 1 .. 3 : s[i] = <<a, b, c>>[i]
  <2>1. \A i \in 1 .. 3 : i = 1 \/ i = 2 \/ i = 3
    OBVIOUS
  <2> QED BY <1>3, <2>1
<1>5. s = <<a, b, c>>
  BY <1>1, <1>2, <1>3, <1>4, SeqEqual
<1> QED BY <1>5 DEF s

LEMMA JoinFields ==
  ASSUME NEW a, NEW b, NEW c
  PROVE  /\ <<>> \o <<>> \o <<>> \o <<>> = <<>>
         /\ <<a>> \o <<>> \o <<>> \o <<b>> = <<a, b>>
         /\ <<a>> \o <<b>> \o <<>> \o <<>> = <<a, b>>
         /\ <<a>> \o <<b>> \o <<>> \o <<c>> = <<a, b, c>>
         /\ <<a>> \o <<b>> \o <<c>> \o <<>> = <<a, b, c>>
<1> DEFINE S == {a, b, c}
<1>1. /\ <<>> \in Seq(S) /\ <<a>> \in Seq(S) /\ <<a, b>> \in Seq(S)
      /\ <<a, b, c>> \in Seq(S)
  OBVIOUS
<1>2. /\ <<>> \o <<>> = <<>> /\ <<a>> \o <<>> = <<a>>
      /\ <<a, b>> \o <<>> = <<a, b>> /\ <<a, b, c>> \o <<>> = <<a, b, c>>
  BY <1>1, ConcatEmptySeq
<1> QED BY <1>2, PairJoins, TripleJoins

\* The definitions AsmGen takes from RegAlloc and KoopaIR are Compiler's.
LEMMA SameNames ==
  /\ Gen!Reg = Reg /\ Gen!REG_IDLE = REG_IDLE /\ Gen!TempRegs = TempRegs
  /\ Gen!AllIdle = AllIdle
  /\ Gen!ZERO = ZERO /\ Gen!SP = SP /\ Gen!A0 = A0
  /\ \A r : Gen!Temp(r) = Temp(r)
  /\ \A n : Gen!Mem(n) = Mem(n) /\ Gen!Imm(n) = Imm(n)
  /\ Gen!NoReg = NoReg /\ Gen!Absent = Absent
  /\ \A obj : Gen!FromParseResult(obj) = FromParseResult(obj)
  /\ Gen!ValueOps = ValueOps
BY DEF Gen!Reg, Reg, Gen!REG_IDLE, REG_IDLE, Gen!TempRegs, TempRegs, Gen!Temp, Temp,
       Gen!ZERO, ZERO, Gen!SP, SP, Gen!A0, A0, Gen!Mem, Mem, Gen!Imm, Imm,
       Gen!NoReg, NoReg, Gen!Absent, Absent, Gen!FromParseResult, FromParseResult,
       Gen!AllIdle, AllIdle, Gen!ValueOps, ValueOps

LEMMA KindsOfField ==
  /\ \A w \in Sources : w \in Fields /\ w.kind = "Temp" /\ w # Absent /\ w # NoReg
  /\ Targets \subseteq Sources
  /\ \A size : \A w \in FrameSlots(size) : w \in Fields /\ w # Absent /\ w # NoReg
  /\ Temp(SP) \in Fields /\ Temp(SP).kind = "Temp" /\ Temp(SP) # Absent
  /\ \A n \in Int : Imm(n) \in Fields /\ Imm(n).kind = "Imm" /\ Imm(n).offset = n
                    /\ Imm(n) # Absent
  /\ Absent \in Fields /\ Absent.kind = "Absent"
<1>1. ZERO \in Reg /\ SP \in Reg /\ 0 \in Reg /\ TempRegs \subseteq Reg
  BY DEF Reg, ZERO, SP, TempRegs
<1>2. \A w \in Sources : w \in Fields /\ w.kind = "Temp" /\ w # Absent /\ w # NoReg
  BY <1>1 DEF Sources, Targets, Fields, Temp, Absent, NoReg
<1>3. \A size : \A w \in FrameSlots(size) : w \in Fields /\ w # Absent /\ w # NoReg
  BY DEF FrameSlots, IsSlot, Absent, NoReg
<1>4. Temp(SP) \in Fields /\ Temp(SP).kind = "Temp" /\ Temp(SP) # Absent
  BY <1>1 DEF Fields, Temp, Absent
<1>5. \A n \in Int : Imm(n) \in Fields /\ Imm(n).kind = "Imm" /\ Imm(n).offset = n
                     /\ Imm(n) # Absent
  BY <1>1 DEF Fields, Imm, Absent
<1>6. Absent \in Fields /\ Absent.kind = "Absent"
  BY <1>1 DEF Fields, Absent
<1> QED BY <1>2, <1>3, <1>4, <1>5, <1>6 DEF Sources

LEMMA GoodLi ==
  ASSUME NEW size, NEW rd \in Targets, NEW n \in Int32
  PROVE  Gen!AsmInst("LI", rd, Absent, Absent, Imm(n)) \in BodyInsts(size)
<1> DEFINE inst == Gen!AsmInst("LI", rd, Absent, Absent, Imm(n))
<1>1. rd \in Fields /\ rd.kind = "Temp" /\ rd # Absent /\ n \in Int
  BY KindsOfField, I32Range DEF Int32
<1>2. /\ inst \in Insts /\ inst.opcode = "LI" /\ inst.rd = rd /\ inst.rs1 = Absent
      /\ inst.rs2 = Absent /\ inst.imm = Imm(n)
  BY <1>1, KindsOfField DEF Insts, Gen!AsmInst, RVOpCodes
<1> HIDE DEF inst
<1>3. Gen!AsmWords(inst) = <<rd, Imm(n)>>
  BY <1>1, <1>2, KindsOfField, JoinFields, SameNames DEF Gen!AsmWords, Gen!Field
<1>4. Gen!AsmLine(inst).mnemonic = "li" /\ Gen!AsmLine(inst).words = <<rd, Imm(n)>>
  BY <1>2, <1>3 DEF Gen!AsmLine, Gen!Mnemonic
<1>5. WellFormed(Gen!AsmLine(inst))
  BY <1>1, <1>4, KindsOfField DEF WellFormed, IsNumber
<1>6. inst \in BodyInsts(size)
  BY <1>1, <1>2, <1>5, KindsOfField DEF BodyInsts, GoodInsts, Within
<1> QED BY <1>6 DEF inst

LEMMA GoodLw ==
  ASSUME NEW size, NEW rs1 \in Targets, NEW rd \in FrameSlots(size)
  PROVE  Gen!AsmInst("LW", rd, rs1, Absent, Absent) \in BodyInsts(size)
<1> DEFINE inst == Gen!AsmInst("LW", rd, rs1, Absent, Absent)
<1>1. rs1 \in Fields /\ rs1.kind = "Temp" /\ rd \in Fields
  BY KindsOfField
<1>2. /\ inst \in Insts /\ inst.opcode = "LW" /\ inst.rd = rd /\ inst.rs1 = rs1
      /\ inst.rs2 = Absent /\ inst.imm = Absent
  BY <1>1, KindsOfField DEF Insts, Gen!AsmInst, RVOpCodes
<1> HIDE DEF inst
<1>3. Gen!AsmLine(inst).mnemonic = "lw" /\ Gen!AsmLine(inst).words = <<rs1, rd>>
  BY <1>2 DEF Gen!AsmLine, Gen!Mnemonic, Gen!AsmWords
<1>4. WellFormed(Gen!AsmLine(inst))
  BY <1>3 DEF WellFormed, FrameSlots
<1>5. inst \in BodyInsts(size)
  BY <1>1, <1>2, <1>4, KindsOfField DEF BodyInsts, GoodInsts, Within, FrameSlots
<1> QED BY <1>5 DEF inst

LEMMA GoodSw ==
  ASSUME NEW size, NEW rs1 \in FrameSlots(size), NEW rs2 \in Sources
  PROVE  Gen!AsmInst("SW", Absent, rs1, rs2, Absent) \in BodyInsts(size)
<1> DEFINE inst == Gen!AsmInst("SW", Absent, rs1, rs2, Absent)
<1>1. rs2 \in Fields /\ rs2.kind = "Temp" /\ rs1 \in Fields
  BY KindsOfField
<1>2. /\ inst \in Insts /\ inst.opcode = "SW" /\ inst.rd = Absent /\ inst.rs1 = rs1
      /\ inst.rs2 = rs2 /\ inst.imm = Absent
  BY <1>1, KindsOfField DEF Insts, Gen!AsmInst, RVOpCodes
<1> HIDE DEF inst
<1>3. Gen!AsmLine(inst).mnemonic = "sw" /\ Gen!AsmLine(inst).words = <<rs2, rs1>>
  BY <1>2 DEF Gen!AsmLine, Gen!Mnemonic, Gen!AsmWords
<1>4. WellFormed(Gen!AsmLine(inst))
  BY <1>3 DEF WellFormed, FrameSlots
<1>5. inst \in BodyInsts(size)
  BY <1>1, <1>2, <1>4, KindsOfField DEF BodyInsts, GoodInsts, Within, FrameSlots
<1> QED BY <1>5 DEF inst

LEMMA GoodTest ==
  ASSUME NEW size, NEW opcode \in {"SEQZ", "SNEZ"}, NEW rd \in Targets, NEW rs1 \in Sources
  PROVE  Gen!AsmInst(opcode, rd, rs1, Absent, Absent) \in BodyInsts(size)
<1> DEFINE inst == Gen!AsmInst(opcode, rd, rs1, Absent, Absent)
<1>1. /\ rd \in Fields /\ rd.kind = "Temp" /\ rd # Absent
      /\ rs1 \in Fields /\ rs1.kind = "Temp" /\ rs1 # Absent
  BY KindsOfField
<1>2. /\ inst \in Insts /\ inst.opcode = opcode /\ inst.rd = rd /\ inst.rs1 = rs1
      /\ inst.rs2 = Absent /\ inst.imm = Absent
  BY <1>1, KindsOfField DEF Insts, Gen!AsmInst, RVOpCodes
<1> HIDE DEF inst
<1>3. Gen!AsmWords(inst) = <<rd, rs1>>
  BY <1>1, <1>2, JoinFields, SameNames DEF Gen!AsmWords, Gen!Field
<1>4. Gen!AsmLine(inst).mnemonic \in {"seqz", "snez"} /\ Gen!AsmLine(inst).words = <<rd, rs1>>
  BY <1>2, <1>3 DEF Gen!AsmLine, Gen!Mnemonic
<1>5. WellFormed(Gen!AsmLine(inst))
  BY <1>4 DEF WellFormed
<1>6. inst \in BodyInsts(size)
  BY <1>1, <1>2, <1>5, KindsOfField DEF BodyInsts, GoodInsts, Within
<1> QED BY <1>6 DEF inst

LEMMA GoodOperation ==
  ASSUME NEW size, NEW opcode \in Operations, NEW rd \in Targets, NEW rs1 \in Sources,
         NEW rs2 \in Sources
  PROVE  Gen!AsmInst(opcode, rd, rs1, rs2, Absent) \in BodyInsts(size)
<1> DEFINE inst == Gen!AsmInst(opcode, rd, rs1, rs2, Absent)
<1>1. /\ rd \in Fields /\ rd.kind = "Temp" /\ rd # Absent
      /\ rs1 \in Fields /\ rs1.kind = "Temp" /\ rs1 # Absent
      /\ rs2 \in Fields /\ rs2.kind = "Temp" /\ rs2 # Absent
  BY KindsOfField
<1>2. /\ inst \in Insts /\ inst.opcode = opcode /\ inst.rd = rd /\ inst.rs1 = rs1
      /\ inst.rs2 = rs2 /\ inst.imm = Absent
  BY <1>1, KindsOfField DEF Insts, Gen!AsmInst, RVOpCodes
<1> HIDE DEF inst
<1>3. Gen!AsmWords(inst) = <<rd, rs1, rs2>>
  BY <1>1, <1>2, JoinFields, SameNames DEF Gen!AsmWords, Gen!Field, Operations
<1>4. /\ Gen!AsmLine(inst).mnemonic \in {"add", "sub", "mul", "div", "rem", "and", "or",
                                         "xor", "slt", "sgt", "sll", "srl", "sra"}
      /\ Gen!AsmLine(inst).words = <<rd, rs1, rs2>>
  BY <1>2, <1>3 DEF Gen!AsmLine, Gen!Mnemonic, Operations
<1>5. WellFormed(Gen!AsmLine(inst))
  <2> DEFINE line == Gen!AsmLine(inst)
  <2>1. line.words[1] \in Targets /\ {line.words[2], line.words[3]} \subseteq Sources
        /\ Len(line.words) = 3
    BY <1>4
  <2>2. line.mnemonic \notin {"ret", "li", "addi", "lw", "sw", "seqz", "snez"}
    BY <1>4
  <2> HIDE DEF line
  <2>3. WellFormed(line)
    BY <2>1, <2>2 DEF WellFormed
  <2> QED BY <2>3 DEF line
<1>6. inst \in BodyInsts(size)
  BY <1>1, <1>2, <1>5, KindsOfField DEF BodyInsts, GoodInsts, Within, Operations
<1> QED BY <1>6 DEF inst

LEMMA GoodAddi ==
  ASSUME NEW size \in Int, NEW n \in {size, -size}
  PROVE  /\ Gen!AdjustSp(n) \in BodyInsts(size)
         /\ Gen!AsmLine(Gen!AdjustSp(n)).words[3] = Imm(n)
         /\ Gen!AdjustSp(n) = Gen!AsmInst("ADDI", Temp(SP), Temp(SP), Absent, Imm(n))
<1> DEFINE inst == Gen!AdjustSp(n)
<1>1. n \in Int
  OBVIOUS
<1>2. inst = Gen!AsmInst("ADDI", Temp(SP), Temp(SP), Absent, Imm(n))
  BY SameNames DEF Gen!AdjustSp
<1>3. /\ inst \in Insts /\ inst.opcode = "ADDI" /\ inst.rd = Temp(SP) /\ inst.rs1 = Temp(SP)
      /\ inst.rs2 = Absent /\ inst.imm = Imm(n)
  BY <1>1, <1>2, KindsOfField DEF Insts, Gen!AsmInst, RVOpCodes
<1>4. inst = Gen!AdjustSp(n)
  OBVIOUS
<1> HIDE DEF inst
<1>5. Gen!AsmWords(inst) = <<Temp(SP), Temp(SP), Imm(n)>>
  BY <1>1, <1>3, KindsOfField, JoinFields, SameNames DEF Gen!AsmWords, Gen!Field
<1>6. Gen!AsmLine(inst).mnemonic = "addi"
      /\ Gen!AsmLine(inst).words = <<Temp(SP), Temp(SP), Imm(n)>>
  BY <1>3, <1>5 DEF Gen!AsmLine, Gen!Mnemonic
<1>7. WellFormed(Gen!AsmLine(inst))
  BY <1>1, <1>6, KindsOfField DEF WellFormed
<1>8. inst \in BodyInsts(size)
  BY <1>1, <1>3, <1>4, <1>7, KindsOfField DEF BodyInsts, GoodInsts, Within
<1> QED BY <1>2, <1>4, <1>6, <1>8

LEMMA GoodRet ==
  ASSUME NEW size
  PROVE  Gen!AsmInst("RET", Absent, Absent, Absent, Absent) \in GoodInsts(size)
<1> DEFINE inst == Gen!AsmInst("RET", Absent, Absent, Absent, Absent)
<1>1. /\ inst \in Insts /\ inst.opcode = "RET" /\ inst.rd = Absent /\ inst.rs1 = Absent
      /\ inst.rs2 = Absent /\ inst.imm = Absent
  BY KindsOfField DEF Insts, Gen!AsmInst, RVOpCodes
<1> HIDE DEF inst
<1>2. Gen!AsmWords(inst) = <<>>
  BY <1>1, JoinFields, SameNames DEF Gen!AsmWords, Gen!Field
<1>3. Gen!AsmLine(inst).mnemonic = "ret" /\ Gen!AsmLine(inst).words = <<>>
  BY <1>1, <1>2 DEF Gen!AsmLine, Gen!Mnemonic
<1>4. WellFormed(Gen!AsmLine(inst))
  BY <1>3 DEF WellFormed
<1>5. inst \in GoodInsts(size)
  BY <1>1, <1>4, KindsOfField DEF GoodInsts, Within
<1> QED BY <1>5 DEF inst

-----------------------------------------------------------------------------
(* The steps of a lowering.                                                *)

\* The registers from b on; Nth is the register given out after the n - 1
\* lowest.
FreeFrom(b) == {r \in TempRegs : r >= b}
Nth         == <<5, 6, 7, 10, 11, 12>>

\* g is a lowering under way: at most k registers have been taken, and the
\* taken ones are in T; nothing has gone wrong, and the frames are untouched.
Chain(g, k, T, size) ==
  /\ g = [regs |-> g.regs, frames |-> g.frames, out |-> g.out, got |-> g.got, ok |-> g.ok]
  /\ g.regs \in [Reg -> Int]
  /\ \E j \in 0 .. k : Gen!FreeRegs(g.regs) = FreeFrom(Nth[j + 1])
  /\ \A r \in Reg : g.regs[r] # REG_IDLE => Temp(r) \in T
  /\ g.frames = frames /\ g.ok = TRUE
  /\ g.out \in Seq(BodyInsts(size))

LEMMA MinIs ==
  ASSUME NEW S \in SUBSET Int, NEW x \in S, \A y \in S : x <= y
  PROVE  Gen!Min(S) = x
<1>1. \A z \in S : (\A y \in S : z <= y) => z = x
  OBVIOUS
<1> QED BY <1>1 DEF Gen!Min

LEMMA TakeNext ==
  ASSUME NEW j \in 0 .. 4
  PROVE  /\ FreeFrom(Nth[j + 1]) # {}
         /\ Gen!Min(FreeFrom(Nth[j + 1])) = Nth[j + 1] /\ Nth[j + 1] \in TempRegs
         /\ FreeFrom(Nth[j + 1]) \ {Nth[j + 1]} = FreeFrom(Nth[j + 1 + 1])
<1>1. Nth[j + 1] \in TempRegs /\ Nth[j + 1 + 1] \in TempRegs
  <2>1. j = 0 \/ j = 1 \/ j = 2 \/ j = 3 \/ j = 4
    OBVIOUS
  <2> QED BY <2>1 DEF Nth, TempRegs
<1>2. \A r \in TempRegs : r >= Nth[j + 1] /\ r # Nth[j + 1] <=> r >= Nth[j + 1 + 1]
  <2>1. j = 0 \/ j = 1 \/ j = 2 \/ j = 3 \/ j = 4
    OBVIOUS
  <2> QED BY <2>1 DEF Nth, TempRegs
<1>3. TempRegs \subseteq Int
  BY DEF TempRegs
<1> DEFINE m == Nth[j + 1]
           S == FreeFrom(m)
<1>4. S \in SUBSET Int /\ m \in S /\ \A y \in S : m <= y
  <2>1. m \in TempRegs
    BY <1>1
  <2> HIDE DEF m
  <2>2. m \in Int /\ m >= m
    BY <1>3, <2>1
  <2>3. \A y \in TempRegs : y >= m => m <= y
    BY <1>3, <2>2
  <2> QED BY <1>3, <2>1, <2>2, <2>3 DEF FreeFrom
<1>5. Gen!Min(S) = m
  <2> HIDE DEF S, m
  <2> QED BY <1>4, MinIs
<1> QED BY <1>1, <1>2, <1>4, <1>5 DEF FreeFrom

LEMMA ChainWeaken ==
  ASSUME NEW g, NEW k \in Nat, NEW T, NEW size, Chain(g, k, T, size), NEW U
  PROVE  Chain(g, k + 1, T \cup U, size)
  BY DEF Chain

\* find_and_occupy_temp_reg finds a register.
LEMMA OccupiedChain ==
  ASSUME NEW g, NEW k \in 0 .. 4, NEW T, NEW size, Chain(g, k, T, size), NEW id \in Nat,
         NEW h, h = Gen!Occupied(g, id)
  PROVE  Chain(h, k + 1, T \cup {h.got}, size) /\ h.got \in Targets
<1>1. PICK j \in 0 .. k : Gen!FreeRegs(g.regs) = FreeFrom(Nth[j + 1])
  BY DEF Chain
<1> DEFINE m == Nth[j + 1]
<1>2. /\ Gen!FreeRegs(g.regs) # {} /\ Gen!Min(Gen!FreeRegs(g.regs)) = m /\ m \in TempRegs
      /\ Gen!FreeRegs(g.regs) \ {m} = FreeFrom(Nth[j + 1 + 1])
  BY <1>1, TakeNext
<1> HIDE DEF m
<1>3. /\ h.regs = [g.regs EXCEPT ![m] = id] /\ h.got = Temp(m)
      /\ h.frames = g.frames /\ h.ok = g.ok /\ h.out = g.out
      /\ h = [regs |-> h.regs, frames |-> h.frames, out |-> h.out, got |-> h.got, ok |-> h.ok]
  BY <1>2, SameNames DEF Chain, Gen!Occupied, Gen!OccupyReg, Gen!FindFreeReg
<1>4. /\ h.regs \in [Reg -> Int]
      /\ \A r \in Reg : h.regs[r] = IF r = m THEN id ELSE g.regs[r]
  <2>1. g.regs \in [Reg -> Int] /\ id \in Int
    BY DEF Chain
  <2> QED BY <1>3, <2>1
<1>5. Gen!FreeRegs(h.regs) = Gen!FreeRegs(g.regs) \ {m}
  <2>1. TempRegs \subseteq Reg /\ id # REG_IDLE
    BY DEF TempRegs, Reg, REG_IDLE
  <2> QED BY <1>4, <2>1, SameNames DEF Gen!FreeRegs
<1>6. \E i \in 0 .. k + 1 : Gen!FreeRegs(h.regs) = FreeFrom(Nth[i + 1])
  <2>1. j + 1 \in 0 .. k + 1
    OBVIOUS
  <2> QED BY <1>2, <1>5, <2>1
<1>7. \A r \in Reg : h.regs[r] # REG_IDLE => Temp(r) \in T \cup {h.got}
  BY <1>3, <1>4 DEF Chain
<1>8. h.got \in Targets
  BY <1>2, <1>3 DEF Targets
<1> QED BY <1>3, <1>4, <1>6, <1>7, <1>8 DEF Chain

LEMMA EmittedChain ==
  ASSUME NEW g, NEW k, NEW T, NEW size, Chain(g, k, T, size),
         NEW opcode, NEW rd, NEW rs1, NEW rs2, NEW imm,
         Gen!AsmInst(opcode, rd, rs1, rs2, imm) \in BodyInsts(size),
         NEW h, h = Gen!Emitted(g, opcode, rd, rs1, rs2, imm)
  PROVE  Chain(h, k, T, size) /\ h.got = g.got
<1>1. Append(g.out, Gen!AsmInst(opcode, rd, rs1, rs2, imm)) \in Seq(BodyInsts(size))
  BY AppendProperties DEF Chain
<1>2. /\ h.regs = g.regs /\ h.got = g.got /\ h.frames = g.frames /\ h.ok = g.ok
      /\ h.out = Append(g.out, Gen!AsmInst(opcode, rd, rs1, rs2, imm))
      /\ h = [regs |-> h.regs, frames |-> h.frames, out |-> h.out, got |-> h.got, ok |-> h.ok]
  BY DEF Chain, Gen!Emitted
<1> QED BY <1>1, <1>2 DEF Chain

\* free_temp of every register taken leaves none taken.
LEMMA FreedChain ==
  ASSUME NEW g, NEW k, NEW T, NEW size, Chain(g, k, T, size),
         NEW h, h = Gen!Freed(g, T)
  PROVE  /\ h.regs = AllIdle /\ h.out = g.out /\ h.frames = frames /\ h.ok = TRUE
         /\ h = [regs |-> h.regs, frames |-> h.frames, out |-> h.out, got |-> h.got, ok |-> h.ok]
<1>1. /\ h.regs = [r \in Reg |-> IF Temp(r) \in T THEN REG_IDLE ELSE g.regs[r]]
      /\ h.out = g.out /\ h.frames = g.frames /\ h.ok = g.ok
      /\ h = [regs |-> h.regs, frames |-> h.frames, out |-> h.out, got |-> h.got, ok |-> h.ok]
  BY SameNames DEF Chain, Gen!Freed
<1>2. h.regs = AllIdle
  BY <1>1 DEF Chain, AllIdle
<1> QED BY <1>1, <1>2 DEF Chain

-----------------------------------------------------------------------------
(* Operands.                                                               *)

\* The operand o has a slot within the frame; o is a value the instruction can
\* take to a register.
Placed(o, size) == Gen!HasVar(frames, o) /\ Gen!GetNamedVar(frames, o) \in 0 .. size - 4
Readable(o, size) ==
  \/ o.kind = "Const" /\ o.val \in Int32
  \/ o.kind = "InstId" /\ o.val \in Nat /\ Placed(o, size)

LEMMA NamedVarChain ==
  ASSUME NEW g, NEW k, NEW T, NEW size, Chain(g, k, T, size), NEW o, Placed(o, size),
         NEW h, h = Gen!NamedVar(g, o)
  PROVE  Chain(h, k, T, size) /\ h.got \in FrameSlots(size)
<1> DEFINE v == Gen!GetNamedVar(frames, o)
<1>1. /\ h.regs = g.regs /\ h.got = Mem(v) /\ h.frames = g.frames /\ h.ok = g.ok /\ h.out = g.out
      /\ h = [regs |-> h.regs, frames |-> h.frames, out |-> h.out, got |-> h.got, ok |-> h.ok]
  BY SameNames DEF Chain, Gen!NamedVar, Placed
<1>2. v \in 0 .. size - 4
  BY DEF Placed
<1> HIDE DEF v
<1>3. Mem(v) \in FrameSlots(size)
  <2>1. SP \in Reg /\ v \in Int
    BY <1>2 DEF SP, Reg
  <2> QED BY <1>2, <2>1 DEF FrameSlots, Mem, IsSlot, Fields
<1> QED BY <1>1, <1>3 DEF Chain

LEMMA TargetRegChain ==
  ASSUME NEW g, NEW k \in 0 .. 4, NEW T, NEW size, Chain(g, k, T, size), NEW id \in Nat,
         NEW h, h = Gen!TargetReg(g, id)
  PROVE  Chain(h, k + 1, T \cup {h.got}, size) /\ h.got \in Targets
<1>1. CASE Gen!Data.opcode = "RET"
  <2>1. /\ h.regs = g.regs /\ h.got = Temp(A0) /\ h.frames = g.frames /\ h.ok = g.ok
        /\ h.out = g.out
        /\ h = [regs |-> h.regs, frames |-> h.frames, out |-> h.out, got |-> h.got, ok |-> h.ok]
    BY <1>1, SameNames DEF Chain, Gen!TargetReg
  <2>2. Chain(h, k, T, size)
    BY <2>1 DEF Chain
  <2>3. Temp(A0) \in Targets
    BY DEF Targets, A0, TempRegs
  <2>4. k \in Nat /\ Chain(h, k + 1, T \cup {h.got}, size)
    BY <2>2, ChainWeaken
  <2>5. h.got \in Targets
    BY <2>1, <2>3
  <2> QED BY <2>4, <2>5
<1>2. CASE Gen!Data.opcode # "RET"
  BY <1>2, OccupiedChain DEF Gen!TargetReg
<1> QED BY <1>1, <1>2

\* process_op of a value: a register that holds it.
LEMMA ValueChain ==
  ASSUME NEW g, NEW k \in 0 .. 4, NEW T, NEW size, Chain(g, k, T, size),
         NEW n, Readable(Gen!Data.operands[n], size), Gen!Id \in Nat,
         NEW h, h = Gen!ProcessOp(g, n)
  PROVE  Chain(h, k + 1, T \cup {h.got}, size) /\ h.got \in Sources
<1> DEFINE o == Gen!Data.operands[n]
<1>1. CASE o.kind = "Const" /\ o.val = 0
  <2>1. h = [g EXCEPT !.got = Gen!Temp(Gen!ZERO)]
    BY <1>1 DEF Gen!ProcessOp
  <2>2. /\ h.regs = g.regs /\ h.got = Temp(ZERO) /\ h.frames = g.frames /\ h.ok = g.ok
        /\ h.out = g.out
        /\ h = [regs |-> h.regs, frames |-> h.frames, out |-> h.out, got |-> h.got, ok |-> h.ok]
    BY <2>1, SameNames DEF Chain
  <2>3. Chain(h, k, T, size)
    BY <2>2 DEF Chain
  <2>4. k \in Nat
    OBVIOUS
  <2>5. \A U : Chain(h, k + 1, T \cup U, size)
    BY <2>3, <2>4, ChainWeaken
  <2>6. h.got \in Sources
    BY <2>2 DEF Sources
  <2> QED BY <2>5, <2>6
<1>2. CASE o.kind = "Const" /\ o.val # 0
  <2> DEFINE imm == Gen!TargetReg(g, Gen!Id)
  <2>1. Chain(imm, k + 1, T \cup {imm.got}, size) /\ imm.got \in Targets
    BY TargetRegChain
  <2>2. o.val \in Int32
    BY <1>2 DEF Readable
  <2>3. imm.got # Gen!NoReg
    BY <2>1, KindsOfField, SameNames
  <2>4. h = Gen!Emitted(imm, "LI", imm.got, Gen!Absent, Gen!Absent, Gen!Imm(o.val))
    BY <1>2, <2>3 DEF Gen!ProcessOp
  <2> HIDE DEF imm
  <2>5. h = Gen!Emitted(imm, "LI", imm.got, Absent, Absent, Imm(o.val))
    BY <2>4, SameNames
  <2>6. Gen!AsmInst("LI", imm.got, Absent, Absent, Imm(o.val)) \in BodyInsts(size)
    BY <2>1, <2>2, GoodLi
  <2>7. Chain(h, k + 1, T \cup {imm.got}, size) /\ h.got = imm.got
    BY <2>1, <2>5, <2>6, EmittedChain
  <2> QED BY <2>1, <2>7, KindsOfField
<1>3. CASE o.kind = "InstId"
  <2> DEFINE slot  == Gen!NamedVar(g, o)
             value == Gen!TargetReg(slot, o.val)
  <2>1. o.val \in Nat /\ Placed(o, size)
    BY <1>3 DEF Readable
  <2>2. Chain(slot, k, T, size) /\ slot.got \in FrameSlots(size)
    BY <2>1, NamedVarChain
  <2>3. Chain(value, k + 1, T \cup {value.got}, size) /\ value.got \in Targets
    BY <2>1, <2>2, TargetRegChain
  <2>4. h = Gen!Emitted(value, "LW", slot.got, value.got, Gen!Absent, Gen!Absent)
    BY <1>3 DEF Gen!ProcessOp
  <2> HIDE DEF slot, value
  <2>5. h = Gen!Emitted(value, "LW", slot.got, value.got, Absent, Absent)
    BY <2>4, SameNames
  <2>6. Gen!AsmInst("LW", slot.got, value.got, Absent, Absent) \in BodyInsts(size)
    BY <2>2, <2>3, GoodLw
  <2>7. Chain(h, k + 1, T \cup {value.got}, size) /\ h.got = value.got
    BY <2>3, <2>5, <2>6, EmittedChain
  <2> QED BY <2>3, <2>7, KindsOfField
<1> QED BY <1>1, <1>2, <1>3 DEF Readable

\* process_op of a pointer: its slot.
LEMMA PointerChain ==
  ASSUME NEW g, NEW k, NEW T, NEW size, Chain(g, k, T, size),
         NEW n, Gen!Data.operands[n].kind = "Pointer", Placed(Gen!Data.operands[n], size),
         NEW h, h = Gen!ProcessOp(g, n)
  PROVE  Chain(h, k, T, size) /\ h.got \in FrameSlots(size)
<1> DEFINE o == Gen!Data.operands[n]
<1>1. h = Gen!NamedVar(g, o)
  BY DEF Gen!ProcessOp
<1> QED BY <1>1, NamedVarChain

LEMMA NowChain ==
  ASSUME NEW size, regs = AllIdle
  PROVE  Chain(Gen!Now, 0, {}, size)
<1> DEFINE g == Gen!Now
<1>1. /\ g.regs = AllIdle /\ g.frames = frames /\ g.ok = TRUE /\ g.out = <<>>
      /\ g = [regs |-> g.regs, frames |-> g.frames, out |-> g.out, got |-> g.got, ok |-> g.ok]
  BY DEF Gen!Now
<1> HIDE DEF g
<1>2. AllIdle \in [Reg -> Int] /\ \A r \in Reg : AllIdle[r] = REG_IDLE
  BY DEF AllIdle, REG_IDLE
<1>3. Gen!FreeRegs(AllIdle) = FreeFrom(Nth[0 + 1])
  <2>1. Nth[0 + 1] = 5
    BY DEF Nth
  <2>2. \A r \in TempRegs : r \in Reg /\ r >= 5
    BY DEF TempRegs, Reg
  <2> QED BY <1>2, <2>1, <2>2, SameNames DEF Gen!FreeRegs, FreeFrom
<1>4. g.out \in Seq(BodyInsts(size))
  BY <1>1
<1> QED BY <1>1, <1>2, <1>3, <1>4 DEF Chain, g

-----------------------------------------------------------------------------
(* AsmInst::from, by opcode.                                               *)

\* What is true when an instruction is lowered: its operands have slots, and
\* the frame has room for its result.
Ready(size) ==
  LET o == Gen!Data.operands
      c == Gen!Data.opcode
  IN /\ regs = AllIdle /\ Gen!Id \in Nat
     /\ Gen!Data.typ = (IF c \in ValueOps THEN "Int" ELSE "Void")
     /\ c \in ValueOps => Gen!VarOffset(frames) \in 0 .. size - 4
     /\ c \in Builder!Binary => Readable(o[1], size) /\ Readable(o[2], size)
     /\ c = "RET"   => Readable(o[1], size)
     /\ c = "LOAD"  => o[1].kind = "Pointer" /\ Placed(o[1], size)
     /\ c = "STORE" => /\ Readable(o[1], size)
                       /\ o[2].kind = "Pointer" /\ Placed(o[2], size)

\* A return moves sp back first.
MovesBack(out, size) ==
  (\E k \in DOMAIN out : out[k].opcode = "RET") =>
    \E k \in DOMAIN out : out[k] = Gen!AdjustSp(size)

\* What its lowering does: every register is free again, a value has a slot,
\* and the lines are good.
Lowered(size) ==
  /\ regs' = AllIdle /\ phase' = "inst" /\ pos' = pos + 1 /\ UNCHANGED <<stack, funcs, fn>>
  /\ frames' = IF Gen!Data.typ = "Int"
               THEN Gen!AllocVar(frames, FromParseResult(Gen!Data.ir_obj), Gen!Data.typ)
               ELSE frames
  /\ \E out \in Seq(GoodInsts(size)) :
       /\ blocks' = [blocks EXCEPT ![Len(blocks)] = @ \o out]
       /\ MovesBack(out, size)

LEMMA CommitLowers ==
  ASSUME NEW size, NEW g, Gen!Commit(g), g.regs = AllIdle, g.ok = TRUE,
         g.out \in Seq(GoodInsts(size)), MovesBack(g.out, size),
         g.frames = IF Gen!Data.typ = "Int"
                    THEN Gen!AllocVar(frames, FromParseResult(Gen!Data.ir_obj), Gen!Data.typ)
                    ELSE frames
  PROVE  Lowered(size)
  BY DEF Gen!Commit, Lowered

LEMMA BodyMovesNot ==
  ASSUME NEW size, NEW out \in Seq(BodyInsts(size))
  PROVE  out \in Seq(GoodInsts(size)) /\ MovesBack(out, size)
<1>1. BodyInsts(size) \subseteq GoodInsts(size)
  BY DEF BodyInsts
<1>2. out \in Seq(GoodInsts(size))
  BY <1>1, SeqMonotonic
<1>3. \A k \in DOMAIN out : out[k].opcode # "RET"
  <2>1. DOMAIN out = 1 .. Len(out)
    BY LenProperties
  <2> QED BY <2>1, ElementOfSeq DEF BodyInsts
<1> QED BY <1>2, <1>3 DEF MovesBack

\* The end of a lowering that has a result: the registers are free, the result
\* gets its slot.
LEMMA SavedLowers ==
  ASSUME NEW size, Ready(size), Gen!Data.opcode \in ValueOps,
         NEW g, NEW k, NEW T, Chain(g, k, T, size), NEW r \in Sources,
         Gen!Commit(Gen!Saved(Gen!Freed(g, T), r))
  PROVE  Lowered(size)
<1> DEFINE f    == Gen!Freed(g, T)
           slot == Gen!ResultVar(f)
           s    == Gen!Saved(f, r)
<1>1. /\ f.regs = AllIdle /\ f.out = g.out /\ f.frames = frames /\ f.ok = TRUE
      /\ f = [regs |-> f.regs, frames |-> f.frames, out |-> f.out, got |-> f.got, ok |-> f.ok]
  BY FreedChain
<1>2. s = Gen!Emitted(slot, "SW", Gen!Absent, slot.got, r, Gen!Absent)
  BY DEF Gen!Saved
<1>3. Gen!Commit(s)
  OBVIOUS
<1> HIDE DEF f, s
<1>4. /\ slot.regs = AllIdle /\ slot.out = g.out /\ slot.ok = TRUE
      /\ slot.got = Mem(Gen!VarOffset(frames))
      /\ slot.frames = Gen!AllocVar(frames, FromParseResult(Gen!Data.ir_obj), Gen!Data.typ)
      /\ slot = [regs |-> slot.regs, frames |-> slot.frames, out |-> slot.out,
                 got |-> slot.got, ok |-> slot.ok]
  <2> DEFINE w  == Gen!Mem(Gen!VarOffset(f.frames))
             fs == Gen!AllocVar(f.frames, Gen!FromParseResult(Gen!Data.ir_obj), Gen!Data.typ)
  <2>1. slot = [f EXCEPT !.got = w, !.frames = fs]
    BY DEF Gen!ResultVar
  <2>2. w = Mem(Gen!VarOffset(frames))
        /\ fs = Gen!AllocVar(frames, FromParseResult(Gen!Data.ir_obj), Gen!Data.typ)
    BY <1>1, SameNames
  <2> HIDE DEF w, fs, slot
  <2> QED BY <1>1, <2>1, <2>2
<1>5. slot.got \in FrameSlots(size)
  <2>1. Gen!VarOffset(frames) \in 0 .. size - 4
    BY DEF Ready
  <2>2. SP \in Reg /\ Gen!VarOffset(frames) \in Int
    BY <2>1 DEF SP, Reg
  <2> QED BY <1>4, <2>1, <2>2 DEF FrameSlots, Mem, IsSlot, Fields
<1> HIDE DEF slot
<1>6. /\ s.regs = AllIdle /\ s.ok = TRUE
      /\ s.frames = Gen!AllocVar(frames, FromParseResult(Gen!Data.ir_obj), Gen!Data.typ)
      /\ s.out = Append(g.out, Gen!AsmInst("SW", Absent, slot.got, r, Absent))
  BY <1>2, <1>4, SameNames DEF Gen!Emitted
<1>7. s.out \in Seq(BodyInsts(size))
  BY <1>5, <1>6, GoodSw, AppendProperties DEF Chain
<1>8. Gen!Data.typ = "Int"
  BY DEF Ready
<1> QED BY <1>3, <1>6, <1>7, <1>8, BodyMovesNot, CommitLowers

\* The two operands of an operation.
LEMMA OperandsChain ==
  ASSUME NEW size, Ready(size), Gen!Data.opcode \in Builder!Binary,
         NEW a, a = Gen!ProcessOp(Gen!Now, 1), NEW b, b = Gen!ProcessOp(a, 2)
  PROVE  Chain(b, 2, {a.got, b.got}, size) /\ a.got \in Sources /\ b.got \in Sources
<1>1. Readable(Gen!Data.operands[1], size) /\ Readable(Gen!Data.operands[2], size)
      /\ regs = AllIdle /\ Gen!Id \in Nat
  BY DEF Ready
<1> DEFINE g == Gen!Now
<1>2. Chain(a, 0 + 1, {} \cup {a.got}, size) /\ a.got \in Sources
  <2>1. Chain(g, 0, {}, size) /\ a = Gen!ProcessOp(g, 1) /\ 0 \in 0 .. 4
    BY <1>1, NowChain
  <2> HIDE DEF g
  <2> QED BY <1>1, <2>1, ValueChain
<1>3. 0 + 1 = 1 /\ {} \cup {a.got} = {a.got} /\ 1 \in 0 .. 4
  OBVIOUS
<1>4. Chain(b, 1 + 1, {a.got} \cup {b.got}, size) /\ b.got \in Sources
  BY <1>1, <1>2, <1>3, ValueChain
<1>5. 1 + 1 = 2 /\ {a.got} \cup {b.got} = {a.got, b.got}
  OBVIOUS
<1> QED BY <1>2, <1>4, <1>5

\* A register for a result and the instruction that computes it.
LEMMA ComputeChain ==
  ASSUME NEW size, NEW g, NEW k \in 0 .. 4, NEW T, Chain(g, k, T, size), Gen!Id \in Nat,
         NEW d, d = Gen!Occupied(g, Gen!Id),
         NEW opcode \in Operations, NEW rs1 \in Sources, NEW rs2 \in Sources,
         NEW e, e = Gen!Emitted(d, opcode, d.got, rs1, rs2, Gen!Absent),
         NEW n, n = k + 1, NEW U, U = T \cup {d.got}
  PROVE  Chain(e, n, U, size) /\ d.got \in Targets
<1>1. Chain(d, n, U, size) /\ d.got \in Targets
  BY OccupiedChain
<1>2. Gen!AsmInst(opcode, d.got, rs1, rs2, Absent) \in BodyInsts(size)
  BY <1>1, GoodOperation
<1>3. e = Gen!Emitted(d, opcode, d.got, rs1, rs2, Absent)
  BY SameNames
<1> QED BY <1>1, <1>2, <1>3, EmittedChain

LEMMA TestChain ==
  ASSUME NEW size, NEW g, NEW k \in 0 .. 4, NEW T, Chain(g, k, T, size), Gen!Id \in Nat,
         NEW d, d = Gen!Occupied(g, Gen!Id),
         NEW opcode \in {"SEQZ", "SNEZ"}, NEW rs1 \in Sources,
         NEW e, e = Gen!Emitted(d, opcode, d.got, rs1, Gen!Absent, Gen!Absent),
         NEW n, n = k + 1, NEW U, U = T \cup {d.got}
  PROVE  Chain(e, n, U, size) /\ d.got \in Targets
<1>1. Chain(d, n, U, size) /\ d.got \in Targets
  BY OccupiedChain
<1>2. Gen!AsmInst(opcode, d.got, rs1, Absent, Absent) \in BodyInsts(size)
  BY <1>1, GoodTest
<1>3. e = Gen!Emitted(d, opcode, d.got, rs1, Absent, Absent)
  BY SameNames
<1> QED BY <1>1, <1>2, <1>3, EmittedChain

LEMMA LowerBinaryLowers == ASSUME NEW size, Ready(size), Gen!LowerBinary PROVE Lowered(size)
<1> DEFINE a == Gen!ProcessOp(Gen!Now, 1)
           b == Gen!ProcessOp(a, 2)
           d == Gen!Occupied(b, Gen!Id)
           e == Gen!Emitted(d, Gen!RVOpCode[Gen!Data.opcode], d.got, a.got, b.got, Gen!Absent)
<1>1. Gen!Data.opcode \in Gen!ValueOps \cap DOMAIN Gen!RVOpCode
      /\ Gen!Commit(Gen!Saved(Gen!Freed(e, {a.got, b.got, d.got}), d.got))
  BY DEF Gen!LowerBinary, Gen!Lowering, Gen!RVOpCode, Gen!ValueOps
<1>2. Gen!Data.opcode \in ValueOps /\ Gen!Data.opcode \in Builder!Binary
      /\ Gen!RVOpCode[Gen!Data.opcode] \in Operations /\ Gen!Id \in Nat
  BY <1>1 DEF Gen!RVOpCode, ValueOps, Builder!Binary, Builder!ValueOps, Operations, Ready
<1>3. Chain(b, 2, {a.got, b.got}, size) /\ a.got \in Sources /\ b.got \in Sources
  BY <1>2, OperandsChain
<1> HIDE DEF a, b, d
<1>4. d = Gen!Occupied(b, Gen!Id)
  BY DEF d
<1>5. Chain(e, 3, {a.got, b.got, d.got}, size) /\ d.got \in Targets
  <2>1. /\ 2 + 1 = 3 /\ 2 \in 0 .. 4
        /\ {a.got, b.got} \cup {d.got} = {a.got, b.got, d.got}
    OBVIOUS
  <2>2. Chain(d, 2 + 1, {a.got, b.got} \cup {d.got}, size) /\ d.got \in Targets
    BY <1>2, <1>3, <1>4, <2>1, OccupiedChain
  <2>3. Chain(d, 3, {a.got, b.got, d.got}, size)
    BY <2>1, <2>2
  <2> DEFINE c == Gen!RVOpCode[Gen!Data.opcode]
  <2>4. Gen!AsmInst(c, d.got, a.got, b.got, Absent) \in BodyInsts(size)
    BY <1>2, <1>3, <2>2, GoodOperation
  <2>5. e = Gen!Emitted(d, c, d.got, a.got, b.got, Absent)
    BY SameNames
  <2> HIDE DEF c, e
  <2> QED BY <2>2, <2>3, <2>4, <2>5, EmittedChain
<1>6. d.got \in Sources
  BY <1>5, KindsOfField
<1> HIDE DEF e
<1> QED BY <1>1, <1>2, <1>5, <1>6, SavedLowers

LEMMA LowerEqLowers == ASSUME NEW size, Ready(size), Gen!LowerEq PROVE Lowered(size)
<1> DEFINE a == Gen!ProcessOp(Gen!Now, 1)
           b == Gen!ProcessOp(a, 2)
           x == Gen!Occupied(b, Gen!Id)
           y == Gen!Emitted(x, "XOR", x.got, a.got, b.got, Gen!Absent)
           d == Gen!Occupied(y, Gen!Id)
           c == IF Gen!Data.opcode = "EQ" THEN "SEQZ" ELSE "SNEZ"
           e == Gen!Emitted(d, c, d.got, x.got, Gen!Absent, Gen!Absent)
<1>1. Gen!Data.opcode \in {"EQ", "NE"}
      /\ Gen!Commit(Gen!Saved(Gen!Freed(e, {a.got, b.got, x.got, d.got}), d.got))
  BY DEF Gen!LowerEq, Gen!Lowering
<1>2. Gen!Data.opcode \in ValueOps /\ Gen!Data.opcode \in Builder!Binary /\ Gen!Id \in Nat
      /\ c \in {"SEQZ", "SNEZ"} /\ "XOR" \in Operations
  BY <1>1 DEF ValueOps, Builder!Binary, Builder!ValueOps, Ready, Operations
<1>3. Chain(b, 2, {a.got, b.got}, size) /\ a.got \in Sources /\ b.got \in Sources
  BY <1>2, OperandsChain
<1> HIDE DEF a, b, x, d, c
<1>5. x = Gen!Occupied(b, Gen!Id) /\ d = Gen!Occupied(y, Gen!Id)
  BY DEF d, x
<1>6. /\ 3 = 2 + 1 /\ 4 = 3 + 1 /\ 2 \in 0 .. 4 /\ 3 \in 0 .. 4
      /\ {a.got, b.got, x.got} = {a.got, b.got} \cup {x.got}
      /\ {a.got, b.got, x.got, d.got} = {a.got, b.got, x.got} \cup {d.got}
  OBVIOUS
<1>7. Chain(y, 3, {a.got, b.got, x.got}, size) /\ x.got \in Sources
  <2>1. Chain(y, 3, {a.got, b.got, x.got}, size) /\ x.got \in Targets
    BY <1>2, <1>3, <1>5, <1>6, ComputeChain
  <2> QED BY <2>1, KindsOfField
<1> HIDE DEF y, e
<1>8. Chain(e, 4, {a.got, b.got, x.got, d.got}, size) /\ d.got \in Targets
  <2>1. e = Gen!Emitted(d, c, d.got, x.got, Gen!Absent, Gen!Absent)
    BY DEF e
  <2> QED BY <1>2, <1>5, <1>6, <1>7, <2>1, TestChain
<1>9. d.got \in Sources
  BY <1>8, KindsOfField
<1> QED BY <1>1, <1>2, <1>8, <1>9, SavedLowers

LEMMA LowerLogicLowers == ASSUME NEW size, Ready(size), Gen!LowerLogic PROVE Lowered(size)
<1> DEFINE a == Gen!ProcessOp(Gen!Now, 1)
           b == Gen!ProcessOp(a, 2)
           x == Gen!Occupied(b, Gen!Id)
           p == Gen!Emitted(x, "SNEZ", x.got, a.got, Gen!Absent, Gen!Absent)
           y == Gen!Occupied(p, Gen!Id)
           q == Gen!Emitted(y, "SNEZ", y.got, b.got, Gen!Absent, Gen!Absent)
           d == Gen!Occupied(q, Gen!Id)
           e == Gen!Emitted(d, Gen!Data.opcode, d.got, x.got, y.got, Gen!Absent)
<1>1. Gen!Data.opcode \in {"AND", "OR"}
      /\ Gen!Commit(Gen!Saved(Gen!Freed(e, {a.got, b.got, x.got, y.got, d.got}), d.got))
  BY DEF Gen!LowerLogic, Gen!Lowering
<1>2. Gen!Data.opcode \in ValueOps /\ Gen!Data.opcode \in Builder!Binary /\ Gen!Id \in Nat
      /\ Gen!Data.opcode \in Operations /\ "SNEZ" \in {"SEQZ", "SNEZ"}
  BY <1>1 DEF ValueOps, Builder!Binary, Builder!ValueOps, Ready, Operations
<1>3. Chain(b, 2, {a.got, b.got}, size) /\ a.got \in Sources /\ b.got \in Sources
  BY <1>2, OperandsChain
<1>4. /\ p = Gen!Emitted(x, "SNEZ", x.got, a.got, Gen!Absent, Gen!Absent)
      /\ q = Gen!Emitted(y, "SNEZ", y.got, b.got, Gen!Absent, Gen!Absent)
  OBVIOUS
<1> HIDE DEF a, b, x, y, d
<1>5. x = Gen!Occupied(b, Gen!Id) /\ y = Gen!Occupied(p, Gen!Id) /\ d = Gen!Occupied(q, Gen!Id)
  BY DEF x, y, d
<1> HIDE DEF p, q
<1>6. /\ 3 = 2 + 1 /\ 4 = 3 + 1 /\ 5 = 4 + 1 /\ 2 \in 0 .. 4 /\ 3 \in 0 .. 4 /\ 4 \in 0 .. 4
      /\ {a.got, b.got, x.got} = {a.got, b.got} \cup {x.got}
      /\ {a.got, b.got, x.got, y.got} = {a.got, b.got, x.got} \cup {y.got}
      /\ {a.got, b.got, x.got, y.got, d.got} = {a.got, b.got, x.got, y.got} \cup {d.got}
  OBVIOUS
<1>7. Chain(p, 3, {a.got, b.got, x.got}, size) /\ x.got \in Sources
  <2>1. Chain(p, 3, {a.got, b.got, x.got}, size) /\ x.got \in Targets
    BY <1>2, <1>3, <1>4, <1>5, <1>6, TestChain
  <2> QED BY <2>1, KindsOfField
<1>8. Chain(q, 4, {a.got, b.got, x.got, y.got}, size) /\ y.got \in Sources
  <2>1. Chain(q, 4, {a.got, b.got, x.got, y.got}, size) /\ y.got \in Targets
    BY <1>2, <1>3, <1>4, <1>5, <1>6, <1>7, TestChain
  <2> QED BY <2>1, KindsOfField
<1>9. Chain(e, 5, {a.got, b.got, x.got, y.got, d.got}, size) /\ d.got \in Sources
  <2>1. /\ Chain(d, 4 + 1, {a.got, b.got, x.got, y.got} \cup {d.got}, size)
        /\ d.got \in Targets
    BY <1>2, <1>5, <1>6, <1>8, OccupiedChain
  <2>2. Chain(d, 5, {a.got, b.got, x.got, y.got, d.got}, size)
    BY <1>6, <2>1
  <2> DEFINE c == Gen!Data.opcode
  <2>3. Gen!AsmInst(c, d.got, x.got, y.got, Absent) \in BodyInsts(size)
    BY <1>2, <1>7, <1>8, <2>1, GoodOperation
  <2>4. e = Gen!Emitted(d, c, d.got, x.got, y.got, Absent)
    BY SameNames
  <2> HIDE DEF c, e
  <2> QED BY <2>1, <2>2, <2>3, <2>4, EmittedChain, KindsOfField
<1> HIDE DEF e
<1> QED BY <1>1, <1>2, <1>9, SavedLowers

\* The result's slot is reserved and that is all.
LEMMA LowerAllocLowers == ASSUME NEW size, Ready(size), Gen!LowerAlloc PROVE Lowered(size)
<1> DEFINE g  == Gen!Now
           s  == Gen!ResultVar(g)
           w  == Gen!Mem(Gen!VarOffset(g.frames))
           fs == Gen!AllocVar(g.frames, Gen!FromParseResult(Gen!Data.ir_obj), Gen!Data.typ)
<1>1. Gen!Data.opcode = "ALLOC" /\ Gen!Commit(s)
  BY DEF Gen!LowerAlloc, Gen!Lowering
<1>2. Gen!Data.typ = "Int" /\ regs = AllIdle
  BY <1>1 DEF Ready, ValueOps
<1>3. Chain(g, 0, {}, size)
  BY <1>2, NowChain
<1>4. g.regs = AllIdle /\ g.out = <<>>
  BY <1>2 DEF Gen!Now
<1>5. s = [g EXCEPT !.got = w, !.frames = fs]
  BY DEF Gen!ResultVar
<1>6. fs = Gen!AllocVar(frames, FromParseResult(Gen!Data.ir_obj), Gen!Data.typ)
  BY <1>3, SameNames DEF Chain
<1> HIDE DEF g, s, w, fs
<1>7. /\ s.regs = AllIdle /\ s.ok = TRUE /\ s.out = <<>>
      /\ s.frames = Gen!AllocVar(frames, FromParseResult(Gen!Data.ir_obj), Gen!Data.typ)
  BY <1>3, <1>4, <1>5, <1>6 DEF Chain
<1>8. <<>> \in Seq(BodyInsts(size))
  OBVIOUS
<1>9. s.out \in Seq(GoodInsts(size)) /\ MovesBack(s.out, size)
  BY <1>7, <1>8, BodyMovesNot
<1> QED BY <1>1, <1>2, <1>7, <1>9, CommitLowers

LEMMA LowerLoadLowers == ASSUME NEW size, Ready(size), Gen!LowerLoad PROVE Lowered(size)
<1> DEFINE p == Gen!ProcessOp(Gen!Now, 1)
           r == Gen!Occupied(p, Gen!Id)
           e == Gen!Emitted(r, "LW", p.got, r.got, Gen!Absent, Gen!Absent)
<1>1. Gen!Data.opcode = "LOAD" /\ Gen!Commit(Gen!Saved(Gen!Freed(e, {r.got, p.got}), r.got))
  BY DEF Gen!LowerLoad, Gen!Lowering
<1>2. /\ Gen!Data.opcode \in ValueOps /\ regs = AllIdle /\ Gen!Id \in Nat
      /\ Gen!Data.operands[1].kind = "Pointer" /\ Placed(Gen!Data.operands[1], size)
  BY <1>1 DEF Ready, ValueOps
<1>3. Chain(p, 0, {}, size) /\ p.got \in FrameSlots(size)
  <2> DEFINE g == Gen!Now
  <2>1. Chain(g, 0, {}, size) /\ p = Gen!ProcessOp(g, 1)
    BY <1>2, NowChain
  <2> HIDE DEF g, p
  <2> QED BY <1>2, <2>1, PointerChain
<1> HIDE DEF p
<1>4. Chain(r, 0 + 1, {} \cup {r.got}, size) /\ r.got \in Targets
  <2>1. 0 \in 0 .. 4 /\ r = Gen!Occupied(p, Gen!Id)
    OBVIOUS
  <2> HIDE DEF r
  <2> QED BY <1>2, <1>3, <2>1, OccupiedChain
<1> HIDE DEF r
<1>5. Gen!AsmInst("LW", p.got, r.got, Absent, Absent) \in BodyInsts(size)
  BY <1>3, <1>4, GoodLw
<1>6. e = Gen!Emitted(r, "LW", p.got, r.got, Absent, Absent)
  BY SameNames
<1> HIDE DEF e
<1>7. Chain(e, 0 + 1, {} \cup {r.got}, size)
  BY <1>4, <1>5, <1>6, EmittedChain
<1>8. Chain(e, 1, {r.got, p.got}, size)
  BY <1>7 DEF Chain
<1>9. r.got \in Sources
  BY <1>4, KindsOfField
<1> QED BY <1>1, <1>2, <1>8, <1>9, SavedLowers

\* A store has no result: the frames stay.
LEMMA LowerStoreLowers == ASSUME NEW size, Ready(size), Gen!LowerStore PROVE Lowered(size)
<1> DEFINE p == Gen!ProcessOp(Gen!Now, 2)
           v == Gen!ProcessOp(p, 1)
           e == Gen!Emitted(v, "SW", Gen!Absent, p.got, v.got, Gen!Absent)
           f == Gen!Freed(e, {p.got, v.got})
<1>1. Gen!Data.opcode = "STORE" /\ Gen!Commit(f)
  BY DEF Gen!LowerStore, Gen!Lowering
<1>2. /\ regs = AllIdle /\ Gen!Id \in Nat /\ Gen!Data.typ # "Int"
      /\ Readable(Gen!Data.operands[1], size)
      /\ Gen!Data.operands[2].kind = "Pointer" /\ Placed(Gen!Data.operands[2], size)
  BY <1>1 DEF Ready, ValueOps
<1>3. Chain(p, 0, {}, size) /\ p.got \in FrameSlots(size)
  <2> DEFINE g == Gen!Now
  <2>1. Chain(g, 0, {}, size) /\ p = Gen!ProcessOp(g, 2)
    BY <1>2, NowChain
  <2> HIDE DEF g, p
  <2> QED BY <1>2, <2>1, PointerChain
<1> HIDE DEF p
<1>4. Chain(v, 0 + 1, {} \cup {v.got}, size) /\ v.got \in Sources
  <2>1. 0 \in 0 .. 4 /\ v = Gen!ProcessOp(p, 1)
    OBVIOUS
  <2> HIDE DEF v
  <2> QED BY <1>2, <1>3, <2>1, ValueChain
<1> HIDE DEF v
<1>5. Gen!AsmInst("SW", Absent, p.got, v.got, Absent) \in BodyInsts(size)
  BY <1>3, <1>4, GoodSw
<1>6. e = Gen!Emitted(v, "SW", Absent, p.got, v.got, Absent)
  BY SameNames
<1> HIDE DEF e
<1>7. Chain(e, 0 + 1, {} \cup {v.got}, size)
  BY <1>4, <1>5, <1>6, EmittedChain
<1>8. Chain(e, 1, {p.got, v.got}, size)
  BY <1>7 DEF Chain
<1>9. f.regs = AllIdle /\ f.out = e.out /\ f.frames = frames /\ f.ok = TRUE
  <2> DEFINE T == {p.got, v.got}
  <2>1. f = Gen!Freed(e, T) /\ Chain(e, 1, T, size)
    BY <1>8
  <2> HIDE DEF f, T
  <2> QED BY <2>1, FreedChain
<1> HIDE DEF f
<1>10. f.out \in Seq(GoodInsts(size)) /\ MovesBack(f.out, size)
  <2>1. f.out \in Seq(BodyInsts(size))
    BY <1>8, <1>9 DEF Chain
  <2> QED BY <2>1, BodyMovesNot
<1> QED BY <1>1, <1>2, <1>9, <1>10, CommitLowers

\* The value goes to a0, sp moves back, then the function returns.
LEMMA LowerRetLowers ==
  ASSUME NEW size \in Int, Ready(size), Gen!GetSize(frames) = size, Gen!LowerRet
  PROVE  Lowered(size)
<1> DEFINE r == Gen!ProcessOp(Gen!Now, 1)
           e == Gen!Emitted(r, "ADDI", Gen!Temp(Gen!SP), Gen!Temp(Gen!SP), Gen!Absent,
                            Gen!Imm(Gen!GetSize(frames)))
           t == Gen!Emitted(e, "RET", Gen!Absent, Gen!Absent, Gen!Absent, Gen!Absent)
           f == Gen!Freed(t, {r.got})
           back == Gen!AdjustSp(size)
           ret  == Gen!AsmInst("RET", Absent, Absent, Absent, Absent)
<1>1. Gen!Data.opcode = "RET" /\ Gen!Commit(f)
  BY DEF Gen!LowerRet, Gen!Lowering
<1>2. /\ regs = AllIdle /\ Gen!Id \in Nat /\ Gen!Data.typ # "Int"
      /\ Readable(Gen!Data.operands[1], size)
  BY <1>1 DEF Ready, ValueOps
<1>3. Chain(r, 0 + 1, {} \cup {r.got}, size)
  <2> DEFINE g == Gen!Now
  <2>1. Chain(g, 0, {}, size) /\ r = Gen!ProcessOp(g, 1) /\ 0 \in 0 .. 4
    BY <1>2, NowChain
  <2> HIDE DEF g, r
  <2> QED BY <1>2, <2>1, ValueChain
<1> HIDE DEF r
<1>4. /\ back \in BodyInsts(size) /\ ret \in GoodInsts(size)
      /\ back = Gen!AsmInst("ADDI", Temp(SP), Temp(SP), Absent, Imm(size))
  <2>1. size \in {size, -size}
    OBVIOUS
  <2> QED BY <2>1, GoodAddi, GoodRet
<1>5. /\ e = Gen!Emitted(r, "ADDI", Temp(SP), Temp(SP), Absent, Imm(size))
      /\ t = Gen!Emitted(e, "RET", Absent, Absent, Absent, Absent)
  BY SameNames
<1> HIDE DEF e, t
<1>6. Chain(e, 0 + 1, {} \cup {r.got}, size)
  BY <1>3, <1>4, <1>5, EmittedChain
<1>7. /\ t.regs = e.regs /\ t.frames = e.frames /\ t.ok = e.ok /\ t.out = Append(e.out, ret)
      /\ t = [regs |-> t.regs, frames |-> t.frames, out |-> t.out, got |-> t.got, ok |-> t.ok]
  <2> HIDE DEF ret
  <2>1. t = [e EXCEPT !.out = Append(@, ret)]
    BY <1>5 DEF Gen!Emitted, ret
  <2> QED BY <1>6, <2>1 DEF Chain
<1>8. f.regs = AllIdle /\ f.frames = frames /\ f.ok = TRUE /\ f.out = t.out
  <2>1. f = [t EXCEPT !.regs = [x \in Reg |-> IF Temp(x) \in {r.got} THEN REG_IDLE ELSE t.regs[x]]]
    BY <1>7, SameNames DEF Gen!Freed
  <2>2. \A x \in Reg : t.regs[x] # REG_IDLE => Temp(x) \in {r.got}
    BY <1>6, <1>7 DEF Chain
  <2> DEFINE m == [x \in Reg |-> IF Temp(x) \in {r.got} THEN REG_IDLE ELSE t.regs[x]]
  <2>3. m = AllIdle
    BY <2>2 DEF AllIdle
  <2> HIDE DEF f, m
  <2> QED BY <1>6, <1>7, <2>1, <2>3 DEF Chain, m
<1> HIDE DEF f, back, ret
<1>9. /\ e.out = Append(r.out, back) /\ r.out \in Seq(BodyInsts(size))
      /\ BodyInsts(size) \subseteq GoodInsts(size)
  BY <1>3, <1>4, <1>5 DEF Chain, Gen!Emitted, BodyInsts
<1>10. e.out \in Seq(GoodInsts(size)) /\ Len(e.out) \in Nat
  <2>1. e.out \in Seq(BodyInsts(size))
    BY <1>4, <1>9, AppendProperties
  <2> QED BY <1>9, <2>1, SeqMonotonic, LenProperties
<1>11. f.out \in Seq(GoodInsts(size)) /\ Len(e.out) \in DOMAIN f.out
       /\ f.out[Len(e.out)] = back
  <2>1. /\ f.out \in Seq(GoodInsts(size)) /\ Len(f.out) = Len(e.out) + 1
        /\ \A i \in 1 .. Len(e.out) : f.out[i] = e.out[i]
    BY <1>4, <1>7, <1>8, <1>10, AppendProperties
  <2>2. Len(e.out) \in 1 .. Len(e.out) /\ e.out[Len(e.out)] = back
    BY <1>4, <1>9, AppendProperties, LenProperties
  <2>3. DOMAIN f.out = 1 .. Len(f.out)
    BY <2>1, LenProperties
  <2> QED BY <1>10, <2>1, <2>2, <2>3
<1>12. MovesBack(f.out, size)
  BY <1>11 DEF MovesBack, back
<1> QED BY <1>1, <1>2, <1>8, <1>11, <1>12, CommitLowers

LEMMA LowerLowers ==
  ASSUME NEW size \in Int, Ready(size), Gen!GetSize(frames) = size, Gen!Lower
  PROVE  Lowered(size)
  BY LowerEqLowers, LowerLogicLowers, LowerBinaryLowers, LowerAllocLowers, LowerLoadLowers,
     LowerStoreLowers, LowerRetLowers DEF Gen!Lower

-----------------------------------------------------------------------------
(* The front end, as part of the compiler.                                 *)

LEMMA Reasons ==
  /\ \A inst : Emit(inst) => status' # "ok"
  /\ \A n : Checked(n) # "ok"
  /\ \A l, r : CheckedDiv(l, r) # "ok"
  /\ \A reason, n, k : ConstResult(reason, n, k) => status' = reason
<1>1. \A inst : Emit(inst) => status' # "ok"
  BY DEF Emit
<1>2. \A n : Checked(n) # "ok"
  BY DEF Checked
<1>3. \A l, r : CheckedDiv(l, r) # "ok"
  BY DEF CheckedDiv
<1>4. \A reason, n, k : ConstResult(reason, n, k) => status' = reason
  BY DEF ConstResult
<1> QED BY <1>1, <1>2, <1>3, <1>4

LEMMA BinaryConstReason ==
  ASSUME NEW ops, NEW op, NEW reason, NEW n, reason # "ok", BinaryConst(ops, op, reason, n)
  PROVE  status' # "ok"
  BY Reasons DEF BinaryConst

\* Only Finish says that all went well.
LEMMA OnlyFinishSucceeds == ASSUME Next, status' = "ok" PROVE Finish
<1>1. CASE Functions
  BY <1>1 DEF Functions, BeginFunc, EndFunc, AtTop
<1>2. CASE Items
  <2>1. CASE BeginBlock \/ EndBlock
    BY <2>1 DEF BeginBlock, EndBlock, AtItem
  <2>2. CASE \E n \in Names :
               BeginConstDef(n) \/ BeginVarDef(n) \/ VarDefOnly(n) \/ BeginAssign(n)
    BY <2>2, Reasons DEF BeginConstDef, BeginVarDef, VarDefOnly, BeginAssign, AtItem, Alloc
  <2>3. CASE \E kind \in {"return", "raw"} : BeginExpStmt(kind)
    BY <2>3 DEF BeginExpStmt, AtItem
  <2>4. CASE EndConstDef \/ EndVarDef \/ EndAssign \/ EndReturn \/ EndRawExp
    BY <2>4, Reasons DEF EndConstDef, EndVarDef, EndAssign, EndReturn, EndRawExp, Complete
  <2> QED BY <1>2, <2>1, <2>2, <2>3, <2>4 DEF Items
<1>3. CASE Exps
  <2>1. CASE \E c \in Literals : Number(c)
    BY <2>1 DEF Number, InVarExp, InConstExp
  <2>2. CASE \E n \in Names : LValVar(n) \/ LValConst(n)
    BY <2>2, Reasons DEF LValVar, LValConst, InVarExp, InConstExp, EmitValue
  <2>3. CASE \E op \in Operators \cap UnaryOps : UnaryVar(op) \/ UnaryConst(op)
    <3>1. PICK op \in UnaryOps : UnaryVar(op) \/ UnaryConst(op)
      BY <2>3
    <3>2. CASE UnaryVar(op)
      BY <3>2, Reasons DEF UnaryVar, InVarExp, EmitValue
    <3>3. CASE UnaryConst(op)
      BY <3>3, Reasons DEF UnaryConst, UnaryOps
    <3> QED BY <3>1, <3>2, <3>3
  <2>4. CASE \E op \in Operators \ UnaryOps :
               \/ LOrExpVar(op)   \/ LAndExpVar(op)   \/ EqExpVar(op)
               \/ RelExpVar(op)   \/ MulExpVar(op)    \/ AddExpVar(op)
    BY <2>4, Reasons DEF LOrExpVar, LAndExpVar, EqExpVar, RelExpVar, MulExpVar, AddExpVar,
                         BinaryVar, EmitValue
  <2>5. CASE \E op \in Operators \ UnaryOps :
               \/ LOrExpConst(op) \/ LAndExpConst(op) \/ EqExpConst(op)
               \/ RelExpConst(op) \/ MulExpConst(op)  \/ AddExpConst(op)
    <3>1. PICK op \in Operators \ UnaryOps :
               \/ LOrExpConst(op) \/ LAndExpConst(op) \/ EqExpConst(op)
               \/ RelExpConst(op) \/ MulExpConst(op)  \/ AddExpConst(op)
      BY <2>5
    <3>2. CASE LOrExpConst(op) \/ LAndExpConst(op) \/ EqExpConst(op) \/ RelExpConst(op)
      BY <3>2, BinaryConstReason
         DEF LOrExpConst, LAndExpConst, EqExpConst, RelExpConst
    <3>3. CASE MulExpConst(op)
      BY <3>3, BinaryConstReason, Reasons DEF MulExpConst
    <3>4. CASE AddExpConst(op)
      BY <3>4, BinaryConstReason, Reasons DEF AddExpConst
    <3> QED BY <3>1, <3>2, <3>3, <3>4
  <2> QED BY <1>3, <2>1, <2>2, <2>3, <2>4, <2>5 DEF Exps
<1> QED BY <1>1, <1>2, <1>3 DEF Next

-----------------------------------------------------------------------------
(* The invariant.                                                          *)

\* Nothing of the back end and of printing has begun.
Fresh ==
  /\ regs = AllIdle /\ frames = <<>> /\ blocks = <<>> /\ fn = 1 /\ phase = "func"
  /\ printed = <<>> /\ printing = "idle"

\* The instructions with a value among the first n of f, and f's frame after
\* n have been lowered, with the slots map gives.
ValuesUpTo(f, n) == {j \in 0 .. n - 1 : f.inst_map[j].typ = "Int"}
Frame(f, n, map) ==
  [size |-> Gen!FrameSize(f), cur_offset |-> 4 * Cardinality(ValuesUpTo(f, n)), var_map |-> map]

\* What has a value has a slot, and slots are words of their own, packed.
SlotsFit(f, n, map) ==
  /\ \A j \in ValuesUpTo(f, n) : FromParseResult(f.inst_map[j].ir_obj) \in DOMAIN map
  /\ \A m \in DOMAIN map : \E c \in 0 .. Cardinality(ValuesUpTo(f, n)) - 1 : map[m] = 4 * c
  /\ \A l, m \in DOMAIN map : map[l] = map[m] => l = m

Framed(f, n) == \E map : frames = <<Frame(f, n, map)>> /\ SlotsFit(f, n, map)

\* Between functions, and within one.
Entered(f) == EnterBlockScope(EnterFuncScope(<<>>, f))
Outside ==
  phase \in {"func", "done"} /\ stack = <<>> /\ frames = <<>> /\ Len(blocks) = fn - 1
Inside ==
  /\ phase = "inst" /\ printing = "idle" /\ fn \in 1 .. Len(funcs) /\ Len(blocks) = fn
  /\ stack = Entered(fn)
  /\ pos \in 1 .. funcs[fn].next_inst_id + 1 /\ Framed(funcs[fn], pos - 1)

GoodBlocks ==
  /\ blocks \in Seq(Seq(Insts))
  /\ \A b \in 1 .. Len(blocks) : LET size == Gen!FrameSize(funcs[b])
                                 IN blocks[b] \in Seq(GoodInsts(size))
                                    /\ MovesBack(blocks[b], size)

\* The text of a function.
Text(f) == [k \in 1 .. f.next_inst_id |-> Printer!Line(k - 1, f.inst_map[k - 1])]
GoodText ==
  /\ printing \in {"idle", "func", "done"}
  /\ printed \in Seq({Text(f) : f \in FuncSet}) /\ Len(printed) <= Len(funcs)
  /\ \A f \in 1 .. Len(printed) : printed[f] = Text(funcs[f])

CompilerInv ==
  /\ status # "ok" => Inv /\ CodeInv /\ Fresh
  /\ status = "ok" =>
       /\ funcs \in Seq(FuncSet) /\ ProgInv
       /\ regs = AllIdle /\ fn \in 1 .. Len(funcs) + 1 /\ (Outside \/ Inside)
       /\ GoodBlocks /\ GoodText

-----------------------------------------------------------------------------
(* Arithmetic of frames.                                                   *)

LEMMA RoundUp ==
  ASSUME NEW n \in Nat
  PROVE  LET size == ((n + 15) \div 16) * 16
         IN size \in Nat /\ size % 16 = 0 /\ size >= n /\ size < n + 16
<1> DEFINE q == (n + 15) \div 16
<1>1. q \in Nat /\ q * 16 <= n + 15 /\ n + 15 < q * 16 + 16
  OBVIOUS
<1> HIDE DEF q
<1>2. (q * 16) % 16 = 0
  BY <1>1
<1> QED BY <1>1, <1>2 DEF q

LEMMA SameCount == ASSUME NEW S PROVE Gen!Cardinality(S) = Cardinality(S)
  BY DEF Gen!Cardinality, Cardinality

LEMMA ValuesCounted ==
  ASSUME NEW f, NEW n \in Nat, NEW m \in 0 .. n
  PROVE  /\ IsFiniteSet(ValuesUpTo(f, n))
         /\ Cardinality(ValuesUpTo(f, m)) \in Nat
         /\ Cardinality(ValuesUpTo(f, m)) <= Cardinality(ValuesUpTo(f, n))
<1>1. ValuesUpTo(f, n) \in SUBSET (0 .. n - 1) /\ IsFiniteSet(0 .. n - 1)
  <2>1. 0 \in Int /\ n - 1 \in Int
    OBVIOUS
  <2>2. IsFiniteSet(0 .. n - 1)
    BY <2>1, FS_Interval
  <2> QED BY <2>2 DEF ValuesUpTo
<1>2. IsFiniteSet(ValuesUpTo(f, n))
  BY <1>1, FS_Subset
<1>3. ValuesUpTo(f, m) \in SUBSET ValuesUpTo(f, n)
  BY DEF ValuesUpTo
<1> QED BY <1>2, <1>3, FS_Subset, FS_CardinalityType

\* One more instruction is one more value, or none.
LEMMA NextValue ==
  ASSUME NEW f, NEW n \in Nat
  PROVE  IF f.inst_map[n].typ = "Int"
         THEN /\ ValuesUpTo(f, n + 1) = ValuesUpTo(f, n) \cup {n}
              /\ Cardinality(ValuesUpTo(f, n + 1)) = Cardinality(ValuesUpTo(f, n)) + 1
         ELSE ValuesUpTo(f, n + 1) = ValuesUpTo(f, n)
<1>1. CASE f.inst_map[n].typ = "Int"
  <2>1. ValuesUpTo(f, n + 1) = ValuesUpTo(f, n) \cup {n} /\ n \notin ValuesUpTo(f, n)
    BY <1>1 DEF ValuesUpTo
  <2>2. IsFiniteSet(ValuesUpTo(f, n))
    BY ValuesCounted
  <2> QED BY <1>1, <2>1, <2>2, FS_AddElement
<1>2. CASE f.inst_map[n].typ # "Int"
  BY <1>2 DEF ValuesUpTo
<1> QED BY <1>1, <1>2

\* The frame of a function holds its values.
LEMMA FrameHolds ==
  ASSUME NEW f \in FuncSet
  PROVE  /\ Gen!FrameSize(f) \in Nat /\ Gen!FrameSize(f) % 16 = 0
         /\ f.next_inst_id \in Nat
         /\ ValuesUpTo(f, f.next_inst_id) = ValuesOf(f)
         /\ Cardinality(ValuesOf(f)) \in Nat
         /\ 4 * Cardinality(ValuesOf(f)) <= Gen!FrameSize(f)
         /\ Gen!FrameSize(f) < 4 * Cardinality(ValuesOf(f)) + 16
<1>1. f.next_inst_id \in Nat /\ DOMAIN f.inst_map = 0 .. f.next_inst_id - 1
  BY FuncSetIsFunc DEF IsFunc
<1>2. ValuesUpTo(f, f.next_inst_id) = ValuesOf(f)
  BY <1>1 DEF ValuesUpTo, ValuesOf
<1>3. Cardinality(ValuesOf(f)) \in Nat
  <2>1. f.next_inst_id \in 0 .. f.next_inst_id
    BY <1>1
  <2> QED BY <1>1, <1>2, <2>1, ValuesCounted
<1> DEFINE n == 4 * Cardinality(ValuesOf(f))
<1>4. Gen!OriginSize(f) = n /\ n \in Nat
  BY <1>3, SameCount DEF Gen!OriginSize, Gen!SizeInBytes, ValuesOf
<1>5. Gen!FrameSize(f) = ((n + 15) \div 16) * 16
  <2>1. 16 - 1 = 15
    OBVIOUS
  <2> QED BY <1>4, <2>1 DEF Gen!FrameSize, Gen!STK_FRM_BASE_LENGTH
<1> HIDE DEF n
<1>6. Gen!FrameSize(f) \in Nat /\ Gen!FrameSize(f) % 16 = 0
      /\ Gen!FrameSize(f) >= n /\ Gen!FrameSize(f) < n + 16
  BY <1>4, <1>5, RoundUp
<1> QED BY <1>1, <1>2, <1>3, <1>6 DEF n

-----------------------------------------------------------------------------
(* The tables the passes share.                                            *)

LEMMA SameStackNames ==
  /\ \A s : Gen!EnterBlockScope(s) = EnterBlockScope(s)
            /\ Printer!EnterBlockScope(s) = EnterBlockScope(s)
  /\ \A s, f : Gen!EnterFuncScope(s, f) = EnterFuncScope(s, f)
               /\ Printer!EnterFuncScope(s, f) = EnterFuncScope(s, f)
  /\ \A s : Gen!ExitScope(s) = ExitScope(s) /\ Printer!ExitScope(s) = ExitScope(s)
  /\ \A s : Gen!Last(s) = Last(s) /\ Printer!Last(s) = Last(s)
<1> USE DEF NewContext, Gen!NewContext, Printer!NewContext, EmptyTable, Gen!EmptyTable,
            Printer!EmptyTable, NoObj, Gen!NoObj, Printer!NoObj, Obj, Gen!Obj, Printer!Obj,
            Last, Gen!Last, Printer!Last, Front, Gen!Front, Printer!Front
<1>1. \A s : Gen!EnterBlockScope(s) = EnterBlockScope(s)
             /\ Printer!EnterBlockScope(s) = EnterBlockScope(s)
  BY DEF EnterBlockScope, Gen!EnterBlockScope, Printer!EnterBlockScope
<1>2. \A s, f : Gen!EnterFuncScope(s, f) = EnterFuncScope(s, f)
                /\ Printer!EnterFuncScope(s, f) = EnterFuncScope(s, f)
  BY DEF EnterFuncScope, Gen!EnterFuncScope, Printer!EnterFuncScope
<1>3. \A s : Gen!ExitScope(s) = ExitScope(s) /\ Printer!ExitScope(s) = ExitScope(s)
  BY DEF ExitScope, Gen!ExitScope, Printer!ExitScope
<1>4. \A s : Gen!Last(s) = Last(s) /\ Printer!Last(s) = Last(s)
  OBVIOUS
<1> QED BY <1>1, <1>2, <1>3, <1>4

\* A function's context comes and goes: the second exit_scope finds nothing.
LEMMA EnteredFacts ==
  ASSUME NEW f
  PROVE  /\ Len(Entered(f)) = 1 /\ Last(Entered(f)).func = f
         /\ ExitScope(ExitScope(Entered(f))) = <<>>
<1> DEFINE C == ContextSet({f}, {}, {})
           s == Entered(f)
<1>1. s \in Seq(C) /\ Len(s) = 1 /\ s[1].func = f
  <2>1. f \in {f}
    OBVIOUS
  <2> QED BY <2>1, EnterBlockScopeFirst DEF Entered
<1> HIDE DEF C, s
<1>2. s # <<>>
  <2>1. s = <<>> => Len(s) = 0
    BY <1>1, EmptySeq
  <2> QED BY <1>1, <2>1
<1>3. Front(s) \in Seq(C) /\ Len(Front(s)) = 0
  BY <1>1, <1>2, LastAndFront
<1>4. ExitScope(s) = <<>>
  BY <1>2, <1>3, EmptySeq DEF ExitScope
<1>5. ExitScope(<<>>) = <<>>
  BY DEF ExitScope
<1>6. Last(s).func = f
  BY <1>1 DEF Last
<1> QED BY <1>1, <1>4, <1>5, <1>6 DEF s

\* When the front end is done, the stack is empty again.
LEMMA FinishHandsOver ==
  ASSUME CompilerInv, FrontEnd
  PROVE  CompilerInv'
<1>1. Next /\ status = "run" /\ Inv /\ CodeInv /\ Fresh
  BY SimStepIsStep, NextRuns DEF FrontEnd, CompilerInv
<1>2. Inv' /\ CodeInv'
  <2>1. Inv'
    BY <1>1, InvStep
  <2> QED BY <1>1, <2>1, CodeStep
<1>3. Fresh'
  BY <1>1 DEF FrontEnd, backvars, textvars, Fresh
<1>4. ASSUME status' = "ok"
      PROVE  /\ funcs' \in Seq(FuncSet) /\ ProgInv' /\ Outside' /\ GoodBlocks' /\ GoodText'
             /\ fn' \in 1 .. Len(funcs') + 1
  <2>1. funcs' \in Seq(FuncSet) /\ ProgInv' /\ Len(funcs') \in Nat
    <3>1. funcs' \in Seq(FuncSet)
      BY <1>2 DEF Inv, TypeInv
    <3> QED BY <1>2, <3>1, LenProperties DEF CodeInv
  <2>2. stack' = <<>>
    <3>1. Finish
      BY <1>1, <1>4, OnlyFinishSucceeds
    <3> QED BY <1>1, <3>1, InTop DEF Finish
  <2>3. <<>> \in Seq(Seq(Insts)) /\ Len(<<>>) = 0
        /\ <<>> \in Seq({Text(f) : f \in FuncSet})
    OBVIOUS
  <2>4. Outside'
    BY <1>3, <2>2, <2>3 DEF Outside, Fresh
  <2>5. GoodBlocks' /\ GoodText'
    BY <1>3, <2>1, <2>3 DEF GoodBlocks, GoodText, Fresh
  <2>6. fn' \in 1 .. Len(funcs') + 1
    BY <1>3, <2>1 DEF Fresh
  <2> QED BY <2>1, <2>4, <2>5, <2>6
<1> QED BY <1>2, <1>3, <1>4 DEF CompilerInv, Fresh

-----------------------------------------------------------------------------
(* Slots.                                                                  *)

LEMMA SingleFacts ==
  ASSUME NEW x
  PROVE  /\ Len(<<x>>) = 1 /\ <<x>> # <<>> /\ Last(<<x>>) = x /\ <<x>>[1] = x
         /\ \A y : [<<x>> EXCEPT ![1] = y] = <<y>>
<1>1. Len(<<x>>) = 1 /\ <<x>> # <<>> /\ <<x>>[1] = x
  OBVIOUS
<1>2. Last(<<x>>) = x
  BY <1>1 DEF Last
<1>3. \A y : [<<x>> EXCEPT ![1] = y] = <<y>>
  OBVIOUS
<1> QED BY <1>1, <1>2, <1>3

LEMMA SingleExcept ==
  ASSUME NEW x, NEW y, NEW s, s = <<x>>
  PROVE  [s EXCEPT ![1] = y] = <<y>>
  OBVIOUS

LEMMA FrameFacts ==
  ASSUME NEW f, NEW n, NEW map, frames = <<Frame(f, n, map)>>
  PROVE  /\ \A o : Gen!HasVar(frames, o) <=> o \in DOMAIN map
         /\ \A o : Gen!GetNamedVar(frames, o) = map[o]
         /\ Gen!VarOffset(frames) = 4 * Cardinality(ValuesUpTo(f, n))
         /\ Gen!GetSize(frames) = Gen!FrameSize(f)
         /\ Last(frames) = Frame(f, n, map) /\ Len(frames) = 1
<1> DEFINE fr == Frame(f, n, map)
<1>1. frames = <<fr>> /\ fr.var_map = map /\ fr.size = Gen!FrameSize(f)
      /\ fr.cur_offset = 4 * Cardinality(ValuesUpTo(f, n))
  BY DEF Frame
<1> HIDE DEF fr
<1>2. Last(frames) = fr /\ frames # <<>> /\ Len(frames) = 1 /\ Gen!Last(frames) = fr
  BY <1>1, SingleFacts, SameStackNames
<1> QED BY <1>1, <1>2 DEF Gen!HasVar, Gen!GetNamedVar, Gen!VarOffset, Gen!GetSize, fr

\* What has a value and has been lowered has a slot within the frame.
LEMMA SlotPlaced ==
  ASSUME NEW f \in FuncSet, NEW n \in 0 .. f.next_inst_id, NEW map,
         frames = <<Frame(f, n, map)>>, SlotsFit(f, n, map),
         NEW j \in ValuesUpTo(f, n)
  PROVE  Placed(FromParseResult(f.inst_map[j].ir_obj), Gen!FrameSize(f))
<1> DEFINE o == FromParseResult(f.inst_map[j].ir_obj)
           v == Cardinality(ValuesUpTo(f, n))
           size == Gen!FrameSize(f)
<1>1. o \in DOMAIN map
  BY DEF SlotsFit
<1>2. PICK c \in 0 .. v - 1 : map[o] = 4 * c
  BY <1>1 DEF SlotsFit
<1>3. v \in Nat /\ 4 * v <= size /\ size \in Nat
  <2>1. v \in Nat /\ v <= Cardinality(ValuesOf(f))
    BY FrameHolds, ValuesCounted
  <2>2. size \in Nat /\ Cardinality(ValuesOf(f)) \in Nat /\ 4 * Cardinality(ValuesOf(f)) <= size
    BY FrameHolds
  <2> HIDE DEF v, size
  <2> QED BY <2>1, <2>2
<1> HIDE DEF v, size, o
<1>4. map[o] \in 0 .. size - 4
  BY <1>2, <1>3
<1> QED BY <1>1, <1>4, FrameFacts DEF Placed, o, size

\* A value that instruction n may use can be read.
LEMMA UsableReadable ==
  ASSUME NEW f \in FuncSet, LegalFunc(f), NEW n \in 0 .. f.next_inst_id, NEW map,
         frames = <<Frame(f, n, map)>>, SlotsFit(f, n, map),
         NEW o \in Operand, Usable(f, n, o)
  PROVE  Readable(o, Gen!FrameSize(f))
<1>1. CASE o.kind = "Const"
  BY <1>1 DEF Usable, Readable
<1>2. CASE o.kind # "Const"
  <2> DEFINE j == o.val
  <2>1. o.kind = "InstId" /\ j \in 0 .. n - 1 /\ f.inst_map[j].opcode \in ValueOps \ {"ALLOC"}
    BY <1>2 DEF Usable
  <2>2. f.next_inst_id \in Nat
    BY LegalFacts
  <2>3. Fits(f, j, f.inst_map[j]) /\ j \in Nat
    BY <2>1, <2>2 DEF LegalFunc
  <2>4. f.inst_map[j].typ = "Int" /\ f.inst_map[j].ir_obj = InstIdObj(j)
    BY <2>1, <2>3 DEF Fits, Builder!Binary, Builder!ValueOps, ValueOps
  <2>5. FromParseResult(f.inst_map[j].ir_obj) = o
    BY <2>1, <2>4 DEF FromParseResult, InstIdObj, Obj, Operand
  <2>6. j \in ValuesUpTo(f, n)
    BY <2>1, <2>4 DEF ValuesUpTo
  <2> QED BY <2>1, <2>3, <2>5, <2>6, SlotPlaced DEF Readable
<1> QED BY <1>1, <1>2

\* A pointer that has been allocated has a slot.
LEMMA AllocatedPlaced ==
  ASSUME NEW f \in FuncSet, LegalFunc(f), NEW n \in 0 .. f.next_inst_id, NEW map,
         frames = <<Frame(f, n, map)>>, SlotsFit(f, n, map),
         NEW o \in Operand, o.kind = "Pointer", AllocIn(f, n, o.val)
  PROVE  Placed(o, Gen!FrameSize(f))
<1>1. PICK j \in 0 .. n - 1 :
        f.inst_map[j].opcode = "ALLOC" /\ f.inst_map[j].ir_obj.val = o.val
  BY DEF AllocIn
<1>2. f.next_inst_id \in Nat
  BY LegalFacts
<1>3. Fits(f, j, f.inst_map[j])
  BY <1>2 DEF LegalFunc
<1>4. f.inst_map[j].typ = "Int" /\ f.inst_map[j].ir_obj.kind = "Pointer"
  BY <1>1, <1>3 DEF Fits, ValueOps
<1>5. FromParseResult(f.inst_map[j].ir_obj) = o
  BY <1>1, <1>4 DEF FromParseResult, Operand
<1>6. j \in ValuesUpTo(f, n)
  BY <1>4 DEF ValuesUpTo
<1> QED BY <1>5, <1>6, SlotPlaced

\* more is map with a slot for name.
WithSlot(more, map, name, slot) ==
  /\ DOMAIN more = DOMAIN map \cup {name} /\ more[name] = slot
  /\ \A m \in DOMAIN map : m # name => more[m] = map[m]

\* alloc_var keeps the frame in step with the instructions.
LEMMA AllocFramed ==
  ASSUME NEW f \in FuncSet, NEW n \in Nat, NEW map,
         frames = <<Frame(f, n, map)>>, SlotsFit(f, n, map), f.inst_map[n].typ = "Int",
         NEW name, name = FromParseResult(f.inst_map[n].ir_obj),
         NEW fs, fs = Gen!AllocVar(frames, name, "Int")
  PROVE  \E more : /\ fs = <<Frame(f, n + 1, more)>> /\ SlotsFit(f, n + 1, more)
                   /\ WithSlot(more, map, name, 4 * Cardinality(ValuesUpTo(f, n)))
<1> DEFINE v == Cardinality(ValuesUpTo(f, n))
           more == [m \in DOMAIN map \cup {name} |-> IF m = name THEN 4 * v ELSE map[m]]
           fr == Frame(f, n, map)
<1>1. v \in Nat /\ Cardinality(ValuesUpTo(f, n + 1)) = v + 1
      /\ ValuesUpTo(f, n + 1) = ValuesUpTo(f, n) \cup {n}
  <2>1. n \in 0 .. n
    OBVIOUS
  <2> QED BY <2>1, ValuesCounted, NextValue
<1>2. fs = <<Frame(f, n + 1, more)>>
  <2>1. Gen!VarOffset(frames) = 4 * v /\ Len(frames) = 1
    BY FrameFacts
  <2>2. fr = [size |-> Gen!FrameSize(f), cur_offset |-> 4 * v, var_map |-> map]
        /\ fr.var_map = map /\ fr.cur_offset = 4 * v
    BY DEF Frame
  <2>3. Gen!SizeInBytes("Int") = 4 /\ 4 * v + 4 = 4 * (v + 1)
    BY <1>1 DEF Gen!SizeInBytes
  <2> DEFINE joined == [m \in DOMAIN fr.var_map \cup {name} |->
                          IF m = name THEN 4 * v ELSE fr.var_map[m]]
  <2>4. fs = [frames EXCEPT ![1].var_map = joined, ![1].cur_offset = 4 * v + 4]
    <3>1. frames[1] = fr
      OBVIOUS
    <3> DEFINE k == 4 * v
    <3>2. fr.cur_offset = k /\ Gen!VarOffset(frames) = k /\ k \in Nat
      BY <1>1, <2>1, <2>2
    <3> HIDE DEF fr, k
    <3> QED BY <2>1, <2>3, <3>1, <3>2 DEF Gen!AllocVar
  <2>5. joined = more
    <3> HIDE DEF fr, v
    <3> QED BY <2>2
  <2> DEFINE k == 4 * v
  <2>6. fr = [size |-> Gen!FrameSize(f), cur_offset |-> k, var_map |-> map]
    BY <2>2
  <2>7. Frame(f, n + 1, more)
          = [size |-> Gen!FrameSize(f), cur_offset |-> k + 4, var_map |-> more]
    BY <1>1, <2>3 DEF Frame
  <2>8. fs = [frames EXCEPT ![1].var_map = more, ![1].cur_offset = k + 4] /\ frames = <<fr>>
    BY <2>4, <2>5
  <2> HIDE DEF fr, more, k
  <2> HIDE DEF joined, v
  <2> DEFINE z == Frame(f, n + 1, more)
  <2> HIDE DEF z
  <2>9. z = [size |-> Gen!FrameSize(f), cur_offset |-> k + 4, var_map |-> more]
    BY <2>7 DEF z
  <2>10. fs = [frames EXCEPT ![1].var_map = more, ![1].cur_offset = k + 4]
    BY <2>8
  <2>11. frames = <<fr>>
    BY <2>8
  <2> DEFINE y == [size |-> Gen!FrameSize(f), cur_offset |-> k, var_map |-> more]
  <2>12. [fr EXCEPT !.var_map = more] = y /\ [y EXCEPT !.cur_offset = k + 4] = z
    BY <2>6, <2>9
  <2> HIDE DEF y
  <2>13. [frames EXCEPT ![1].var_map = more] = <<y>>
    <3>1. [frames EXCEPT ![1] = y] = <<y>> /\ frames[1] = fr
      BY <2>11, SingleExcept
    <3> QED BY <2>12, <3>1
  <2>14. [<<y>> EXCEPT ![1].cur_offset = k + 4] = <<z>>
    <3>1. [<<y>> EXCEPT ![1] = z] = <<z>> /\ <<y>>[1] = y
      BY SingleFacts
    <3> QED BY <2>12, <3>1
  <2> QED BY <2>10, <2>13, <2>14 DEF z
<1>3. SlotsFit(f, n + 1, more)
  <2> HIDE DEF v
  <2>1. DOMAIN more = DOMAIN map \cup {name} /\ more[name] = 4 * v
        /\ \A m \in DOMAIN map : m # name => more[m] = map[m]
    OBVIOUS
  <2> HIDE DEF more
  <2>2. \A m \in DOMAIN map : \E c \in 0 .. v - 1 : map[m] = 4 * c
    BY DEF SlotsFit, v
  <2>3. \A j \in ValuesUpTo(f, n + 1) : FromParseResult(f.inst_map[j].ir_obj) \in DOMAIN more
    BY <1>1, <2>1 DEF SlotsFit
  <2> DEFINE w == Cardinality(ValuesUpTo(f, n + 1))
  <2>4. \A m \in DOMAIN more : \E c \in 0 .. w - 1 : more[m] = 4 * c
    <3>1. w = v + 1 /\ v \in Nat
      BY <1>1
    <3> HIDE DEF w
    <3>2. v \in 0 .. w - 1 /\ 0 .. v - 1 \subseteq 0 .. w - 1
      BY <3>1
    <3> TAKE m \in DOMAIN more
    <3>3. CASE m = name
      BY <2>1, <3>2, <3>3
    <3>4. CASE m # name
      <4>1. m \in DOMAIN map /\ more[m] = map[m]
        BY <2>1, <3>4
      <4>2. PICK c \in 0 .. v - 1 : map[m] = 4 * c
        BY <2>2, <4>1
      <4> QED BY <3>2, <4>1, <4>2
    <3> QED BY <3>3, <3>4
  <2>5. \A l, m \in DOMAIN more : more[l] = more[m] => l = m
    <3>1. \A m \in DOMAIN map : map[m] # 4 * v
      BY <1>1, <2>2
    <3> QED BY <2>1, <3>1 DEF SlotsFit
  <2> QED BY <2>3, <2>4, <2>5 DEF SlotsFit
<1>4. WithSlot(more, map, name, 4 * v)
  <2> HIDE DEF v
  <2>1. DOMAIN more = DOMAIN map \cup {name} /\ more[name] = 4 * v
        /\ \A m \in DOMAIN map : m # name => more[m] = map[m]
    OBVIOUS
  <2> HIDE DEF more
  <2> QED BY <2>1 DEF WithSlot
<1> HIDE DEF more, v
<1> QED BY <1>2, <1>3, <1>4 DEF v

\* An instruction without a value leaves the frame as it is.
LEMMA KeptFramed ==
  ASSUME NEW f, NEW n \in Nat, NEW map, SlotsFit(f, n, map), f.inst_map[n].typ # "Int"
  PROVE  SlotsFit(f, n + 1, map) /\ Frame(f, n + 1, map) = Frame(f, n, map)
<1>1. ValuesUpTo(f, n + 1) = ValuesUpTo(f, n)
  BY NextValue
<1> QED BY <1>1 DEF SlotsFit, Frame


-----------------------------------------------------------------------------
(* The steps of the back end.                                              *)

\* What a step after the front end has to show.
LEMMA LaterStep ==
  ASSUME CompilerInv, FrontDone, UNCHANGED funcs, regs' = AllIdle,
         fn' \in 1 .. Len(funcs) + 1, Outside' \/ Inside', GoodBlocks', GoodText'
  PROVE  CompilerInv'
<1>1. status' = "ok" /\ status = "ok" /\ UNCHANGED nextPtr
  BY DEF FrontDone
<1>2. ProgInv'
  BY <1>1, SameProgram DEF CompilerInv
<1> QED BY <1>1, <1>2 DEF CompilerInv

LEMMA FuncLegal ==
  ASSUME CompilerInv, status = "ok", NEW f \in 1 .. Len(funcs)
  PROVE  funcs[f] \in FuncSet /\ LegalFunc(funcs[f])
<1>1. funcs \in Seq(FuncSet) /\ ProgInv
  BY DEF CompilerInv
<1> QED BY <1>1, ElementOfSeq DEF ProgInv

LEMMA SameGood ==
  /\ GoodBlocks /\ UNCHANGED <<blocks, funcs>> => GoodBlocks'
  /\ GoodText /\ UNCHANGED <<printed, printing, funcs>> => GoodText'
  BY DEF GoodBlocks, GoodText

\* Another block.
LEMMA BlockAdded ==
  ASSUME GoodBlocks, UNCHANGED funcs,
         NEW size, size = Gen!FrameSize(funcs[Len(blocks) + 1]),
         NEW out \in Seq(GoodInsts(size)), MovesBack(out, size), blocks' = Append(blocks, out)
  PROVE  GoodBlocks' /\ Len(blocks') = Len(blocks) + 1
<1>1. out \in Seq(Insts) /\ blocks \in Seq(Seq(Insts))
  <2>1. GoodInsts(size) \subseteq Insts
    BY DEF GoodInsts
  <2> QED BY <2>1, SeqMonotonic DEF GoodBlocks
<1>2. /\ blocks' \in Seq(Seq(Insts)) /\ Len(blocks') = Len(blocks) + 1 /\ Len(blocks) \in Nat
      /\ \A b \in 1 .. Len(blocks) : blocks'[b] = blocks[b]
      /\ blocks'[Len(blocks) + 1] = out
  BY <1>1, AppendProperties, LenProperties
<1>3. ASSUME NEW b \in 1 .. Len(blocks')
      PROVE  LET s == Gen!FrameSize(funcs[b])
             IN blocks'[b] \in Seq(GoodInsts(s)) /\ MovesBack(blocks'[b], s)
  <2>1. CASE b = Len(blocks) + 1
    BY <1>2, <2>1
  <2>2. CASE b # Len(blocks) + 1
    <3>1. b \in 1 .. Len(blocks)
      BY <1>2, <2>2
    <3> QED BY <1>2, <3>1 DEF GoodBlocks
  <2> QED BY <2>1, <2>2
<1> QED BY <1>2, <1>3 DEF GoodBlocks

LEMMA MovesBackJoin ==
  ASSUME NEW size, NEW S, NEW a \in Seq(S), NEW b \in Seq(S),
         MovesBack(a, size), MovesBack(b, size)
  PROVE  MovesBack(a \o b, size)
<1> DEFINE c == a \o b
<1>1. /\ c \in Seq(S) /\ Len(c) = Len(a) + Len(b) /\ Len(a) \in Nat /\ Len(b) \in Nat
      /\ \A i \in 1 .. Len(a) + Len(b) :
           c[i] = IF i <= Len(a) THEN a[i] ELSE b[i - Len(a)]
  BY ConcatProperties, LenProperties
<1> HIDE DEF c
<1>2. DOMAIN c = 1 .. Len(a) + Len(b) /\ DOMAIN a = 1 .. Len(a) /\ DOMAIN b = 1 .. Len(b)
  BY <1>1, LenProperties
<1>3. \A i \in DOMAIN a : i \in DOMAIN c /\ c[i] = a[i]
  BY <1>1, <1>2
<1>4. \A i \in DOMAIN b : i + Len(a) \in DOMAIN c /\ c[i + Len(a)] = b[i]
  <2> TAKE i \in DOMAIN b
  <2>1. i + Len(a) \in 1 .. Len(a) + Len(b) /\ ~(i + Len(a) <= Len(a))
        /\ i + Len(a) - Len(a) = i
    BY <1>1, <1>2
  <2> QED BY <1>1, <1>2, <2>1
<1>5. \A i \in DOMAIN c : \/ i \in DOMAIN a /\ c[i] = a[i]
                          \/ i - Len(a) \in DOMAIN b /\ c[i] = b[i - Len(a)]
  BY <1>1, <1>2
<1>6. SUFFICES ASSUME NEW i \in DOMAIN c, c[i].opcode = "RET"
               PROVE  \E k \in DOMAIN c : c[k] = Gen!AdjustSp(size)
  BY DEF MovesBack, c
<1>7. CASE i \in DOMAIN a /\ c[i] = a[i]
  <2>1. PICK k \in DOMAIN a : a[k] = Gen!AdjustSp(size)
    BY <1>6, <1>7 DEF MovesBack
  <2> QED BY <1>3, <2>1
<1>8. CASE i - Len(a) \in DOMAIN b /\ c[i] = b[i - Len(a)]
  <2>1. PICK k \in DOMAIN b : b[k] = Gen!AdjustSp(size)
    BY <1>6, <1>8 DEF MovesBack
  <2> QED BY <1>4, <2>1
<1> QED BY <1>5, <1>6, <1>7, <1>8

\* The last block, longer.
LEMMA BlockGrown ==
  ASSUME GoodBlocks, UNCHANGED funcs, blocks # <<>>,
         NEW size, size = Gen!FrameSize(funcs[Len(blocks)]),
         NEW out \in Seq(GoodInsts(size)), MovesBack(out, size),
         blocks' = [blocks EXCEPT ![Len(blocks)] = @ \o out]
  PROVE  GoodBlocks' /\ Len(blocks') = Len(blocks)
<1> DEFINE k == Len(blocks)
           new == blocks[k] \o out
<1>1. blocks \in Seq(Seq(Insts)) /\ k \in Nat /\ k \in 1 .. k
  <2>1. blocks \in Seq(Seq(Insts)) /\ k \in Nat
    BY LenProperties DEF GoodBlocks
  <2>2. k # 0
    BY <2>1, EmptySeq
  <2> QED BY <2>1, <2>2
<1>2. blocks[k] \in Seq(GoodInsts(size)) /\ MovesBack(blocks[k], size)
  BY <1>1 DEF GoodBlocks
<1>3. new \in Seq(GoodInsts(size)) /\ MovesBack(new, size)
  BY <1>2, ConcatProperties, MovesBackJoin
<1>4. new \in Seq(Insts)
  <2>1. GoodInsts(size) \subseteq Insts
    BY DEF GoodInsts
  <2> QED BY <1>3, <2>1, SeqMonotonic
<1>5. blocks' = [blocks EXCEPT ![k] = new]
  OBVIOUS
<1> HIDE DEF new
<1>6. /\ blocks' \in Seq(Seq(Insts)) /\ Len(blocks') = k
      /\ \A b \in 1 .. k : blocks'[b] = IF b = k THEN new ELSE blocks[b]
  <2> DEFINE S == Seq(Insts)
             b == [blocks EXCEPT ![k] = new]
  <2>1. blocks \in Seq(S) /\ k \in 1 .. Len(blocks) /\ new \in S
    BY <1>1, <1>4
  <2> HIDE DEF S
  <2>2. /\ b \in Seq(S) /\ Len(b) = Len(blocks)
        /\ \A j \in 1 .. Len(blocks) : b[j] = IF j = k THEN new ELSE blocks[j]
    BY <2>1, ExceptSeq
  <2> QED BY <1>5, <2>2 DEF S
<1>7. ASSUME NEW b \in 1 .. k
      PROVE  LET s == Gen!FrameSize(funcs[b])
             IN blocks'[b] \in Seq(GoodInsts(s)) /\ MovesBack(blocks'[b], s)
  BY <1>3, <1>6 DEF GoodBlocks
<1> QED BY <1>6, <1>7 DEF GoodBlocks

\* A function is entered with an empty frame, its code with the prologue.
LEMMA BeginAsmBlockFacts ==
  ASSUME CompilerInv, FrontDone, Gen!BeginAsmBlock, NEW f, f = funcs[fn]
  PROVE  /\ status = "ok" /\ phase = "func" /\ Outside /\ GoodBlocks /\ GoodText
         /\ regs = AllIdle /\ fn \in 1 .. Len(funcs) /\ fn \in Nat /\ Len(funcs) \in Nat
         /\ f \in FuncSet /\ LegalFunc(f) /\ stack' = Entered(fn)
         /\ frames' = <<Frame(f, 0, Gen!NoVars)>> /\ SlotsFit(f, 0, Gen!NoVars)
         /\ blocks' = Append(blocks, <<Gen!AdjustSp(-Gen!FrameSize(f))>>)
<1> DEFINE size == Gen!FrameSize(f)
<1>1. /\ status = "ok" /\ phase = "func" /\ Outside /\ GoodBlocks /\ GoodText
      /\ fn \in 1 .. Len(funcs) + 1 /\ regs = AllIdle /\ funcs \in Seq(FuncSet)
  BY DEF FrontDone, CompilerInv, Inside, Gen!BeginAsmBlock
<1>2. fn \in 1 .. Len(funcs) /\ fn \in Nat /\ Len(funcs) \in Nat
  <2>1. Len(funcs) \in Nat /\ fn <= Len(funcs)
    BY <1>1, LenProperties DEF Gen!BeginAsmBlock
  <2> QED BY <1>1, <2>1
<1>3. f \in FuncSet /\ LegalFunc(f)
  BY <1>1, <1>2, FuncLegal
<1>4. stack' = Entered(fn)
  BY <1>1, SameStackNames DEF Outside, Gen!BeginAsmBlock, Entered
<1>5. frames' = <<Frame(f, 0, Gen!NoVars)>> /\ SlotsFit(f, 0, Gen!NoVars)
  <2>1. ValuesUpTo(f, 0) = {} /\ Cardinality({}) = 0
    BY FS_EmptySet DEF ValuesUpTo
  <2>2. Frame(f, 0, Gen!NoVars)
          = [size |-> size, cur_offset |-> 0, var_map |-> Gen!NoVars]
    BY <2>1 DEF Frame
  <2>3. frames' = Append(<<>>, Frame(f, 0, Gen!NoVars))
    BY <1>1, <2>2 DEF Outside, Gen!BeginAsmBlock, Gen!Prologue
  <2>4. DOMAIN Gen!NoVars = {}
    BY DEF Gen!NoVars
  <2> QED BY <2>1, <2>3, <2>4 DEF SlotsFit
<1>6. blocks' = Append(blocks, <<Gen!AdjustSp(-size)>>)
  <2> DEFINE fr == Frame(f, 0, Gen!NoVars)
             b  == <<Gen!AdjustSp(-size)>>
  <2>1. fr.size = size
    BY DEF Frame
  <2> HIDE DEF fr
  <2>2. Last(<<fr>>) = fr /\ Len(<<fr>>) = 1 /\ <<fr>> # <<>> /\ frames' = <<fr>>
    BY <1>5, SingleFacts DEF fr
  <2>3. Gen!GetSize(frames') = size /\ ~Gen!IsCallee(frames')
    BY <2>1, <2>2, SameStackNames DEF Gen!GetSize, Gen!IsCallee
  <2>4. b \o <<>> = b
    OBVIOUS
  <2> HIDE DEF size, b
  <2> QED BY <2>3, <2>4 DEF Gen!BeginAsmBlock, b
<1> QED BY <1>1, <1>2, <1>3, <1>4, <1>5, <1>6

LEMMA BeginAsmBlockKeeps ==
  ASSUME CompilerInv, FrontDone, printing = "idle", UNCHANGED textvars, Gen!BeginAsmBlock
  PROVE  CompilerInv'
<1> DEFINE f    == funcs[fn]
           size == Gen!FrameSize(f)
<1>1. /\ status = "ok" /\ phase = "func" /\ Outside /\ GoodBlocks /\ GoodText
      /\ regs = AllIdle /\ fn \in 1 .. Len(funcs) /\ fn \in Nat /\ Len(funcs) \in Nat
      /\ f \in FuncSet /\ LegalFunc(f) /\ stack' = Entered(fn)
      /\ frames' = <<Frame(f, 0, Gen!NoVars)>> /\ SlotsFit(f, 0, Gen!NoVars)
      /\ blocks' = Append(blocks, <<Gen!AdjustSp(-size)>>)
  BY BeginAsmBlockFacts
<1>2. size \in Nat /\ -size \in {size, -size} /\ size \in Int
  BY <1>1, FrameHolds
<1>3. /\ <<Gen!AdjustSp(-size)>> \in Seq(GoodInsts(size))
      /\ MovesBack(<<Gen!AdjustSp(-size)>>, size)
  <2>1. Gen!AdjustSp(-size) \in BodyInsts(size)
    BY <1>2, GoodAddi
  <2>2. <<Gen!AdjustSp(-size)>> \in Seq(BodyInsts(size))
    BY <2>1
  <2> QED BY <2>2, BodyMovesNot
<1>4. Len(blocks) + 1 = fn
  BY <1>1 DEF Outside
<1>5. GoodBlocks' /\ Len(blocks') = fn
  <2>1. UNCHANGED funcs /\ size = Gen!FrameSize(funcs[Len(blocks) + 1])
    BY <1>4 DEF Gen!BeginAsmBlock
  <2> HIDE DEF size
  <2> QED BY <1>1, <1>3, <1>4, <2>1, BlockAdded
<1>6. Inside'
  <2>1. /\ phase' = "inst" /\ pos' = 1 /\ UNCHANGED <<funcs, fn, printing>>
    BY DEF Gen!BeginAsmBlock, textvars
  <2>2. f.next_inst_id \in Nat
    BY <1>1, FrameHolds
  <2>3. 1 \in 1 .. f.next_inst_id + 1 /\ 1 - 1 = 0
    BY <2>2
  <2>4. Framed(f, 0)'
    BY <1>1, <2>1 DEF Framed
  <2>5. Framed(funcs[fn], pos - 1)'
    BY <2>1, <2>3, <2>4
  <2> QED BY <1>1, <1>5, <2>1, <2>3, <2>5 DEF Inside
<1>7. GoodText'
  BY <1>1, SameGood DEF textvars, Gen!BeginAsmBlock
<1> QED BY <1>1, <1>5, <1>6, <1>7, LaterStep DEF Gen!BeginAsmBlock

\* Within a function.
LEMMA InsideFacts ==
  ASSUME CompilerInv, status = "ok", phase = "inst"
  PROVE  /\ Inside /\ GoodBlocks /\ GoodText /\ regs = AllIdle /\ fn \in 1 .. Len(funcs)
         /\ Gen!Func = funcs[fn] /\ funcs[fn] \in FuncSet /\ LegalFunc(funcs[fn])
         /\ Len(funcs[fn].inst_list) = funcs[fn].next_inst_id
         /\ funcs[fn].next_inst_id \in Nat /\ Len(funcs) \in Nat
<1>1. Inside /\ GoodBlocks /\ GoodText /\ regs = AllIdle /\ funcs \in Seq(FuncSet)
  BY DEF CompilerInv, Outside
<1>2. fn \in 1 .. Len(funcs)
  BY <1>1 DEF Inside
<1>3. funcs[fn] \in FuncSet /\ LegalFunc(funcs[fn])
  BY <1>2, FuncLegal
<1>4. Gen!Func = funcs[fn]
  BY <1>1, SameStackNames, EnteredFacts DEF Inside, Gen!Func
<1> QED BY <1>1, <1>2, <1>3, <1>4, LegalFacts, LenProperties

\* An instruction finds what its lowering unwraps.
LEMMA LowerIsReady ==
  ASSUME NEW f \in FuncSet, LegalFunc(f), Gen!Func = f, regs = AllIdle,
         pos \in 1 .. f.next_inst_id, NEW map, frames = <<Frame(f, pos - 1, map)>>,
         SlotsFit(f, pos - 1, map)
  PROVE  /\ Ready(Gen!FrameSize(f)) /\ Gen!Data = f.inst_map[pos - 1]
         /\ Gen!Data.typ = "Int" \/ Gen!Data.typ = "Void"
<1> DEFINE n    == pos - 1
           inst == f.inst_map[n]
           o    == inst.operands
           c    == inst.opcode
           size == Gen!FrameSize(f)
<1>1. /\ n \in 0 .. f.next_inst_id - 1 /\ f.next_inst_id \in Nat /\ f.inst_list[pos] = n
      /\ inst \in InstData /\ Fits(f, n, inst)
  BY LegalFacts
<1>2. n \in 0 .. f.next_inst_id /\ n \in Nat /\ n + 1 \in 0 .. f.next_inst_id
  BY <1>1
<1>3. Gen!Id = n /\ Gen!Data = inst
  BY <1>1 DEF Gen!Id, Gen!Data
<1>4. /\ o \in Seq(Operand) /\ Len(o) = Builder!Arity(c)
      /\ inst.typ = (IF c \in ValueOps THEN "Int" ELSE "Void")
  BY <1>1 DEF InstData, Fits
<1>5. ASSUME NEW k \in 1 .. Len(o)
      PROVE  o[k] \in Operand
  BY <1>4, ElementOfSeq
<1>6. ASSUME NEW k \in 1 .. Len(o), Usable(f, n, o[k])
      PROVE  Readable(o[k], size)
  BY <1>2, <1>5, <1>6, UsableReadable
<1>7. ASSUME NEW k \in 1 .. Len(o), o[k].kind = "Pointer", AllocIn(f, n, o[k].val)
      PROVE  Placed(o[k], size)
  BY <1>2, <1>5, <1>7, AllocatedPlaced
<1>8. c \in ValueOps => Gen!VarOffset(frames) \in 0 .. size - 4
  <2> SUFFICES ASSUME c \in ValueOps PROVE Gen!VarOffset(frames) \in 0 .. size - 4
    OBVIOUS
  <2> DEFINE v == Cardinality(ValuesUpTo(f, n))
             w == Cardinality(ValuesUpTo(f, n + 1))
             t == Cardinality(ValuesOf(f))
  <2>1. Gen!VarOffset(frames) = 4 * v
    BY FrameFacts
  <2>2. w = v + 1
    BY <1>2, <1>4, NextValue
  <2>3. v \in Nat /\ w \in Nat /\ w <= t
    BY <1>1, <1>2, ValuesCounted, FrameHolds
  <2>4. t \in Nat /\ 4 * t <= size /\ size \in Nat
    BY FrameHolds
  <2> HIDE DEF v, w, t, size
  <2> QED BY <2>1, <2>2, <2>3, <2>4
<1>9. c \in Builder!Binary => Readable(o[1], size) /\ Readable(o[2], size)
  <2> SUFFICES ASSUME c \in Builder!Binary PROVE Readable(o[1], size) /\ Readable(o[2], size)
    OBVIOUS
  <2>1. Len(o) = 2
    BY <1>4 DEF Builder!Arity, Builder!Binary, Builder!ValueOps
  <2>2. Usable(f, n, o[1]) /\ Usable(f, n, o[2])
    BY <1>1, <2>1 DEF Fits
  <2> HIDE DEF o, size
  <2> QED BY <1>6, <2>1, <2>2
<1>10. c = "RET" => Readable(o[1], size)
  <2> SUFFICES ASSUME c = "RET" PROVE Readable(o[1], size)
    OBVIOUS
  <2>1. Len(o) = 1
    BY <1>4 DEF Builder!Arity, Builder!Binary, Builder!ValueOps
  <2>2. Usable(f, n, o[1])
    BY <1>1, <2>1 DEF Fits
  <2> HIDE DEF o, size
  <2> QED BY <1>6, <2>1, <2>2
<1>11. c = "LOAD" => o[1].kind = "Pointer" /\ Placed(o[1], size)
  <2> SUFFICES ASSUME c = "LOAD" PROVE o[1].kind = "Pointer" /\ Placed(o[1], size)
    OBVIOUS
  <2>1. Len(o) = 1
    BY <1>4 DEF Builder!Arity, Builder!Binary, Builder!ValueOps
  <2>2. o[1].kind = "Pointer" /\ AllocIn(f, n, o[1].val)
    BY <1>1 DEF Fits
  <2> HIDE DEF o, size
  <2> QED BY <1>7, <2>1, <2>2
<1>12. c = "STORE" => /\ Readable(o[1], size)
                      /\ o[2].kind = "Pointer" /\ Placed(o[2], size)
  <2> SUFFICES ASSUME c = "STORE"
               PROVE  Readable(o[1], size) /\ o[2].kind = "Pointer" /\ Placed(o[2], size)
    OBVIOUS
  <2>1. Len(o) = 2
    BY <1>4 DEF Builder!Arity, Builder!Binary, Builder!ValueOps
  <2>2. Usable(f, n, o[1]) /\ o[2].kind = "Pointer" /\ AllocIn(f, n, o[2].val)
    BY <1>1 DEF Fits
  <2> HIDE DEF o, size
  <2> QED BY <1>6, <1>7, <2>1, <2>2
<1>13. Ready(size)
  <2>1. Gen!Id \in Nat /\ Gen!Data.operands = o /\ Gen!Data.opcode = c /\ Gen!Data.typ = inst.typ
    BY <1>2, <1>3
  <2> HIDE DEF o, c, size, inst
  <2> QED BY <1>4, <1>8, <1>9, <1>10, <1>11, <1>12, <2>1 DEF Ready
<1> QED BY <1>3, <1>4, <1>13

LEMMA LowerKeeps ==
  ASSUME CompilerInv, FrontDone, printing = "idle", UNCHANGED textvars, Gen!Lower
  PROVE  CompilerInv'
<1> DEFINE f    == funcs[fn]
           size == Gen!FrameSize(f)
           n    == pos - 1
<1>1. status = "ok" /\ phase = "inst" /\ pos <= Len(Gen!Func.inst_list)
  BY DEF FrontDone, Gen!Lower, Gen!LowerEq, Gen!LowerLogic, Gen!LowerBinary, Gen!LowerAlloc,
         Gen!LowerLoad, Gen!LowerStore, Gen!LowerRet, Gen!Lowering
<1>2. /\ Inside /\ GoodBlocks /\ GoodText /\ regs = AllIdle /\ fn \in 1 .. Len(funcs)
      /\ Gen!Func = f /\ f \in FuncSet /\ LegalFunc(f)
      /\ Len(f.inst_list) = f.next_inst_id /\ f.next_inst_id \in Nat /\ Len(funcs) \in Nat
  BY <1>1, InsideFacts
<1>3. pos \in 1 .. f.next_inst_id /\ n \in Nat
  <2>1. pos \in 1 .. f.next_inst_id + 1
    BY <1>2 DEF Inside
  <2> QED BY <1>1, <1>2, <2>1
<1>4. PICK map : frames = <<Frame(f, n, map)>> /\ SlotsFit(f, n, map)
  BY <1>2 DEF Inside, Framed
<1>5. /\ Ready(size) /\ Gen!Data = f.inst_map[n]
      /\ Gen!Data.typ = "Int" \/ Gen!Data.typ = "Void"
  BY <1>2, <1>3, <1>4, LowerIsReady
<1>6. size \in Int /\ Gen!GetSize(frames) = size
  <2>1. size \in Nat
    BY <1>2, FrameHolds
  <2> QED BY <1>4, <2>1, FrameFacts
<1>7. Lowered(size)
  BY <1>5, <1>6, LowerLowers
<1>8. /\ regs' = AllIdle /\ phase' = "inst" /\ pos' = pos + 1 /\ UNCHANGED <<stack, funcs, fn>>
      /\ UNCHANGED <<printed, printing>>
  BY <1>7 DEF Lowered, textvars
<1>9. \E m : frames' = <<Frame(f, n + 1, m)>> /\ SlotsFit(f, n + 1, m)
  <2> DEFINE g == f.inst_map[n]
  <2>2. CASE g.typ = "Int"
    <3>1. frames' = Gen!AllocVar(frames, FromParseResult(g.ir_obj), "Int")
      BY <1>5, <1>7, <2>2 DEF Lowered
    <3> QED BY <1>2, <1>3, <1>4, <2>2, <3>1, AllocFramed
  <2>3. CASE g.typ # "Int"
    <3>1. frames' = frames
      BY <1>5, <1>7, <2>3 DEF Lowered
    <3>2. SlotsFit(f, n + 1, map) /\ Frame(f, n + 1, map) = Frame(f, n, map)
      BY <1>3, <1>4, <2>3, KeptFramed
    <3> QED BY <1>4, <3>1, <3>2
  <2> QED BY <2>2, <2>3
<1>10. GoodBlocks' /\ Len(blocks') = Len(blocks)
  <2>1. Len(blocks) = fn /\ fn # 0
    BY <1>2 DEF Inside
  <2>2. blocks # <<>>
    BY <2>1
  <2>3. PICK out \in Seq(GoodInsts(size)) :
          /\ blocks' = [blocks EXCEPT ![Len(blocks)] = @ \o out]
          /\ MovesBack(out, size)
    BY <1>7 DEF Lowered
  <2>4. size = Gen!FrameSize(funcs[Len(blocks)])
    BY <2>1
  <2> HIDE DEF size
  <2> QED BY <1>2, <1>8, <2>2, <2>3, <2>4, BlockGrown
<1>11. Inside'
  <2>1. pos' \in 1 .. f.next_inst_id + 1 /\ pos' - 1 = n + 1 /\ funcs'[fn'] = f
    BY <1>2, <1>3, <1>8
  <2>2. Framed(funcs[fn], pos - 1)'
    <3> HIDE DEF f, n
    <3> QED BY <1>9, <2>1 DEF Framed
  <2>3. /\ printing = "idle" /\ Len(blocks) = fn /\ stack = Entered(fn)
    BY <1>2 DEF Inside
  <2> QED BY <1>2, <1>8, <1>10, <2>1, <2>2, <2>3 DEF Inside
<1>12. GoodText'
  BY <1>2, <1>8, SameGood
<1>13. fn' \in 1 .. Len(funcs) + 1
  BY <1>2, <1>8
<1> QED BY <1>8, <1>10, <1>11, <1>12, <1>13, LaterStep

LEMMA EndAsmBlockKeeps ==
  ASSUME CompilerInv, FrontDone, printing = "idle", UNCHANGED textvars, Gen!EndAsmBlock
  PROVE  CompilerInv'
<1>1. status = "ok" /\ phase = "inst"
  BY DEF FrontDone, Gen!EndAsmBlock
<1>2. /\ Inside /\ GoodBlocks /\ GoodText /\ regs = AllIdle /\ fn \in 1 .. Len(funcs)
      /\ Len(funcs) \in Nat
  BY <1>1, InsideFacts
<1>3. stack' = <<>>
  BY <1>2, SameStackNames, EnteredFacts DEF Inside, Gen!EndAsmBlock
<1>4. frames' = <<>>
  <2>1. PICK map : frames = <<Frame(funcs[fn], pos - 1, map)>>
    BY <1>2 DEF Inside, Framed
  <2> DEFINE fr == Frame(funcs[fn], pos - 1, map)
             s  == <<fr>>
  <2> HIDE DEF fr
  <2>2. s \in Seq({fr}) /\ Len(s) = 1 /\ s # <<>>
    OBVIOUS
  <2> HIDE DEF s
  <2>3. Front(s) = <<>>
    <3>1. Front(s) \in Seq({fr}) /\ Len(Front(s)) = 0
      BY <2>2, LastAndFront
    <3> QED BY <3>1, EmptySeq
  <2>4. frames = s /\ Gen!Front(s) = Front(s)
    BY <2>1 DEF fr, s, Gen!Front, Front
  <2> QED BY <2>2, <2>3, <2>4 DEF Gen!EndAsmBlock, Gen!Epilogue
<1>5. /\ regs' = AllIdle /\ phase' = "func" /\ fn' = fn + 1 /\ UNCHANGED <<funcs, blocks>>
      /\ UNCHANGED <<printed, printing>>
  BY <1>2 DEF Gen!EndAsmBlock, textvars
<1>6. Outside' /\ fn' \in 1 .. Len(funcs) + 1
  <2>1. Len(blocks) = fn
    BY <1>2 DEF Inside
  <2> QED BY <1>2, <1>3, <1>4, <1>5, <2>1 DEF Outside
<1> QED BY <1>2, <1>5, <1>6, SameGood, LaterStep

\* Nothing of the back end's state but its phase changes.
LEMMA OutsideKeeps ==
  ASSUME CompilerInv, FrontDone, phase \in {"func", "done"}, phase' \in {"func", "done"},
         stack' = <<>>, UNCHANGED <<funcs, regs, frames, blocks, fn>>, GoodText'
  PROVE  CompilerInv'
<1>1. status = "ok" /\ Outside /\ GoodBlocks /\ regs = AllIdle /\ fn \in 1 .. Len(funcs) + 1
  BY DEF FrontDone, CompilerInv, Inside
<1>2. Outside'
  BY <1>1 DEF Outside
<1>3. GoodBlocks'
  BY <1>1, SameGood
<1> QED BY <1>1, <1>2, <1>3, LaterStep

LEMMA OutsideFacts ==
  ASSUME CompilerInv, status = "ok", phase \in {"func", "done"}
  PROVE  /\ stack = <<>> /\ GoodText /\ funcs \in Seq(FuncSet) /\ Len(funcs) \in Nat
<1>1. Outside /\ GoodText /\ funcs \in Seq(FuncSet)
  BY DEF CompilerInv, Inside
<1> QED BY <1>1, LenProperties DEF Outside

LEMMA FinishAsmKeeps ==
  ASSUME CompilerInv, FrontDone, UNCHANGED textvars, Gen!FinishAsm
  PROVE  CompilerInv'
<1>1. status = "ok" /\ phase = "func" /\ phase' = "done" /\ UNCHANGED <<printed, printing>>
      /\ UNCHANGED <<stack, funcs, regs, frames, blocks, fn>>
  BY DEF FrontDone, Gen!FinishAsm, textvars
<1>2. stack = <<>> /\ GoodText
  BY <1>1, OutsideFacts
<1> QED BY <1>1, <1>2, SameGood, OutsideKeeps

-----------------------------------------------------------------------------
(* The steps of printing.                                                  *)

LEMMA StartKeeps ==
  ASSUME CompilerInv, FrontDone, phase \in {"func", "done"},
         UNCHANGED <<regs, frames, blocks, fn, pos, phase>>,
         Printer!StartPrinting \/ Printer!FinishPrinting
  PROVE  CompilerInv'
<1>1. status = "ok" /\ printing' \in {"func", "done"} /\ UNCHANGED <<stack, funcs, printed>>
  BY DEF FrontDone, Printer!StartPrinting, Printer!FinishPrinting
<1>2. stack = <<>> /\ GoodText
  BY <1>1, OutsideFacts
<1>3. GoodText'
  BY <1>1, <1>2 DEF GoodText
<1> QED BY <1>1, <1>2, <1>3, OutsideKeeps

LEMMA PrintFuncKeeps ==
  ASSUME CompilerInv, FrontDone, phase \in {"func", "done"},
         UNCHANGED <<regs, frames, blocks, fn, pos, phase>>, Printer!PrintFunc
  PROVE  CompilerInv'
<1> DEFINE k       == Len(printed) + 1
           entered == Printer!EnterBlockScope(Printer!EnterFuncScope(stack, k))
           dfg     == funcs[Printer!Last(entered).func].inst_map
           f       == funcs[k]
           list    == f.inst_list
           total   == \A p \in DOMAIN list : Printer!Printable(dfg, list[p])
           text    == [p \in DOMAIN list |-> Printer!Line(list[p], dfg[list[p]])]
<1>1. /\ printing = "func" /\ k <= Len(funcs)
      /\ stack'    = IF total THEN Printer!ExitScope(Printer!ExitScope(entered)) ELSE entered
      /\ printed'  = IF total THEN Append(printed, text) ELSE printed
      /\ printing' = IF total THEN "func" ELSE "panic"
      /\ UNCHANGED funcs
  BY DEF Printer!PrintFunc
<1>2. status = "ok" /\ stack = <<>> /\ GoodText /\ funcs \in Seq(FuncSet) /\ Len(funcs) \in Nat
  BY OutsideFacts DEF FrontDone
<1>3. k \in 1 .. Len(funcs) /\ Len(printed) \in Nat
      /\ printed \in Seq({Text(g) : g \in FuncSet})
  <2>1. Len(printed) \in Nat
    BY <1>2, LenProperties DEF GoodText
  <2> QED BY <1>1, <1>2, <2>1 DEF GoodText
<1>4. f \in FuncSet /\ LegalFunc(f)
  BY <1>2, <1>3, FuncLegal
<1>5. entered = Entered(k) /\ dfg = f.inst_map
  <2>1. entered = Entered(k)
    BY <1>2, SameStackNames DEF Entered
  <2>2. Printer!Last(entered).func = k
    <3> HIDE DEF entered
    <3> QED BY <2>1, SameStackNames, EnteredFacts
  <2> QED BY <2>1, <2>2
<1>6. /\ f.next_inst_id \in Nat /\ DOMAIN f.inst_map = 0 .. f.next_inst_id - 1
      /\ DOMAIN list = 1 .. f.next_inst_id
      /\ \A p \in 1 .. f.next_inst_id : list[p] = p - 1 /\ Fits(f, p - 1, f.inst_map[p - 1])
                                        /\ f.inst_map[p - 1] \in InstData
  BY <1>4, LegalFacts
<1> HIDE DEF dfg, f, k, entered
<1>7. total
  <2> SUFFICES ASSUME NEW p \in DOMAIN list PROVE Printer!Printable(dfg, list[p])
    OBVIOUS
  <2>1. list[p] = p - 1 /\ p \in 1 .. f.next_inst_id /\ p - 1 \in DOMAIN f.inst_map
    BY <1>6
  <2>2. Fits(f, p - 1, f.inst_map[p - 1])
    BY <1>6, <2>1
  <2>3. f.inst_map[p - 1].opcode = "RET" => Len(f.inst_map[p - 1].operands) = 1
    BY <2>2 DEF Fits, Builder!Arity, Builder!Binary, Builder!ValueOps
  <2>4. f.inst_map[p - 1].opcode = "RET" => f.inst_map[p - 1].operands # <<>>
    <3> DEFINE o == f.inst_map[p - 1].operands
    <3> HIDE DEF o
    <3>1. Len(o) = 1 => o # <<>>
      <4>1. Len(<<>>) = 0
        OBVIOUS
      <4> QED BY <4>1
    <3>2. f.inst_map[p - 1].opcode = "RET" => o # <<>>
      BY <2>3, <3>1 DEF o
    <3> QED BY <3>2 DEF o
  <2> QED BY <1>5, <2>1, <2>4 DEF Printer!Printable
<1>8. text = Text(f)
  <2>1. text = [p \in 1 .. f.next_inst_id |-> Printer!Line(p - 1, f.inst_map[p - 1])]
    <3>1. DOMAIN list = 1 .. f.next_inst_id /\ \A p \in 1 .. f.next_inst_id : list[p] = p - 1
      BY <1>6
    <3> QED BY <1>5, <3>1
  <2> QED BY <2>1 DEF Text
<1> HIDE DEF text, total
<1>9. stack' = <<>> /\ printed' = Append(printed, Text(f)) /\ printing' = "func"
  BY <1>1, <1>5, <1>7, <1>8, SameStackNames, EnteredFacts
<1>10. GoodText'
  <2> DEFINE T == {Text(g) : g \in FuncSet}
  <2>1. Text(f) \in T
    BY <1>4
  <2>2. printed \in Seq(T)
    BY <1>3
  <2> HIDE DEF T
  <2>3. /\ printed' \in Seq(T) /\ Len(printed') = k
        /\ \A g \in 1 .. Len(printed) : printed'[g] = printed[g]
        /\ printed'[k] = Text(f)
    BY <1>9, <2>1, <2>2, AppendProperties DEF k
  <2>4. \A g \in 1 .. k : printed'[g] = Text(funcs[g])
    <3> TAKE g \in 1 .. k
    <3>1. CASE g = k
      BY <2>3, <3>1 DEF f
    <3>2. CASE g # k
      <4>1. g \in 1 .. Len(printed)
        BY <1>3, <3>2 DEF k
      <4> QED BY <1>2, <2>3, <4>1 DEF GoodText
    <3> QED BY <3>1, <3>2
  <2>5. k <= Len(funcs)
    BY <1>1
  <2> QED BY <1>1, <1>9, <2>3, <2>4, <2>5 DEF GoodText, T
<1> QED BY <1>1, <1>9, <1>10, OutsideKeeps

-----------------------------------------------------------------------------
(* The compiler as a whole.                                                *)

LEMMA InitCompilerInv == CompilerInit => CompilerInv
<1> SUFFICES ASSUME CompilerInit PROVE CompilerInv
  OBVIOUS
<1>1. Inv /\ CodeInv /\ status = "run"
  <2>1. Init
    BY DEF CompilerInit, SimInit
  <2> QED BY <2>1, InitInv, CodeInit DEF Init
<1>2. Fresh
  BY SameNames DEF CompilerInit, Gen!GenInit, Printer!PrinterInit, Fresh
<1> QED BY <1>1, <1>2 DEF CompilerInv

LEMMA StutterKeeps == ASSUME CompilerInv, UNCHANGED allvars PROVE CompilerInv'
<1>1. /\ UNCHANGED <<stack, nextPtr, funcs, open, stmt, vals, status, items, nodes, src>>
      /\ UNCHANGED <<regs, frames, blocks, fn, pos, phase, printed, printing>>
  BY DEF allvars, simvars, vars, backvars, textvars
<1>2. CASE status = "ok"
  <2>1. FrontDone
    BY <1>1, <1>2 DEF FrontDone
  <2>2. /\ Outside \/ Inside
        /\ GoodBlocks /\ GoodText /\ regs = AllIdle /\ fn \in 1 .. Len(funcs) + 1
    BY <1>2 DEF CompilerInv
  <2>3. Outside' \/ Inside'
    BY <1>1, <2>2 DEF Outside, Inside, Framed
  <2> QED BY <1>1, <2>1, <2>2, <2>3, SameGood, LaterStep
<1>3. CASE status # "ok"
  <2>1. Inv /\ CodeInv /\ Fresh /\ [Next]_vars
    BY <1>1, <1>3 DEF CompilerInv, vars
  <2>2. Inv' /\ CodeInv'
    BY <2>1, InvStep, CodeStep
  <2>3. Fresh' /\ status' # "ok"
    BY <1>1, <1>3, <2>1 DEF Fresh
  <2> QED BY <2>2, <2>3 DEF CompilerInv
<1> QED BY <1>2, <1>3

LEMMA CompilerStep == CompilerInv /\ [CompilerNext]_allvars => CompilerInv'
<1> SUFFICES ASSUME CompilerInv, [CompilerNext]_allvars PROVE CompilerInv'
  OBVIOUS
<1>1. CASE FrontEnd
  BY <1>1, FinishHandsOver
<1>2. CASE BackEnd
  <2>1. /\ FrontDone /\ printing = "idle" /\ UNCHANGED textvars
        /\ Gen!BeginAsmBlock \/ Gen!EndAsmBlock \/ Gen!FinishAsm \/ Gen!Lower
    BY <1>2 DEF BackEnd
  <2> QED BY <2>1, BeginAsmBlockKeeps, EndAsmBlockKeeps, FinishAsmKeeps, LowerKeeps
<1>3. CASE Printing
  <2>1. /\ FrontDone /\ phase \in {"func", "done"}
        /\ UNCHANGED <<regs, frames, blocks, fn, pos, phase>>
        /\ Printer!StartPrinting \/ Printer!FinishPrinting \/ Printer!PrintFunc
    BY <1>3 DEF Printing, Printer!PrinterNext
  <2> QED BY <2>1, StartKeeps, PrintFuncKeeps
<1>4. CASE UNCHANGED allvars
  BY <1>4, StutterKeeps
<1> QED BY <1>1, <1>2, <1>3, <1>4 DEF CompilerNext

\* Whatever the program and however long, the invariant holds from the first
\* function's parsing to the last one's text (main).
THEOREM CompilerInvIsInvariant == CompilerSpec => []CompilerInv
<1> QED BY InitCompilerInv, CompilerStep, PTL DEF CompilerSpec

\* The registers a lowering took are free again when the next one starts
\* (the free_temp calls of AsmInst::from).
THEOREM RegistersComeBack == CompilerSpec => []NoRegisterLeak
<1>1. CompilerInv => NoRegisterLeak
  BY DEF CompilerInv, Fresh, NoRegisterLeak, AllIdle
<1> QED BY <1>1, CompilerInvIsInvariant, PTL

\* No unwrap, unimplemented! or unreachable! of the back end or of printing is
\* reached, for any program the front end accepts (process_op, get_named_var,
\* IRBlock's Display).
THEOREM PassesNeverPanic == CompilerSpec => []BackEndTotal
<1>1. CompilerInv => BackEndTotal
  BY DEF CompilerInv, Fresh, Outside, Inside, GoodText, BackEndTotal
<1> QED BY <1>1, CompilerInvIsInvariant, PTL

\* Each pass finds the context stack empty, and is one context deep within a
\* function (Asm::from, FuncDef::parse, StackFrameManager::is_callee).
THEOREM ContextHandedOver == CompilerSpec => []PassesShareContext
<1>1. CompilerInv => PassesShareContext
  <2> SUFFICES ASSUME CompilerInv, status = "ok"
               PROVE  /\ Len(stack) = (IF phase = "inst" THEN 1 ELSE 0)
                      /\ Len(frames) = Len(stack)
                      /\ phase = "inst" => Last(stack).func = fn
    BY DEF PassesShareContext
  <2>1. CASE Outside
    BY <2>1 DEF Outside
  <2>2. CASE Inside
    <3>1. PICK map : frames = <<Frame(funcs[fn], pos - 1, map)>>
      BY <2>2 DEF Inside, Framed
    <3>2. Len(frames) = 1
      BY <3>1, FrameFacts
    <3> QED BY <2>2, <3>2, EnteredFacts DEF Inside
  <2> QED BY <2>1, <2>2 DEF CompilerInv
<1> QED BY <1>1, CompilerInvIsInvariant, PTL

\* The slots of a function are words of its frame, each a value's own, and the
\* frame is as large as they need (StackFrameManager::prologue, alloc_var).
THEOREM FramesHoldValues == CompilerSpec => []FrameLayout
<1>1. CompilerInv => FrameLayout
  <2> SUFFICES ASSUME CompilerInv, phase = "inst"
               PROVE  /\ Last(frames).size % 16 = 0
                      /\ \A n \in DOMAIN Slots : Slots[n] % 4 = 0
                                                 /\ Slots[n] + 4 <= Last(frames).size
                      /\ \A m, n \in DOMAIN Slots : m # n => Slots[m] # Slots[n]
    BY DEF FrameLayout
  <2> DEFINE f == funcs[fn]
             n == pos - 1
             v == Cardinality(ValuesUpTo(f, n))
             t == Cardinality(ValuesOf(f))
             size == Gen!FrameSize(f)
  <2>1. status = "ok"
    BY DEF CompilerInv, Fresh
  <2>2. /\ Inside /\ f \in FuncSet /\ f.next_inst_id \in Nat
    BY <2>1, InsideFacts
  <2>3. PICK map : frames = <<Frame(f, n, map)>> /\ SlotsFit(f, n, map)
    BY <2>2 DEF Inside, Framed
  <2>4. Last(frames).size = size /\ Slots = map
    <3>1. Last(frames) = Frame(f, n, map)
      BY <2>3, FrameFacts
    <3> QED BY <3>1 DEF Slots, Frame
  <2>5. n \in 0 .. f.next_inst_id
    BY <2>2 DEF Inside
  <2>6. v \in Nat /\ v <= t
    BY <2>2, <2>5, ValuesCounted, FrameHolds
  <2>7. t \in Nat /\ 4 * t <= size /\ size \in Nat /\ size % 16 = 0
    BY <2>2, FrameHolds
  <2>8. \A m \in DOMAIN map : \E c \in 0 .. v - 1 : map[m] = 4 * c
    BY <2>3 DEF SlotsFit
  <2>9. \A l, m \in DOMAIN map : map[l] = map[m] => l = m
    BY <2>3 DEF SlotsFit
  <2> HIDE DEF v, t, size, f, n
  <2>10. ASSUME NEW m \in DOMAIN map
         PROVE  map[m] % 4 = 0 /\ map[m] + 4 <= size
    <3>1. PICK c \in 0 .. v - 1 : map[m] = 4 * c
      BY <2>8
    <3>2. c \in Nat /\ 4 * c + 4 <= size
      BY <2>6, <2>7, <3>1
    <3>3. (4 * c) % 4 = 0
      BY <3>2
    <3> QED BY <3>1, <3>2, <3>3
  <2> QED BY <2>4, <2>7, <2>9, <2>10
<1> QED BY <1>1, CompilerInvIsInvariant, PTL

\* The blocks of any state are good ones.
LEMMA BlocksGood ==
  ASSUME CompilerInv, NEW b \in DOMAIN blocks
  PROVE  LET size == Gen!FrameSize(funcs[b])
         IN /\ b \in 1 .. Len(blocks) /\ status = "ok"
            /\ blocks[b] \in Seq(GoodInsts(size)) /\ MovesBack(blocks[b], size)
            /\ \A k \in DOMAIN blocks[b] : blocks[b][k] \in GoodInsts(size)
<1>1. status = "ok"
  <2>1. DOMAIN <<>> = {}
    OBVIOUS
  <2> QED BY <2>1 DEF CompilerInv, Fresh
<1>2. GoodBlocks /\ b \in 1 .. Len(blocks)
  BY <1>1, LenProperties DEF CompilerInv, GoodBlocks
<1> DEFINE S == GoodInsts(Gen!FrameSize(funcs[b]))
           s == blocks[b]
<1>3. s \in Seq(S) /\ MovesBack(s, Gen!FrameSize(funcs[b]))
  BY <1>2 DEF GoodBlocks
<1> HIDE DEF S, s
<1>4. \A k \in DOMAIN s : s[k] \in S
  BY <1>3, LenProperties, ElementOfSeq
<1> QED BY <1>1, <1>2, <1>3, <1>4 DEF S, s

\* Every line is one the assembler accepts (AsmInst::from, AsmInst's Display).
THEOREM LinesAreWellFormed == CompilerSpec => []AsmWellFormed
<1>1. CompilerInv => AsmWellFormed
  BY BlocksGood DEF AsmWellFormed, GoodInsts
<1> QED BY <1>1, CompilerInvIsInvariant, PTL

-----------------------------------------------------------------------------
(* Immediates.                                                             *)

\* The words of a line are fields of its instruction.
LEMMA WordsAreFields ==
  ASSUME NEW inst \in Insts, NEW w \in Range(Gen!AsmWords(inst))
  PROVE  w \in {inst.rd, inst.rs1, inst.rs2, inst.imm}
<1> DEFINE S == {inst.rd, inst.rs1, inst.rs2, inst.imm}
<1>1. ASSUME NEW a \in S
      PROVE  Gen!Field(a) \in Seq(S)
  <2> HIDE DEF S
  <2>1. <<>> \in Seq(S) /\ <<a>> \in Seq(S)
    OBVIOUS
  <2>2. Gen!Field(a) = <<>> \/ Gen!Field(a) = <<a>>
    BY DEF Gen!Field
  <2> QED BY <2>1, <2>2
<1>2. inst.rd \in S /\ inst.rs1 \in S /\ inst.rs2 \in S /\ inst.imm \in S
  OBVIOUS
<1>3. Gen!AsmWords(inst) \in Seq(S)
  <2>1. CASE inst.opcode = "LW"
    <3>1. Gen!AsmWords(inst) = <<inst.rs1, inst.rd>>
      BY <2>1 DEF Gen!AsmWords
    <3> QED BY <1>2, <3>1
  <2>2. CASE inst.opcode = "SW"
    <3>1. Gen!AsmWords(inst) = <<inst.rs2, inst.rs1>>
      BY <2>2 DEF Gen!AsmWords
    <3> QED BY <1>2, <3>1
  <2>3. CASE inst.opcode \notin {"LW", "SW"}
    <3> DEFINE p == Gen!Field(inst.rd)
               q == Gen!Field(inst.rs1)
               r == Gen!Field(inst.rs2)
               t == Gen!Field(inst.imm)
    <3>1. p \in Seq(S) /\ q \in Seq(S) /\ r \in Seq(S) /\ t \in Seq(S)
      BY <1>1, <1>2
    <3>2. Gen!AsmWords(inst) = p \o q \o r \o t
      BY <2>3 DEF Gen!AsmWords
    <3> HIDE DEF p, q, r, t, S
    <3>3. p \o q \in Seq(S)
      BY <3>1, ConcatProperties
    <3>4. p \o q \o r \in Seq(S)
      BY <3>1, <3>3, ConcatProperties
    <3>5. p \o q \o r \o t \in Seq(S)
      BY <3>1, <3>4, ConcatProperties
    <3> QED BY <3>2, <3>5
  <2> QED BY <2>1, <2>2, <2>3
<1> DEFINE s == Gen!AsmWords(inst)
<1> HIDE DEF S, s
<1>4. w \in S
  <2>1. s \in Seq(S) /\ w \in Range(s)
    BY <1>3 DEF s
  <2>2. PICK k \in DOMAIN s : w = s[k]
    BY <2>1 DEF Range
  <2> QED BY <2>1, <2>2, LenProperties, ElementOfSeq
<1> QED BY <1>4 DEF S

\* The two mnemonics that stand for sp's moves and for the return.
LEMMA MnemonicTells ==
  ASSUME NEW inst \in Insts
  PROVE  /\ Gen!AsmLine(inst).mnemonic = "addi" <=> inst.opcode = "ADDI"
         /\ Gen!AsmLine(inst).mnemonic = "ret" <=> inst.opcode = "RET"
         /\ Gen!AsmLine(inst).words = Gen!AsmWords(inst)
<1>1. inst.opcode \in RVOpCodes
  BY DEF Insts
<1>2. Gen!AsmLine(inst).mnemonic = Gen!Mnemonic[inst.opcode]
      /\ Gen!AsmLine(inst).words = Gen!AsmWords(inst)
  BY DEF Gen!AsmLine
<1>3. /\ Gen!Mnemonic[inst.opcode] = "addi" <=> inst.opcode = "ADDI"
      /\ Gen!Mnemonic[inst.opcode] = "ret" <=> inst.opcode = "RET"
  BY <1>1 DEF Gen!Mnemonic, RVOpCodes, Operations
<1> QED BY <1>2, <1>3

\* What a frame's size is, for values that fit and for values that do not.
LEMMA SizeFits ==
  ASSUME NEW values \in Nat, NEW size \in Nat, size % 16 = 0, 4 * values <= size,
         size < 4 * values + 16
  PROVE  /\ 4 * values <= 16 * (MaxImm \div 16) => size <= MaxImm
         /\ ~(4 * values <= 16 * (MaxImm \div 16)) => size > MaxImm
<1> DEFINE q == MaxImm \div 16
           s == size \div 16
<1>1. q \in Nat /\ 16 * q <= MaxImm /\ MaxImm < 16 * q + 16 /\ MaxImm \in Nat
  BY MaxImmAssumption
<1>2. s \in Nat /\ size = 16 * s
  OBVIOUS
<1> HIDE DEF q, s
<1> QED BY <1>1, <1>2 DEF q

\* The assembler takes a function's text exactly if the frame's size fits an
\* immediate (AsmBlock::prologue, the epilogue of RET).
THEOREM ImmediatesDecided == CompilerSpec => []ImmediatesFit
<1>1. CompilerInv => ImmediatesFit
  <2> SUFFICES ASSUME CompilerInv,
                      NEW b \in 1 .. Len(blocks) - (IF phase = "inst" THEN 1 ELSE 0)
               PROVE  LET lines == [k \in DOMAIN blocks[b] |-> Gen!AsmLine(blocks[b][k])]
                          small == 4 * Cardinality(ValuesOf(funcs[b])) <= 16 * (MaxImm \div 16)
                          fits  == \A n \in Immediates(lines) : n \in -MaxImm - 1 .. MaxImm
                      IN /\ small => fits
                         /\ ~small /\ (\E line \in Range(lines) : line.mnemonic = "ret")
                              => ~fits
    BY DEF ImmediatesFit
  <2> DEFINE block == blocks[b]
             f     == funcs[b]
             size  == Gen!FrameSize(f)
             t     == Cardinality(ValuesOf(f))
             lines == [k \in DOMAIN block |-> Gen!AsmLine(block[k])]
             small == 4 * t <= 16 * (MaxImm \div 16)
             fits  == \A n \in Immediates(lines) : n \in -MaxImm - 1 .. MaxImm
  <2>1. b \in DOMAIN blocks
    <3>1. CASE status = "ok"
      <4>1. Len(blocks) \in Nat /\ DOMAIN blocks = 1 .. Len(blocks)
        BY <3>1, LenProperties DEF CompilerInv, GoodBlocks
      <4> QED BY <4>1
    <3>2. CASE status # "ok"
      <4>1. blocks = <<>>
        BY <3>2 DEF CompilerInv, Fresh
      <4>2. Len(blocks) = 0
        BY <4>1
      <4> QED BY <4>2
    <3> QED BY <3>1, <3>2
  <2>2. /\ b \in 1 .. Len(blocks) /\ status = "ok" /\ MovesBack(block, size)
        /\ \A k \in DOMAIN block : block[k] \in GoodInsts(size)
    BY <2>1, BlocksGood
  <2>3. f \in FuncSet
    <3>1. b \in 1 .. Len(funcs)
      <4>1. Len(blocks) <= Len(funcs) /\ Len(funcs) \in Nat /\ Len(blocks) \in Nat
        <5>1. /\ Outside \/ Inside
              /\ fn \in 1 .. Len(funcs) + 1 /\ funcs \in Seq(FuncSet) /\ GoodBlocks
          BY <2>2 DEF CompilerInv
        <5>2. Len(funcs) \in Nat /\ Len(blocks) \in Nat
          BY <5>1, LenProperties DEF GoodBlocks
        <5>3. Len(blocks) = fn - 1 \/ (Len(blocks) = fn /\ fn \in 1 .. Len(funcs))
          BY <5>1 DEF Outside, Inside
        <5> QED BY <5>1, <5>2, <5>3
      <4> QED BY <2>2, <4>1
    <3> QED BY <2>2, <3>1, FuncLegal
  <2>4. /\ t \in Nat /\ size \in Nat
        /\ small => size <= MaxImm
        /\ ~small => size > MaxImm
    <3>1. /\ t \in Nat /\ size \in Nat /\ size % 16 = 0 /\ 4 * t <= size /\ size < 4 * t + 16
      BY <2>3, FrameHolds
    <3> HIDE DEF t, size
    <3> QED BY <3>1, SizeFits
  <2> HIDE DEF size, t, small
  <2>5. ASSUME NEW k \in DOMAIN block
        PROVE  /\ block[k] \in Insts /\ block[k] \in GoodInsts(size)
               /\ lines[k] = Gen!AsmLine(block[k]) /\ k \in DOMAIN lines
    BY <2>2 DEF GoodInsts
  <2>6. \A line \in Range(lines) : \E k \in DOMAIN block : line = Gen!AsmLine(block[k])
    BY DEF Range
  <2>7. ASSUME NEW line \in Range(lines), line.mnemonic = "addi"
        PROVE  line.words[3].offset \in {size, -size}
    <3>1. PICK k \in DOMAIN block : line = Gen!AsmLine(block[k])
      BY <2>6
    <3>2. block[k].opcode = "ADDI"
      BY <2>5, <2>7, <3>1, MnemonicTells
    <3>3. PICK n \in {size, -size} : block[k] = Gen!AdjustSp(n)
      BY <2>5, <3>2 DEF GoodInsts
    <3>4. size \in Int /\ n \in Int
      BY <2>4
    <3>5. line.words[3] = Imm(n)
      BY <3>1, <3>3, <3>4, GoodAddi
    <3>6. Imm(n).offset = n
      BY DEF Imm
    <3> QED BY <3>3, <3>5, <3>6
  <2>8. ASSUME NEW line \in Range(lines), NEW w \in Range(line.words), w.kind = "Mem"
        PROVE  w.offset \in 0 .. size - 4
    <3>1. PICK k \in DOMAIN block : line = Gen!AsmLine(block[k])
      BY <2>6
    <3>2. w \in {block[k].rd, block[k].rs1, block[k].rs2, block[k].imm}
      BY <2>5, <3>1, MnemonicTells, WordsAreFields
    <3>3. Within(w, size)
      BY <2>5, <3>2 DEF GoodInsts
    <3> QED BY <2>8, <3>3 DEF Within
  <2>9. ASSUME NEW n \in Immediates(lines)
        PROVE  n \in 0 .. size - 4 \/ n \in {size, -size}
    <3> HIDE DEF lines
    <3>1. CASE \E line \in Range(lines) : \E w \in Range(line.words) :
                 w.kind = "Mem" /\ n = w.offset
      BY <2>8, <3>1
    <3>2. CASE \E line \in Range(lines) : line.mnemonic = "addi" /\ n = line.words[3].offset
      BY <2>7, <3>2
    <3> QED BY <3>1, <3>2 DEF Immediates
  <2>10. small => fits
    <3> SUFFICES ASSUME small, NEW n \in Immediates(lines) PROVE n \in -MaxImm - 1 .. MaxImm
      OBVIOUS
    <3>1. size \in Nat /\ size <= MaxImm /\ MaxImm \in Nat
      BY <2>4, MaxImmAssumption
    <3>2. n \in 0 .. size - 4 \/ n \in {size, -size}
      BY <2>9
    <3> HIDE DEF lines
    <3> QED BY <3>1, <3>2
  <2>11. ASSUME ~small, NEW line \in Range(lines), line.mnemonic = "ret"
         PROVE  ~fits
    <3>1. PICK k \in DOMAIN block : line = Gen!AsmLine(block[k])
      BY <2>6
    <3>2. block[k].opcode = "RET"
      BY <2>5, <2>11, <3>1, MnemonicTells
    <3>3. PICK j \in DOMAIN block : block[j] = Gen!AdjustSp(size)
      BY <2>2, <3>2 DEF MovesBack
    <3> DEFINE back == Gen!AsmLine(block[j])
    <3>4. back \in Range(lines)
      BY <2>5 DEF Range
    <3>5. back.words[3] = Imm(size) /\ back.mnemonic = "addi"
      <4>1. size \in Int
        BY <2>4
      <4>2. block[j] = Gen!AsmInst("ADDI", Temp(SP), Temp(SP), Absent, Imm(size))
            /\ back.words[3] = Imm(size)
        BY <3>3, <4>1, GoodAddi
      <4>3. block[j].opcode = "ADDI"
        BY <4>2 DEF Gen!AsmInst
      <4> QED BY <2>5, <4>2, <4>3, MnemonicTells
    <3>6. Imm(size).offset = size
      BY DEF Imm
    <3> HIDE DEF back, lines
    <3>7. size \in Immediates(lines)
      BY <3>4, <3>5, <3>6 DEF Immediates
    <3>8. size \in Nat /\ size > MaxImm /\ MaxImm \in Nat
      BY <2>4, <2>11, MaxImmAssumption
    <3>9. size \notin -MaxImm - 1 .. MaxImm
      BY <3>8
    <3> QED BY <3>7, <3>9
  <2> HIDE DEF fits
  <2>12. small => fits
    BY <2>10
  <2>13. ~small /\ (\E line \in Range(lines) : line.mnemonic = "ret") => ~fits
    BY <2>11
  <2> QED BY <2>12, <2>13 DEF fits, small, t
<1> QED BY <1>1, CompilerInvIsInvariant, PTL

-----------------------------------------------------------------------------
(* The Koopa text.                                                         *)

\* What stands left of "=" in line k of f.
LEMMA LeftSide ==
  ASSUME NEW f \in FuncSet, LegalFunc(f), NEW k \in 1 .. f.next_inst_id
  PROVE  LET inst == f.inst_map[k - 1]
             lhs  == Text(f)[k].lhs
         IN /\ k - 1 \in 0 .. f.next_inst_id - 1 /\ f.next_inst_id \in Nat
            /\ Text(f)[k].words = (IF inst.opcode = "RET" THEN <<Printer!Words(inst)[1]>>
                                   ELSE Printer!Words(inst))
            /\ inst.opcode \in ValueOps \ {"ALLOC"} => lhs = Printer!Word("%", k - 1)
            /\ inst.opcode = "ALLOC" => lhs = Printer!Word("@", inst.ir_obj.val)
            /\ inst.opcode \in {"STORE", "RET"} => lhs = Printer!NoWord
            /\ inst.opcode \in KoopaOpCode
<1> DEFINE inst == f.inst_map[k - 1]
           c    == inst.opcode
<1>1. Fits(f, k - 1, inst) /\ k - 1 \in 0 .. f.next_inst_id - 1 /\ f.next_inst_id \in Nat
  BY LegalFacts
<1>2. Text(f)[k] = Printer!Line(k - 1, inst)
  BY DEF Text
<1>3. /\ Text(f)[k].lhs = Printer!ResultWord(k - 1, inst)
      /\ Text(f)[k].words = (IF c = "RET" THEN <<Printer!Words(inst)[1]>>
                             ELSE Printer!Words(inst))
  <2> HIDE DEF inst
  <2> QED BY <1>2 DEF Printer!Line
<1>4. c \in KoopaOpCode
  BY <1>1 DEF Fits
<1>5. ASSUME c \in ValueOps \ {"ALLOC"}
      PROVE  Printer!ResultWord(k - 1, inst) = Printer!Word("%", k - 1)
  <2>1. inst.ir_obj = InstIdObj(k - 1)
    BY <1>1, <1>5 DEF Fits, ValueOps, Builder!Binary, Builder!ValueOps
  <2>2. inst.ir_obj.kind = "InstId" /\ c # "RET"
    BY <1>5, <2>1 DEF InstIdObj, Obj, ValueOps
  <2> HIDE DEF inst
  <2> QED BY <2>2 DEF Printer!ResultWord, c
<1>6. ASSUME c = "ALLOC"
      PROVE  Printer!ResultWord(k - 1, inst) = Printer!Word("@", inst.ir_obj.val)
  <2>1. inst.ir_obj.kind = "Pointer"
    BY <1>1, <1>6 DEF Fits
  <2> HIDE DEF inst
  <2> QED BY <1>6, <2>1 DEF Printer!ResultWord, c
<1>7. ASSUME c \in {"STORE", "RET"}
      PROVE  Printer!ResultWord(k - 1, inst) = Printer!NoWord
  <2>1. inst.ir_obj.kind = "None"
    BY <1>1, <1>7 DEF Fits
  <2> HIDE DEF inst
  <2> QED BY <2>1 DEF Printer!ResultWord, c
<1> HIDE DEF inst
<1>8. /\ k - 1 \in 0 .. f.next_inst_id - 1 /\ f.next_inst_id \in Nat
      /\ Text(f)[k].words = (IF c = "RET" THEN <<Printer!Words(inst)[1]>>
                             ELSE Printer!Words(inst))
      /\ c \in ValueOps \ {"ALLOC"} => Text(f)[k].lhs = Printer!Word("%", k - 1)
      /\ c = "ALLOC" => Text(f)[k].lhs = Printer!Word("@", inst.ir_obj.val)
      /\ c \in {"STORE", "RET"} => Text(f)[k].lhs = Printer!NoWord
      /\ c \in KoopaOpCode
  BY <1>1, <1>3, <1>4, <1>5, <1>6, <1>7
<1> QED BY <1>8 DEF inst

\* A name among the words of line k is an operand's: a value defined above, or
\* a pointer allocated above.
LEMMA WordIsAbove ==
  ASSUME NEW f \in FuncSet, LegalFunc(f), NEW k \in 1 .. f.next_inst_id,
         NEW w \in Range(Text(f)[k].words), w.sigil \in Sigils
  PROVE  \E j \in 1 .. k - 1 : Text(f)[j].lhs = w
<1> DEFINE inst == f.inst_map[k - 1]
           o    == inst.operands
           c    == inst.opcode
<1>1. /\ Fits(f, k - 1, inst) /\ f.next_inst_id \in Nat /\ inst \in InstData
      /\ k - 1 \in 0 .. f.next_inst_id - 1
  BY LegalFacts
<1>2. /\ o \in Seq(Operand) /\ Len(o) = Builder!Arity(c) /\ c \in KoopaOpCode
      /\ DOMAIN o = 1 .. Len(o)
  BY <1>1, LenProperties DEF InstData, Fits
<1>3. PICK i \in 1 .. Len(o) : w = Printer!OperandWord(o[i])
  <2>1. /\ DOMAIN Printer!Words(inst) = 1 .. Len(o)
        /\ \A i \in 1 .. Len(o) : Printer!Words(inst)[i] = Printer!OperandWord(o[i])
    BY <1>2 DEF Printer!Words
  <2>2. CASE c = "RET"
    <3>1. Len(o) = 1
      BY <1>2, <2>2 DEF Builder!Arity, Builder!Binary, Builder!ValueOps
    <3>2. Text(f)[k].words = <<Printer!Words(inst)[1]>>
      BY <2>2, LeftSide
    <3>3. w = Printer!Words(inst)[1]
      BY <3>2 DEF Range
    <3> QED BY <2>1, <3>1, <3>3
  <2>3. CASE c # "RET"
    <3>1. Text(f)[k].words = Printer!Words(inst)
      BY <2>3, LeftSide
    <3> QED BY <2>1, <3>1 DEF Range
  <2> QED BY <2>2, <2>3
<1>4. o[i] \in Operand
  BY <1>2, ElementOfSeq
<1>5. /\ o[i].kind \in {"InstId", "Pointer"}
      /\ o[i].kind = "InstId" => w = Printer!Word("%", o[i].val)
      /\ o[i].kind = "Pointer" => w = Printer!Word("@", o[i].val)
  BY <1>3, <1>4 DEF Printer!OperandWord, Printer!Word, Printer!NoWord, Sigils, Operand
<1>6. /\ o[i].kind = "InstId" => Usable(f, k - 1, o[i])
      /\ o[i].kind = "Pointer" => AllocIn(f, k - 1, o[i].val)
  <2>1. CASE c \in Builder!Binary \cup {"RET"}
    <3>1. Usable(f, k - 1, o[i])
      BY <1>1, <2>1 DEF Fits
    <3> QED BY <3>1 DEF Usable
  <2>2. CASE c = "ALLOC"
    <3>1. i = 1 /\ o[1].kind = "BType"
      BY <1>1, <1>2, <2>2 DEF Fits, Builder!Arity, Builder!Binary, Builder!ValueOps
    <3> QED BY <3>1
  <2>3. CASE c = "STORE"
    <3>1. i = 1 \/ i = 2
      BY <1>2, <2>3 DEF Builder!Arity, Builder!Binary, Builder!ValueOps
    <3>2. /\ Usable(f, k - 1, o[1])
          /\ o[2].kind = "Pointer" /\ AllocIn(f, k - 1, o[2].val)
      BY <1>1, <2>3 DEF Fits
    <3>3. o[1].kind # "Pointer"
      BY <3>2 DEF Usable
    <3> QED BY <3>1, <3>2, <3>3
  <2>4. CASE c = "LOAD"
    <3>1. i = 1
      BY <1>2, <2>4 DEF Builder!Arity, Builder!Binary, Builder!ValueOps
    <3>2. o[1].kind = "Pointer" /\ AllocIn(f, k - 1, o[1].val)
      BY <1>1, <2>4 DEF Fits
    <3> QED BY <3>1, <3>2
  <2>5. c \in Builder!Binary \cup {"RET", "ALLOC", "STORE", "LOAD"}
    BY <1>2 DEF KoopaOpCode, ValueOps, Builder!Binary, Builder!ValueOps
  <2> QED BY <2>1, <2>2, <2>3, <2>4, <2>5
<1>7. CASE o[i].kind = "InstId"
  <2>1. PICK j \in 0 .. k - 1 - 1 :
          j = o[i].val /\ f.inst_map[j].opcode \in ValueOps \ {"ALLOC"}
    BY <1>6, <1>7 DEF Usable
  <2>2. PICK m \in 1 .. f.next_inst_id : m \in 1 .. k - 1 /\ m - 1 = j
    <3>1. j + 1 \in 1 .. f.next_inst_id /\ j + 1 \in 1 .. k - 1 /\ j + 1 - 1 = j
      BY <1>1
    <3> QED BY <3>1
  <2>3. Text(f)[m].lhs = Printer!Word("%", j)
    BY <2>1, <2>2, LeftSide
  <2>4. w = Printer!Word("%", j)
    BY <1>5, <1>7, <2>1
  <2> QED BY <2>2, <2>3, <2>4
<1>8. CASE o[i].kind = "Pointer"
  <2>1. PICK j \in 0 .. k - 1 - 1 :
          f.inst_map[j].opcode = "ALLOC" /\ f.inst_map[j].ir_obj.val = o[i].val
    BY <1>6, <1>8 DEF AllocIn
  <2>2. PICK m \in 1 .. f.next_inst_id : m \in 1 .. k - 1 /\ m - 1 = j
    <3>1. j + 1 \in 1 .. f.next_inst_id /\ j + 1 \in 1 .. k - 1 /\ j + 1 - 1 = j
      BY <1>1
    <3> QED BY <3>1
  <2>3. Text(f)[m].lhs = Printer!Word("@", f.inst_map[j].ir_obj.val)
    BY <2>1, <2>2, LeftSide
  <2> QED BY <1>5, <1>8, <2>1, <2>2, <2>3
<1> QED BY <1>5, <1>7, <1>8

\* Two lines with the same name left of "=" are one, and two lines of
\* different functions with the same pointer.
LEMMA NamesApart ==
  ASSUME CompilerInv, status = "ok",
         NEW f \in 1 .. Len(funcs), NEW k \in 1 .. funcs[f].next_inst_id,
         NEW g \in 1 .. Len(funcs), NEW j \in 1 .. funcs[g].next_inst_id,
         Text(funcs[f])[k].lhs = Text(funcs[g])[j].lhs,
         Text(funcs[f])[k].lhs # Printer!NoWord,
         f = g \/ Text(funcs[f])[k].lhs.sigil = "@"
  PROVE  f = g /\ k = j
<1> DEFINE a == funcs[f].inst_map[k - 1]
           b == funcs[g].inst_map[j - 1]
           l == Text(funcs[f])[k].lhs
<1>1. funcs[f] \in FuncSet /\ LegalFunc(funcs[f]) /\ funcs[g] \in FuncSet /\ LegalFunc(funcs[g])
  BY FuncLegal
<1>2. /\ k - 1 \in 0 .. funcs[f].next_inst_id - 1 /\ funcs[f].next_inst_id \in Nat
      /\ a.opcode \in ValueOps \ {"ALLOC"} => l = Printer!Word("%", k - 1)
      /\ a.opcode = "ALLOC" => l = Printer!Word("@", a.ir_obj.val)
      /\ a.opcode \in {"STORE", "RET"} => l = Printer!NoWord
      /\ a.opcode \in KoopaOpCode
  BY <1>1, LeftSide
<1>3. /\ j - 1 \in 0 .. funcs[g].next_inst_id - 1 /\ funcs[g].next_inst_id \in Nat
      /\ b.opcode \in ValueOps \ {"ALLOC"} => l = Printer!Word("%", j - 1)
      /\ b.opcode = "ALLOC" => l = Printer!Word("@", b.ir_obj.val)
      /\ b.opcode \in {"STORE", "RET"} => l = Printer!NoWord
      /\ b.opcode \in KoopaOpCode
  BY <1>1, LeftSide
<1>4. PointersApart
  BY DEF CompilerInv, ProgInv
<1>5. CASE a.opcode = "ALLOC"
  <2>1. l.sigil = "@" /\ l.num = a.ir_obj.val
    BY <1>2, <1>5 DEF Printer!Word
  <2>2. b.opcode = "ALLOC" /\ b.ir_obj.val = a.ir_obj.val
    BY <1>3, <2>1 DEF Printer!Word, Printer!NoWord, KoopaOpCode
  <2>3. IsAlloc(f, k - 1) /\ IsAlloc(g, j - 1) /\ PointerOf(g, j - 1) = PointerOf(f, k - 1)
    BY <1>2, <1>3, <1>5, <2>2 DEF IsAlloc, PointerOf
  <2>4. f = g /\ k - 1 = j - 1
    BY <1>2, <1>3, <1>4, <2>3 DEF PointersApart
  <2> QED BY <2>4
<1>6. CASE a.opcode # "ALLOC"
  <2>1. l = Printer!Word("%", k - 1)
    BY <1>2, <1>6 DEF KoopaOpCode
  <2>2. l.sigil = "%" /\ l.num = k - 1
    BY <2>1 DEF Printer!Word
  <2>3. l = Printer!Word("%", j - 1)
    BY <1>3, <2>2 DEF Printer!Word, KoopaOpCode
  <2>4. k - 1 = j - 1 /\ f = g
    BY <2>2, <2>3 DEF Printer!Word
  <2> QED BY <2>4
<1> QED BY <1>5, <1>6

\* The text is in SSA form, the names of a pointer unique in all of it
\* (Program's Display, PTR_ID_ALLOCATOR).
THEOREM TextStaysSSA == CompilerSpec => []TextIsSSA
<1>1. CompilerInv => TextIsSSA
  <2> SUFFICES ASSUME CompilerInv, NEW f \in DOMAIN printed, NEW k \in DOMAIN printed[f]
               PROVE  LET line == printed[f][k]
                          above(w) == \E j \in 1 .. k - 1 : printed[f][j].lhs = w
                      IN /\ line.lhs # Printer!NoWord => ~above(line.lhs)
                         /\ line.lhs.sigil = "@" =>
                              \A g \in 1 .. f - 1 :
                                \A j \in DOMAIN printed[g] : printed[g][j].lhs # line.lhs
                         /\ \A w \in Range(line.words) : w.sigil \in Sigils => above(w)
    BY DEF TextIsSSA
  <2>1. status = "ok"
    <3>1. DOMAIN <<>> = {}
      OBVIOUS
    <3> QED BY <3>1 DEF CompilerInv, Fresh
  <2>2. /\ f \in 1 .. Len(printed) /\ Len(printed) \in Nat /\ Len(printed) <= Len(funcs)
        /\ Len(funcs) \in Nat /\ \A g \in 1 .. Len(printed) : printed[g] = Text(funcs[g])
    BY <2>1, LenProperties DEF CompilerInv, GoodText
  <2>3. ASSUME NEW g \in 1 .. Len(printed)
        PROVE  /\ g \in 1 .. Len(funcs) /\ funcs[g] \in FuncSet /\ LegalFunc(funcs[g])
               /\ printed[g] = Text(funcs[g]) /\ DOMAIN printed[g] = 1 .. funcs[g].next_inst_id
               /\ funcs[g].next_inst_id \in Nat
    <3>1. g \in 1 .. Len(funcs)
      BY <2>2
    <3>2. funcs[g] \in FuncSet /\ LegalFunc(funcs[g])
      BY <2>1, <3>1, FuncLegal
    <3>3. DOMAIN Text(funcs[g]) = 1 .. funcs[g].next_inst_id
      BY DEF Text
    <3> QED BY <2>2, <3>1, <3>2, <3>3, LegalFacts
  <2>4. k \in 1 .. funcs[f].next_inst_id
    BY <2>2, <2>3
  <2> DEFINE l == printed[f][k].lhs
  <2>5. ASSUME NEW j \in 1 .. k - 1, printed[f][j].lhs = l, l # Printer!NoWord
        PROVE  FALSE
    <3>1. j \in 1 .. funcs[f].next_inst_id /\ j # k
      BY <2>2, <2>3, <2>4
    <3>2. Text(funcs[f])[k].lhs = l /\ Text(funcs[f])[j].lhs = l
      BY <2>2, <2>5
    <3> QED BY <2>1, <2>2, <2>3, <2>4, <2>5, <3>1, <3>2, NamesApart
  <2>6. ASSUME NEW g \in 1 .. f - 1, NEW j \in DOMAIN printed[g], printed[g][j].lhs = l,
               l.sigil = "@"
        PROVE  FALSE
    <3>1. g \in 1 .. Len(printed) /\ g # f
      BY <2>2
    <3>2. j \in 1 .. funcs[g].next_inst_id
      BY <2>3, <3>1
    <3>3. Text(funcs[f])[k].lhs = l /\ Text(funcs[g])[j].lhs = l /\ l # Printer!NoWord
      BY <2>2, <2>6, <3>1 DEF Printer!NoWord, Printer!Word
    <3> QED BY <2>1, <2>2, <2>3, <2>4, <2>6, <3>1, <3>2, <3>3, NamesApart
  <2>7. ASSUME NEW w \in Range(printed[f][k].words), w.sigil \in Sigils
        PROVE  \E j \in 1 .. k - 1 : printed[f][j].lhs = w
    BY <2>2, <2>3, <2>4, <2>7, WordIsAbove
  <2> QED BY <2>5, <2>6, <2>7
<1> QED BY <1>1, CompilerInvIsInvariant, PTL
=============================================================================
