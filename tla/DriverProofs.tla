---------------------------- MODULE DriverProofs ----------------------------
(***************************************************************************)
(* The command line, for any set of source texts, any number of            *)
(* invocations and any failures: proofs that a panic leaves the output file*)
(* as it was, and that success means the file holds what was asked for.    *)
(* (Terminates is a liveness property and stays with TLC.)                 *)
(***************************************************************************)
EXTENDS Driver, TLAPS

\* What holds at each step of main: nothing touches the file before "create
\* koopa", the last steps are taken only for -riscv, and the file that a
\* finished process leaves is what its exit promises.
Inv ==
  /\ at \in Steps \cup {"idle"}
  /\ exit = "none" <=> at # "idle"
  /\ at \in {"read", "parse", "koopa", "asm", "print", "create koopa"} => output = before
  /\ at \in {"koopa", "create koopa", "write koopa"} => koopa \/ riscv
  /\ at \in {"asm", "create asm", "write asm"} => riscv
  /\ PanicKeepsOutput /\ SuccessMeansTarget

\* Before the first invocation there is no output to promise anything about.
LEMMA InitInv == Init => Inv
  BY DEF Init, Inv, Steps, PanicKeepsOutput, SuccessMeansTarget

LEMMA InvStep == Inv /\ [Next]_vars => Inv'
<1> SUFFICES ASSUME Inv, [Next]_vars PROVE Inv'
  OBVIOUS
<1> USE DEF Inv, Steps, PanicKeepsOutput, SuccessMeansTarget, Same, GoTo, Exit
<1>1. ASSUME NEW k \in BOOLEAN, NEW r \in BOOLEAN, NEW s \in Sources, Invoke(k, r, s)
      PROVE  Inv'
  BY <1>1 DEF Invoke
<1>2. CASE ReadInput
  BY <1>2 DEF ReadInput
<1>3. CASE ParseInput
  BY <1>3 DEF ParseInput
<1>4. CASE GenerateKoopa
  BY <1>4 DEF GenerateKoopa
<1>5. CASE GenerateAsm
  BY <1>5 DEF GenerateAsm
<1>6. CASE PrintAst
  BY <1>6 DEF PrintAst
<1>7. CASE CreateKoopa
  BY <1>7 DEF CreateKoopa, Create
<1>8. CASE CreateAsm
  BY <1>8 DEF CreateAsm, Create
<1>9. CASE WriteKoopa
  <2>1. CASE WriteSome("write koopa", "part of koopa") \/ WriteFails("write koopa")
    BY <2>1 DEF WriteSome, WriteFails
  <2>2. CASE at = "write koopa" /\ output' = File("koopa", source) /\ AfterKoopa /\ Same
    <3>1. CASE riscv
      BY <2>2, <3>1 DEF AfterKoopa
    <3>2. CASE ~riscv
      <4>1. /\ at' = "idle" /\ exit' = "ok" /\ riscv' = riscv
            /\ output' = File("koopa", source) /\ source' = source
        BY <2>2, <3>2 DEF AfterKoopa
      <4>2. output' = File(IF riscv' THEN "asm" ELSE "koopa", source')
        BY <3>2, <4>1
      <4> QED BY <4>1, <4>2
    <3> QED BY <3>1, <3>2
  <2> QED BY <1>9, <2>1, <2>2 DEF WriteKoopa
<1>10. CASE WriteAsm
  BY <1>10 DEF WriteAsm, WriteSome, WriteFails
<1>11. CASE Kill
  BY <1>11 DEF Kill
<1>12. CASE UNCHANGED vars
  BY <1>12 DEF vars
<1> QED BY <1>1, <1>2, <1>3, <1>4, <1>5, <1>6, <1>7, <1>8, <1>9, <1>10, <1>11, <1>12
        DEF Next, Main

\* The two properties of the output file hold after every step of main, with
\* what they rest on.
THEOREM InvIsInvariant == Spec => []Inv
<1> QED BY InitInv, InvStep, PTL DEF Spec

\* A program that the compiler rejects costs nobody the output of an earlier
\* one (the order of the stages and File::create in main).
THEOREM RejectionKeepsOutput == Spec => []PanicKeepsOutput
<1>1. Inv => PanicKeepsOutput
  BY DEF Inv
<1> QED BY <1>1, InvIsInvariant, PTL

\* Success means the output file is whole and of the kind asked for, whichever
\* flags are given (the two writes at the end of main).
THEOREM SuccessIsComplete == Spec => []SuccessMeansTarget
<1>1. Inv => SuccessMeansTarget
  BY DEF Inv
<1> QED BY <1>1, InvIsInvariant, PTL

\* Every variable holds a value of its type.
THEOREM TypeCorrect == Spec => []TypeOK
<1>1. Init => TypeOK
  <2> SUFFICES ASSUME Init PROVE TypeOK
    OBVIOUS
  <2>1. File("other", source) \in Content
    BY DEF Init, File, Content
  <2> QED BY <2>1 DEF Init, TypeOK, Steps, Exits
<1>2. TypeOK /\ [Next]_vars => TypeOK'
  <2> SUFFICES ASSUME TypeOK, [Next]_vars PROVE TypeOK'
    OBVIOUS
  <2> USE DEF TypeOK, Steps, Exits, Same, GoTo, Exit
  <2>1. \A kind \in {"other", "empty", "koopa", "part of koopa", "asm", "part of asm"} :
          File(kind, source) \in Content
    BY DEF File, Content
  <2>2. ASSUME NEW k \in BOOLEAN, NEW r \in BOOLEAN, NEW s \in Sources, Invoke(k, r, s)
        PROVE  TypeOK'
    BY <2>2 DEF Invoke
  <2>3. CASE ReadInput \/ ParseInput \/ GenerateKoopa \/ GenerateAsm \/ PrintAst
    BY <2>3 DEF ReadInput, ParseInput, GenerateKoopa, GenerateAsm, PrintAst
  <2>4. CASE CreateKoopa \/ CreateAsm
    BY <2>1, <2>4 DEF CreateKoopa, CreateAsm, Create
  <2>5. CASE WriteKoopa
    BY <2>1, <2>5 DEF WriteKoopa, WriteSome, WriteFails, AfterKoopa
  <2>6. CASE WriteAsm
    BY <2>1, <2>6 DEF WriteAsm, WriteSome, WriteFails
  <2>7. CASE Kill
    BY <2>7 DEF Kill
  <2>8. CASE UNCHANGED vars
    BY <2>8 DEF vars
  <2> QED BY <2>2, <2>3, <2>4, <2>5, <2>6, <2>7, <2>8 DEF Next, Main
<1> QED BY <1>1, <1>2, PTL DEF Spec
=============================================================================
