---------------------------- MODULE KoopaBuilder ----------------------------
(***************************************************************************)
(* What the front end promises the back end, without symbol tables, graphs *)
(* or a source program: a program is a list of functions, a function a     *)
(* list of instructions, and only the last function grows, by instructions *)
(* that are legal where they stand.                                        *)
(***************************************************************************)
EXTENDS KoopaIR

VARIABLES
  code,     \* code[i][p]: the p-th instruction of the i-th function
  stopped   \* the program is complete, or compilation has failed

Binary == ValueOps \ {"LOAD", "ALLOC"}

\* The number of operands an opcode takes.
Arity(opcode) == IF opcode \in Binary \cup {"STORE"} THEN 2 ELSE 1

\* The pointers allocated in one function, in the whole program.
AllocatedIn(body) == {body[p].ir_obj.val : p \in {p \in DOMAIN body : body[p].opcode = "ALLOC"}}
Allocated         == UNION {AllocatedIn(code[i]) : i \in DOMAIN code}
StoredIn(body)    == {body[p].operands[2].val : p \in {p \in DOMAIN body : body[p].opcode = "STORE"}}

\* A value the instruction after body may use: a constant or the result of an
\* instruction of body that has one.  Ids count from 0.
IsValue(body, operand) ==
  \/ operand.kind = "Const"
  \/ /\ operand.kind = "InstId"
     /\ operand.val + 1 \in DOMAIN body
     /\ body[operand.val + 1].opcode \in ValueOps \ {"ALLOC"}

Legal(body, inst) ==
  /\ inst.opcode \in KoopaOpCode
  /\ Len(inst.operands) = Arity(inst.opcode)
  /\ inst.typ = (IF inst.opcode \in ValueOps THEN "Int" ELSE "Void")
  /\ inst.opcode \in Binary \cup {"LOAD"} => inst.ir_obj = InstIdObj(Len(body))
  /\ inst.opcode \in Binary \cup {"RET"} =>
       \A k \in DOMAIN inst.operands : IsValue(body, inst.operands[k])
  /\ inst.opcode = "ALLOC" => inst.ir_obj.val \notin Allocated
  /\ inst.opcode = "STORE" => /\ IsValue(body, inst.operands[1])
                              /\ inst.operands[2].kind = "Pointer"
                              /\ inst.operands[2].val \in AllocatedIn(body)
  /\ inst.opcode = "LOAD"  => /\ inst.operands[1].kind = "Pointer"
                              /\ inst.operands[1].val \in AllocatedIn(body) \cap StoredIn(body)

Init == code = <<>> /\ stopped = FALSE

NewFunction == ~stopped /\ code' = Append(code, <<>>) /\ UNCHANGED stopped

\* The last function grows by one legal instruction, whatever it is.
AppendInst ==
  /\ ~stopped /\ code # <<>>
  /\ LET body == code[Len(code)]
         inst == code'[Len(code)][Len(body) + 1]
     IN /\ Len(code') = Len(code) /\ Len(code'[Len(code)]) = Len(body) + 1
        /\ Legal(body, inst)
        /\ code' = [code EXCEPT ![Len(code)] = Append(@, inst)]
  /\ UNCHANGED stopped

Stop == ~stopped /\ stopped' = TRUE /\ UNCHANGED code

Next == NewFunction \/ AppendInst \/ Stop

Spec == Init /\ [][Next]_<<code, stopped>>
=============================================================================
