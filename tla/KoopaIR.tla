------------------------------ MODULE KoopaIR ------------------------------
(***************************************************************************)
(* The data types of the Koopa intermediate representation                 *)
(* (src/src/koopa_ir, and IRObj of src/src/ast/exp.rs): opcodes, IR        *)
(* objects, operands, instructions and functions.                          *)
(*                                                                         *)
(* Left out: names, parameters and printed forms, and InstData.reg_used,   *)
(* which stays None (no caller asks for a permanent register).             *)
(***************************************************************************)
EXTENDS Integers, Sequences, FiniteSets

ValueOps == {"NE", "EQ", "GT", "LT", "GE", "LE", "ADD", "SUB", "MUL", "DIV",
             "MOD", "AND", "OR", "XOR", "SHL", "SHR", "SAR", "LOAD", "ALLOC"}
KoopaOpCode == ValueOps \cup {"STORE", "RET"}

BType == {"Int", "Void"}
SizeInBytes(typ) == IF typ = "Int" THEN 4 ELSE 0

\* IRObj: what parsing an expression gives back and what a symbol table
\* holds.  val is the instruction id, the constant or the pointer id.
IRObj == [kind        : {"InstId", "Const", "Pointer", "None"},
          val         : Int,
          initialized : BOOLEAN]

Obj(kind, val)                == [kind |-> kind, val |-> val, initialized |-> FALSE]
InstIdObj(id)                 == Obj("InstId", id)
ConstObj(c)                   == Obj("Const", c)
NoObj                         == Obj("None", 0)
PointerObj(initialized, id)   ==
  [kind |-> "Pointer", val |-> id, initialized |-> initialized]

Operand == [kind : {"InstId", "Const", "Pointer", "BType", "None"}, val : Int]

\* Operand::from_parse_result: a pointer loses its "initialized" flag.
FromParseResult(obj) == [kind |-> obj.kind, val |-> obj.val]
BTypeOperand         == [kind |-> "BType", val |-> 0]
PointerOperand(id)   == [kind |-> "Pointer", val |-> id]

InstData == [typ      : BType,
             ir_obj   : IRObj,
             opcode   : KoopaOpCode,
             operands : Seq(Operand),
             users    : Seq(Nat)]

Inst(typ, ir_obj, opcode, operands) ==
  [typ |-> typ, ir_obj |-> ir_obj, opcode |-> opcode, operands |-> operands,
   users |-> <<>>]

\* A Func: its data flow graph (next_inst_id, inst_map), the inst_list of
\* the one IRBlock its blocks share, and how often ir_blocks was pushed to.
\* (A predicate and not a set: TLC cannot test membership in the set of
\* functions on all the intervals 0 .. n-1.)
IsFunc(f) ==
  /\ f = [next_inst_id |-> f.next_inst_id, inst_map  |-> f.inst_map,
          inst_list    |-> f.inst_list,    ir_blocks |-> f.ir_blocks]
  /\ f.next_inst_id \in Nat
  /\ f.inst_map \in [0 .. f.next_inst_id - 1 -> InstData]
  /\ f.inst_list \in Seq(Nat)
  /\ f.ir_blocks \in Nat

NewFunc == [next_inst_id |-> 0, inst_map |-> <<>>, inst_list |-> <<>>, ir_blocks |-> 0]

\* The operands of inst that are the result of instruction i.
UsesOf(inst, i) ==
  {k \in DOMAIN inst.operands :
     inst.operands[k].kind = "InstId" /\ inst.operands[k].val = i}

\* Slips a change to insert_inst could make; each must break a property of the
\* runs: the users are forgotten, the id is not advanced.
InsertInst_NoUsers(func, inst) ==
  LET id  == func.next_inst_id
      ids == DOMAIN func.inst_map \cup {id}
  IN [func EXCEPT !.next_inst_id = id + 1,
                  !.inst_map  = [i \in ids |-> IF i = id THEN inst ELSE func.inst_map[i]],
                  !.inst_list = Append(@, id)]

InsertInst_SameId(func, inst) ==
  LET id  == func.next_inst_id
      ids == DOMAIN func.inst_map \cup {id}
  IN [func EXCEPT !.inst_map  = [i \in ids |-> IF i = id THEN inst ELSE func.inst_map[i]],
                  !.inst_list = Append(@, id)]

\* insert_inst puts the instruction in the graph, then add_user runs once for
\* each operand that is an instruction, then the id joins the inst_list.
InsertInst(func, inst) ==
  LET id  == func.next_inst_id
      ids == DOMAIN func.inst_map \cup {id}
      old(i) == IF i = id THEN inst ELSE func.inst_map[i]
  IN [func EXCEPT
        !.next_inst_id = id + 1,
        !.inst_map  = [i \in ids |->
          [old(i) EXCEPT !.users = @ \o
             [k \in 1 .. Cardinality(UsesOf(inst, i)) |-> id]]],
        !.inst_list = Append(@, id)]
=============================================================================
