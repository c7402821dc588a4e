---------------------------- MODULE StackFrames ----------------------------
(***************************************************************************)
(* The stack frames of the back end (src/src/asm/config.rs,                *)
(* StackFrameManager), as operators on the manager's value: a sequence of  *)
(* frames, the last one current.  A slot's name is the operand that names  *)
(* the value it holds.  Left out: sp_offset and fp_offset, which only      *)
(* uncalled getters read, and the size var_map keeps beside each offset.   *)
(***************************************************************************)
EXTENDS KoopaIR, SequencesExt

STK_FRM_BASE_LENGTH == 16

\* A frame for every value of func: four bytes for each Int instruction and
\* none for the others, rounded up to a multiple of STK_FRM_BASE_LENGTH.
OriginSize(func) ==
  SizeInBytes("Int") * Cardinality({i \in DOMAIN func.inst_map : func.inst_map[i].typ = "Int"})

\* Slip: rounded down.
FrameSize_RoundedDown(func) ==
  (OriginSize(func) \div STK_FRM_BASE_LENGTH) * STK_FRM_BASE_LENGTH

\* Slip: a unit more than it takes.
FrameSize_OneMore(func) ==
  (OriginSize(func) \div STK_FRM_BASE_LENGTH + 1) * STK_FRM_BASE_LENGTH

FrameSize(func) ==
  ((OriginSize(func) + (STK_FRM_BASE_LENGTH - 1)) \div STK_FRM_BASE_LENGTH)
    * STK_FRM_BASE_LENGTH

NoVars == [name \in {} |-> 0]

Prologue(frames, func) ==
  Append(frames, [size |-> FrameSize(func), cur_offset |-> 0, var_map |-> NoVars])

\* Slip: the function's frame stays.
Epilogue_Kept(frames) == frames

\* Vec::pop
Epilogue(frames) == IF frames = <<>> THEN <<>> ELSE Front(frames)

GetSize(frames) == IF frames = <<>> THEN 0 ELSE Last(frames).size

\* Slip: the function being lowered counts as its own caller.
IsCallee_OffByOne(frames) == Len(frames) >= 1

IsCallee(frames) == Len(frames) > 1

\* alloc_var puts the new slot where the last one ended.
VarOffset(frames) == Last(frames).cur_offset

\* Slip: var_map is made anew for each slot.
AllocVar_Forgets(frames, name, typ) ==
  [frames EXCEPT ![Len(frames)].var_map    = [m \in {name} |-> VarOffset(frames)],
                 ![Len(frames)].cur_offset = @ + SizeInBytes(typ)]

AllocVar(frames, name, typ) ==
  [frames EXCEPT
     ![Len(frames)].var_map =
       [m \in DOMAIN @ \cup {name} |-> IF m = name THEN VarOffset(frames) ELSE @[m]],
     ![Len(frames)].cur_offset = @ + SizeInBytes(typ)]

\* get_named_var unwraps what var_map has.
HasVar(frames, name)      == frames # <<>> /\ name \in DOMAIN Last(frames).var_map
GetNamedVar(frames, name) == Last(frames).var_map[name]
=============================================================================
