---------------------------- MODULE ContextStack ----------------------------
(***************************************************************************)
(* The stack of symbol tables (src/src/config/config.rs, ContextStack), as *)
(* operators on the value of the stack: a sequence of contexts, innermost  *)
(* last.  A context names its function (by its place in the program), has  *)
(* or has not been given an ir_block, and maps names to constants and to   *)
(* pointers.  Every block of a function shares one ir_block, so a Boolean  *)
(* stands for it.                                                          *)
(***************************************************************************)
EXTENDS KoopaIR, SequencesExt

CONSTANT Names   \* the identifiers a source program may use

\* A HashMap from names to IR objects, and a Context.
IsTable(table) == DOMAIN table \subseteq Names /\ table \in [DOMAIN table -> IRObj]

IsContext(context) ==
  /\ context = [func     |-> context.func,
                ir_block |-> context.ir_block,
                global_const_table   |-> context.global_const_table,
                global_pointer_table |-> context.global_pointer_table]
  /\ context.func \in Nat /\ context.ir_block \in BOOLEAN
  /\ IsTable(context.global_const_table) /\ IsTable(context.global_pointer_table)

EmptyTable == [n \in {} |-> NoObj]

NewContext(func, ir_block) ==
  [func |-> func, ir_block |-> ir_block,
   global_const_table |-> EmptyTable, global_pointer_table |-> EmptyTable]

EnterFuncScope(stack, func) == Append(stack, NewContext(func, FALSE))

\* Slip: a block always gets a context of its own.
EnterBlockScope_AlwaysPush(stack) == Append(stack, NewContext(Last(stack).func, TRUE))

\* The function's own context takes the first block; a nested block gets a
\* context of its own.
EnterBlockScope(stack) ==
  IF Last(stack).ir_block
  THEN Append(stack, NewContext(Last(stack).func, TRUE))
  ELSE [stack EXCEPT ![Len(stack)].ir_block = TRUE]

\* Slip: the function's own context stays.
ExitScope_KeepOne(stack) == IF Len(stack) <= 1 THEN stack ELSE Front(stack)

\* Vec::pop, which leaves an empty stack empty.
ExitScope(stack) == IF stack = <<>> THEN <<>> ELSE Front(stack)

\* HashMap::insert
Put(table, n, obj) ==
  [m \in DOMAIN table \cup {n} |-> IF m = n THEN obj ELSE table[m]]

InsertConst(stack, n, obj) ==
  [stack EXCEPT ![Len(stack)].global_const_table = Put(@, n, obj)]

\* Slip: the entry is made in the function's outermost context.
InsertPointer_Outermost(stack, n, obj) ==
  [stack EXCEPT ![1].global_pointer_table = Put(@, n, obj)]

InsertPointer(stack, n, obj) ==
  [stack EXCEPT ![Len(stack)].global_pointer_table = Put(@, n, obj)]

\* The contexts that declare n as a constant, as a variable.
ConstScopes(stack, n) ==
  {i \in DOMAIN stack : n \in DOMAIN stack[i].global_const_table}
PointerScopes(stack, n) ==
  {i \in DOMAIN stack : n \in DOMAIN stack[i].global_pointer_table}

GetCurrentConst(stack, n)   == Len(stack) \in ConstScopes(stack, n)
GetCurrentPointer(stack, n) == Len(stack) \in PointerScopes(stack, n)

\* Slip: a constant is looked up among the variables too.
GetLatestConst_AnyKind(stack, n) ==
  LET scopes == ConstScopes(stack, n) \cup PointerScopes(stack, n)
  IN IF scopes = {} THEN NoObj
     ELSE IF Max(scopes) \in PointerScopes(stack, n)
          THEN stack[Max(scopes)].global_pointer_table[n]
          ELSE stack[Max(scopes)].global_const_table[n]

\* The entry of the innermost context that has one; NoObj stands for None.
GetLatestConst(stack, n) ==
  IF ConstScopes(stack, n) = {} THEN NoObj
  ELSE stack[Max(ConstScopes(stack, n))].global_const_table[n]

GetLatestPointer(stack, n) ==
  IF PointerScopes(stack, n) = {} THEN NoObj
  ELSE stack[Max(PointerScopes(stack, n))].global_pointer_table[n]

\* Slip: the outermost variable of the name is marked.
SetPointerInitialized_Outermost(stack, n) ==
  [stack EXCEPT
     ![Min(PointerScopes(stack, n))].global_pointer_table[n].initialized = TRUE]

\* Panics, and is not called, where no context declares n.
SetPointerInitialized(stack, n) ==
  [stack EXCEPT
     ![Max(PointerScopes(stack, n))].global_pointer_table[n].initialized = TRUE]

\* Slip: variables of any context come before constants.
FindHighestPriority_PointersFirst(stack, n) ==
  IF PointerScopes(stack, n) # {} THEN GetLatestPointer(stack, n) ELSE GetLatestConst(stack, n)

\* The innermost context that declares n at all decides; within a context a
\* variable comes before a constant.
FindHighestPriority(stack, n) ==
  LET scopes  == ConstScopes(stack, n) \cup PointerScopes(stack, n)
      context == stack[Max(scopes)]
  IN IF scopes = {} THEN NoObj
     ELSE IF n \in DOMAIN context.global_pointer_table
          THEN context.global_pointer_table[n]
          ELSE context.global_const_table[n]

\* insert_instruction into the function of the innermost context.  It panics
\* without a context, without an ir_block, and when an operand names an
\* instruction that is not in the graph.
CanInsert(stack, funcs, inst) ==
  /\ stack # <<>>
  /\ Last(stack).ir_block
  /\ LET func == funcs[Last(stack).func]
     IN \A k \in DOMAIN inst.operands :
          inst.operands[k].kind = "InstId" =>
            inst.operands[k].val \in DOMAIN func.inst_map \cup {func.next_inst_id}

InsertInstruction(stack, funcs, inst) ==
  [funcs EXCEPT ![Last(stack).func] = InsertInst(@, inst)]

\* Slip: the id is read after the insertion.
NextInstId_After(stack, funcs) == funcs[Last(stack).func].next_inst_id + 1

\* get_next_inst_id of the function of the innermost context.
NextInstId(stack, funcs) == funcs[Last(stack).func].next_inst_id
=============================================================================
