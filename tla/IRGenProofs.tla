---------------------------- MODULE IRGenProofs ----------------------------
(***************************************************************************)
(* The front end, for every program, every set of names and literals and   *)
(* every width.                                                            *)
(*                                                                         *)
(* First what it keeps: proofs that TypeOK, ScopesBalanced,                *)
(* OneDeclarationPerScope, NoInternalPanic and SuspendedCanResume are      *)
(* invariants of IRGen.  None of them is inductive alone: that a handler   *)
(* finds what it unwraps needs the context stack, the stack needs the      *)
(* suspended statement, and both need the types; their conjunction Inv is. *)
(* The lemmas before: arithmetic stays within an i32, and what the         *)
(* operations on functions and on the context stack return, for functions  *)
(* and stacks of any size.                                                 *)
(*                                                                         *)
(* Then the code it emits: it is in SSA form, memory is used as the symbol *)
(* tables promise, what has been emitted stays, and IRGen implements       *)
(* KoopaBuilder.  None of these can be seen from one handler.  The         *)
(* invariant CodeInv ties what the handlers hold (the tables with their    *)
(* flags, the suspended statement, the results not used yet) to the        *)
(* instructions that are in the list: a pointer in a table has its ALLOC,  *)
(* an initialized one its STORE, a result is an instruction with a value.  *)
(***************************************************************************)
EXTENDS IRGen, SequenceTheorems, FiniteSetTheorems, WellFoundedInduction, TLAPS

-----------------------------------------------------------------------------
(* Arithmetic.                                                             *)

\* What the least, the greatest and the number of the i32s are.
LEMMA I32Range ==
  /\ MinInt \in Int /\ MaxInt \in Int /\ MinInt = -MaxInt - 1 /\ MaxInt >= 1
  /\ Modulus \in Nat /\ Modulus >= 1 /\ MinInt + Modulus = MaxInt + 1
  BY I32Assumption DEF MinInt, Modulus

\* Wrapping gives an i32 (release builds, and every instruction that wraps).
LEMMA WrapInt32 ==
  ASSUME NEW n \in Int
  PROVE  Wrap(n) \in Int32
<1>1. (n - MinInt) % Modulus \in 0 .. Modulus - 1
  BY I32Range
<1> QED BY <1>1, I32Range DEF Wrap, Int32

\* The truth values of comparisons are i32s.
LEMMA TruthInt32 ==
  ASSUME NEW b \in BOOLEAN
  PROVE  Truth(b) \in Int32
  BY I32Range DEF Truth, Int32

\* Division with remainder of natural numbers.
LEMMA DivBounds ==
  ASSUME NEW a \in Nat, NEW b \in Nat \ {0}
  PROVE  /\ a \div b \in 0 .. a
         /\ a - b * (a \div b) \in 0 .. a
         /\ b > 1 /\ a > 0 => a \div b < a
  OBVIOUS

\* A quotient truncated toward zero is an i32 except for i32::MIN / -1: what
\* CheckedDiv lets pass has a value.
LEMMA TruncDivInt32 ==
  ASSUME NEW l \in Int32, NEW r \in Int32 \ {0}, ~ (l = MinInt /\ r = -1)
  PROVE  TruncDiv(l, r) \in Int32
<1> DEFINE a == Abs(l)
           b == Abs(r)
           q == a \div b
<1>1. l \in Int /\ r \in Int /\ MinInt <= l /\ l <= MaxInt /\ MinInt <= r /\ r <= MaxInt
  BY I32Range DEF Int32
<1>2. a \in Nat /\ b \in Nat \ {0}
  BY <1>1 DEF Abs
<1>3. q \in 0 .. a /\ (b > 1 /\ a > 0 => q < a)
  BY <1>2, DivBounds
<1>4. CASE (l < 0) = (r < 0)
  <2>1. q <= MaxInt
    <3>1. CASE l = MinInt
      <4>1. b > 1 /\ a = MaxInt + 1
        BY <1>1, <1>4, <3>1, I32Range DEF Abs
      <4> HIDE DEF a, b, q
      <4> QED BY <4>1, <1>2, <1>3, I32Range
    <3>2. CASE l # MinInt
      <4>1. a <= MaxInt
        BY <1>1, <3>2, I32Range DEF Abs
      <4> HIDE DEF a, b, q
      <4> QED BY <4>1, <1>2, <1>3, I32Range
    <3> QED BY <3>1, <3>2
  <2>2. TruncDiv(l, r) = q
    BY <1>4 DEF TruncDiv
  <2> HIDE DEF a, b, q
  <2> QED BY <2>1, <2>2, <1>2, <1>3, I32Range DEF Int32
<1>5. CASE (l < 0) # (r < 0)
  <2>1. a <= MaxInt + 1
    BY <1>1, I32Range DEF Abs
  <2>2. TruncDiv(l, r) = -q
    BY <1>5 DEF TruncDiv
  <2> HIDE DEF a, b, q
  <2> QED BY <2>1, <2>2, <1>2, <1>3, I32Range DEF Int32
<1> QED BY <1>4, <1>5

\* The remainder is no larger than the dividend, and so an i32.
LEMMA TruncRemInt32 ==
  ASSUME NEW l \in Int32, NEW r \in Int32 \ {0}
  PROVE  TruncRem(l, r) \in Int32
<1> DEFINE a == Abs(l)
           b == Abs(r)
           q == a \div b
           m == a - b * q
<1>1. l \in Int /\ r \in Int /\ MinInt <= l /\ l <= MaxInt
  BY I32Range DEF Int32
<1>2. a \in Nat /\ b \in Nat \ {0}
  BY <1>1 DEF Abs
<1>3. q \in 0 .. a /\ m \in 0 .. a
  BY <1>2, DivBounds
<1>4. TruncRem(l, r) = IF l < 0 THEN -m ELSE m
  <2> HIDE DEF q
  <2>1. TruncDiv(l, r) = IF (l < 0) = (r < 0) THEN q ELSE -q
    BY DEF TruncDiv, q
  <2>2. q \in Int
    BY <1>2, <1>3
  <2>3. CASE l < 0 /\ r < 0
    BY <1>1, <2>1, <2>2, <2>3 DEF TruncRem, Abs
  <2>4. CASE l < 0 /\ ~(r < 0)
    BY <1>1, <2>1, <2>2, <2>4 DEF TruncRem, Abs
  <2>5. CASE ~(l < 0) /\ r < 0
    BY <1>1, <2>1, <2>2, <2>5 DEF TruncRem, Abs
  <2>6. CASE ~(l < 0) /\ ~(r < 0)
    BY <1>1, <2>1, <2>2, <2>6 DEF TruncRem, Abs
  <2> QED BY <1>1, <2>3, <2>4, <2>5, <2>6
<1>5. (l < 0 => a = -l) /\ (~(l < 0) => a = l)
  BY DEF Abs
<1> HIDE DEF a, b, q, m
<1> QED BY <1>1, <1>2, <1>3, <1>4, <1>5, I32Range DEF Int32

-----------------------------------------------------------------------------
(* Sequences and finite sets of positions.                                 *)

\* A non-empty set of positions has a largest one, and Max finds it.
LEMMA MaxIsLargest ==
  ASSUME NEW n \in Nat, NEW S \in SUBSET (1 .. n), S # {}
  PROVE  Max(S) \in S /\ \A y \in S : Max(S) >= y
<1> DEFINE T == {n - x : x \in S}
           R == {ss \in Nat \X Nat : ss[1] < ss[2]}
<1>1. T \subseteq Nat
  OBVIOUS
<1>2. T # {}
  OBVIOUS
<1>3. IsWellFoundedOn(R, Nat)
  BY NatLessThanWellFounded DEF OpToRel
<1>4. PICK t \in T : \A u \in T : ~ (<<u, t>> \in R)
  <2> HIDE DEF T, R
  <2> QED BY <1>1, <1>2, <1>3, WFMin
<1>5. PICK x \in S : t = n - x
  OBVIOUS
<1>6. ASSUME NEW y \in S PROVE x >= y
  <2>1. n - y \in T /\ n - y \in Nat /\ n - x \in Nat
    OBVIOUS
  <2>2. ~ (<<n - y, n - x>> \in R)
    BY <1>4, <1>5, <2>1
  <2> QED BY <2>1, <2>2
<1> QED BY <1>6 DEF Max

\* The end of a sequence, and what is left without it.
LEMMA LastAndFront ==
  ASSUME NEW S, NEW s \in Seq(S), s # <<>>
  PROVE  /\ Len(s) \in Nat \ {0} /\ Last(s) \in S /\ Last(s) = s[Len(s)]
         /\ Front(s) \in Seq(S) /\ Len(Front(s)) = Len(s) - 1
         /\ \A i \in 1 .. Len(s) - 1 : Front(s)[i] = s[i]
<1>1. Len(s) \in Nat \ {0}
  BY EmptySeq
<1>2. \A i \in 1 .. Len(s) : s[i] \in S
  BY ElementOfSeq
<1>3. Last(s) \in S /\ Last(s) = s[Len(s)]
  BY <1>1, <1>2 DEF Last
<1>4. /\ SubSeq(s, 1, Len(s) - 1) \in Seq(S)
      /\ Len(SubSeq(s, 1, Len(s) - 1)) = Len(s) - 1
      /\ \A i \in 1 .. Len(s) - 1 : SubSeq(s, 1, Len(s) - 1)[i] = s[i]
  <2> DEFINE n == Len(s) - 1
             t == SubSeq(s, 1, n)
  <2>1. n \in Int /\ n >= 0 /\ \A i \in 1 .. n : s[i] \in S
    BY <1>1, <1>2
  <2> HIDE DEF n
  <2>2. /\ t \in Seq(S)
        /\ Len(t) = IF 1 <= n THEN n - 1 + 1 ELSE 0
        /\ \A i \in 1 .. n - 1 + 1 : t[i] = s[1 + i - 1]
    BY <2>1, SubSeqProperties
  <2>3. Len(t) = n /\ \A i \in 1 .. n : t[i] = s[i]
    BY <2>1, <2>2
  <2> QED BY <2>2, <2>3 DEF n
<1> QED BY <1>1, <1>3, <1>4 DEF Front

-----------------------------------------------------------------------------
(* Functions.                                                              *)

\* The functions IsFunc describes, as a set.
FuncSet ==
  UNION {[next_inst_id : {n}, inst_map  : [0 .. n - 1 -> InstData],
          inst_list : Seq(Nat), ir_blocks : Nat] : n \in Nat}

LEMMA FuncSetIsFunc ==
  ASSUME NEW f
  PROVE  f \in FuncSet <=> IsFunc(f)
<1>1. ASSUME f \in FuncSet PROVE IsFunc(f)
  BY <1>1 DEF FuncSet, IsFunc
<1>2. ASSUME IsFunc(f) PROVE f \in FuncSet
  BY <1>2 DEF FuncSet, IsFunc
<1> QED BY <1>1, <1>2

LEMMA NewFuncIsFunc == NewFunc \in FuncSet
<1>1. <<>> \in [0 .. 0 - 1 -> InstData]
  OBVIOUS
<1>2. <<>> \in Seq(Nat)
  OBVIOUS
<1> QED BY <1>1, <1>2, FuncSetIsFunc DEF NewFunc, IsFunc

\* The uses of an instruction by another can be counted.
LEMMA UsesOfCounted ==
  ASSUME NEW inst \in InstData, NEW i
  PROVE  Cardinality(UsesOf(inst, i)) \in Nat
<1>1. inst.operands \in Seq(Operand)
  BY DEF InstData
<1>2. DOMAIN inst.operands = 1 .. Len(inst.operands) /\ Len(inst.operands) \in Nat
  BY <1>1, LenProperties
<1>3. IsFiniteSet(1 .. Len(inst.operands))
  BY <1>2, FS_Interval
<1>4. UsesOf(inst, i) \in SUBSET (1 .. Len(inst.operands))
  BY <1>2 DEF UsesOf
<1> QED BY <1>3, <1>4, FS_Subset, FS_CardinalityType

\* insert_inst and add_user give a function with one instruction more.
LEMMA InsertInstIsFunc ==
  ASSUME NEW f \in FuncSet, NEW inst \in InstData
  PROVE  /\ InsertInst(f, inst) \in FuncSet
         /\ InsertInst(f, inst).next_inst_id = f.next_inst_id + 1
<1> DEFINE id     == f.next_inst_id
           ids    == DOMAIN f.inst_map \cup {id}
           old(i) == IF i = id THEN inst ELSE f.inst_map[i]
           more(i) == [k \in 1 .. Cardinality(UsesOf(inst, i)) |-> id]
           new(i) == [old(i) EXCEPT !.users = @ \o more(i)]
           map    == [i \in ids |-> new(i)]
           g      == InsertInst(f, inst)
<1>1. IsFunc(f)
  BY FuncSetIsFunc
<1>2. id \in Nat /\ ids = 0 .. id
  BY <1>1 DEF IsFunc
<1>3. ASSUME NEW i \in ids PROVE new(i) \in InstData
  <2>1. old(i) \in InstData
    BY <1>1, <1>3 DEF IsFunc
  <2>2. more(i) \in Seq(Nat)
    <3>1. Cardinality(UsesOf(inst, i)) \in Nat
      BY UsesOfCounted
    <3> QED BY <1>2, <3>1
  <2>3. old(i).users \in Seq(Nat)
    BY <2>1 DEF InstData
  <2>4. old(i).users \o more(i) \in Seq(Nat)
    BY <2>2, <2>3, ConcatProperties
  <2> HIDE DEF old, more
  <2> QED BY <2>1, <2>4 DEF InstData
<1>4. map \in [0 .. id + 1 - 1 -> InstData]
  <2> HIDE DEF new
  <2> QED BY <1>2, <1>3
<1>5. Append(f.inst_list, id) \in Seq(Nat)
  BY <1>1, <1>2, AppendProperties DEF IsFunc
<1>6. g = [f EXCEPT !.next_inst_id = id + 1, !.inst_map = map,
                    !.inst_list = Append(@, id)]
  BY DEF InsertInst
<1>7. /\ g = [next_inst_id |-> id + 1, inst_map |-> map,
              inst_list |-> Append(f.inst_list, id), ir_blocks |-> f.ir_blocks]
      /\ f.ir_blocks \in Nat
  <2> HIDE DEF map, id, g
  <2> QED BY <1>1, <1>6 DEF IsFunc
<1>8. IsFunc(g)
  <2> HIDE DEF map, id, g
  <2> QED BY <1>2, <1>4, <1>5, <1>7 DEF IsFunc
<1> QED BY <1>7, <1>8, FuncSetIsFunc

-----------------------------------------------------------------------------
(* Symbol tables.                                                          *)

\* The tables of the names that have been declared, over given objects.
TableSet(objs) == UNION {[D -> objs] : D \in SUBSET Names}

\* HashMap::insert.
LEMMA PutIsTable ==
  ASSUME NEW objs, NEW table \in TableSet(objs), NEW n \in Names, NEW obj \in objs
  PROVE  Put(table, n, obj) \in TableSet(objs)
<1>1. PICK D \in SUBSET Names : table \in [D -> objs]
  BY DEF TableSet
<1>2. Put(table, n, obj) \in [D \cup {n} -> objs]
  BY <1>1 DEF Put
<1>3. D \cup {n} \in SUBSET Names
  OBVIOUS
<1> QED BY <1>2, <1>3 DEF TableSet

LEMMA EmptyTableIsTable ==
  ASSUME NEW objs
  PROVE  EmptyTable \in TableSet(objs) /\ DOMAIN EmptyTable = {}
<1>1. EmptyTable \in [{} -> objs] /\ DOMAIN EmptyTable = {}
  BY DEF EmptyTable
<1> QED BY <1>1 DEF TableSet

\* The contexts whose constants and pointers are in given sets, of functions
\* in a given set.
ContextSet(F, consts, pointers) ==
  [func : F, ir_block : BOOLEAN,
   global_const_table   : TableSet(consts),
   global_pointer_table : TableSet(pointers)]

LEMMA NewContextIsContext ==
  ASSUME NEW F, NEW consts, NEW pointers, NEW f \in F, NEW b \in BOOLEAN
  PROVE  NewContext(f, b) \in ContextSet(F, consts, pointers)
  BY EmptyTableIsTable DEF NewContext, ContextSet

-----------------------------------------------------------------------------
(* The context stack.                                                      *)

\* enter_block_scope with the function's first block, and with another one.
LEMMA EnterBlockScopeFirst ==
  ASSUME NEW F, NEW consts, NEW pointers, NEW f \in F
  PROVE  LET st == EnterBlockScope(EnterFuncScope(<<>>, f))
         IN /\ st \in Seq(ContextSet(F, consts, pointers)) /\ Len(st) = 1
            /\ st[1].func = f /\ st[1].ir_block = TRUE
            /\ DOMAIN st[1].global_const_table = {}
            /\ DOMAIN st[1].global_pointer_table = {}
<1> DEFINE C == ContextSet(F, consts, pointers)
           c == NewContext(f, FALSE)
           s == EnterFuncScope(<<>>, f)
           k == Len(s)
           d == [s[k] EXCEPT !.ir_block = TRUE]
           t == EnterBlockScope(s)
<1>1. c \in C
  BY NewContextIsContext
<1>2. s \in Seq(C) /\ k = 1 /\ s[k] = c
  <2>1. <<>> \in Seq(C) /\ Len(<<>>) = 0
    BY EmptySeq
  <2> HIDE DEF C, c
  <2>2. Append(<<>>, c) \in Seq(C) /\ Len(Append(<<>>, c)) = 1 /\ Append(<<>>, c)[1] = c
    BY <1>1, <2>1, AppendProperties
  <2> QED BY <2>2 DEF EnterFuncScope, c
<1>3. d \in C /\ d.func = f /\ d.ir_block = TRUE
      /\ d.global_const_table = EmptyTable /\ d.global_pointer_table = EmptyTable
  <2>1. c.func = f /\ c.global_const_table = EmptyTable /\ c.global_pointer_table = EmptyTable
    BY DEF NewContext
  <2> HIDE DEF s, k, c
  <2> QED BY <1>1, <1>2, <2>1 DEF ContextSet
<1>4. t = [s EXCEPT ![k] = d]
  <2>1. Last(s).ir_block = FALSE
    BY <1>2 DEF Last, NewContext
  <2> QED BY <2>1 DEF EnterBlockScope
<1> HIDE DEF C, c, d, s, k, t
<1>5. t \in Seq(C) /\ Len(t) = k /\ t[k] = d
  <2>1. k \in 1 .. Len(s) /\ Len(s) = k
    BY <1>2 DEF k
  <2>2. s \in Seq(C) /\ d \in C
    BY <1>2, <1>3
  <2>3. [s EXCEPT ![k] = d] \in Seq(C) /\ Len([s EXCEPT ![k] = d]) = Len(s)
    BY <2>1, <2>2, ExceptSeq
  <2>4. \A j \in 1 .. Len(s) : [s EXCEPT ![k] = d][j] = IF j = k THEN d ELSE s[j]
    BY <2>1, <2>2, ExceptSeq
  <2> QED BY <1>4, <2>1, <2>3, <2>4
<1>6. DOMAIN EmptyTable = {}
  BY DEF EmptyTable
<1> QED BY <1>2, <1>3, <1>5, <1>6 DEF C, s, t

LEMMA EnterBlockScopeNested ==
  ASSUME NEW F, NEW consts, NEW pointers,
         NEW st \in Seq(ContextSet(F, consts, pointers)), st # <<>>,
         Last(st).ir_block
  PROVE  LET c == NewContext(Last(st).func, TRUE)
         IN /\ EnterBlockScope(st) = Append(st, c)
            /\ c \in ContextSet(F, consts, pointers)
<1>1. Last(st) \in ContextSet(F, consts, pointers)
  BY LastAndFront
<1>2. Last(st).func \in F
  BY <1>1 DEF ContextSet
<1> QED BY <1>2, NewContextIsContext DEF EnterBlockScope

\* An entry in a table of the innermost context keeps everything but the table.
LEMMA InsertConstIsStack ==
  ASSUME NEW F, NEW consts, NEW pointers,
         NEW st \in Seq(ContextSet(F, consts, pointers)), st # <<>>,
         NEW n \in Names, NEW obj \in consts
  PROVE  LET t == InsertConst(st, n, obj)
         IN /\ t \in Seq(ContextSet(F, consts, pointers)) /\ Len(t) = Len(st)
            /\ \A i \in 1 .. Len(st) :
                 /\ t[i].func = st[i].func /\ t[i].ir_block = st[i].ir_block
                 /\ t[i].global_pointer_table = st[i].global_pointer_table
                 /\ DOMAIN t[i].global_const_table =
                      DOMAIN st[i].global_const_table \cup (IF i = Len(st) THEN {n} ELSE {})
<1> DEFINE C  == ContextSet(F, consts, pointers)
           k  == Len(st)
           tb == Put(st[k].global_const_table, n, obj)
           c  == [st[k] EXCEPT !.global_const_table = tb]
           t  == InsertConst(st, n, obj)
<1>1. k \in Nat \ {0} /\ st[k] \in C /\ DOMAIN st = 1 .. k /\ st \in Seq(C)
  BY LastAndFront, LenProperties
<1>2. st[k].global_const_table \in TableSet(consts)
  BY <1>1 DEF ContextSet
<1>3. tb \in TableSet(consts) /\ DOMAIN tb = DOMAIN st[k].global_const_table \cup {n}
  <2>1. tb \in TableSet(consts)
    BY <1>2, PutIsTable
  <2>2. DOMAIN tb = DOMAIN st[k].global_const_table \cup {n}
    BY DEF Put
  <2> QED BY <2>1, <2>2
<1>4. c \in C /\ c.func = st[k].func /\ c.ir_block = st[k].ir_block
      /\ c.global_pointer_table = st[k].global_pointer_table /\ c.global_const_table = tb
  BY <1>1, <1>3 DEF ContextSet
<1>5. t = [st EXCEPT ![k] = c]
  BY DEF InsertConst
<1> HIDE DEF C, k, tb, c, t
<1>6. t \in Seq(C) /\ Len(t) = k /\ \A i \in 1 .. k : t[i] = IF i = k THEN c ELSE st[i]
  BY <1>1, <1>4, <1>5, ExceptSeq DEF k
<1> QED BY <1>3, <1>4, <1>6 DEF C, k, t

LEMMA InsertPointerIsStack ==
  ASSUME NEW F, NEW consts, NEW pointers,
         NEW st \in Seq(ContextSet(F, consts, pointers)), st # <<>>,
         NEW n \in Names, NEW obj \in pointers
  PROVE  LET t == InsertPointer(st, n, obj)
         IN /\ t \in Seq(ContextSet(F, consts, pointers)) /\ Len(t) = Len(st)
            /\ \A i \in 1 .. Len(st) :
                 /\ t[i].func = st[i].func /\ t[i].ir_block = st[i].ir_block
                 /\ t[i].global_const_table = st[i].global_const_table
                 /\ DOMAIN t[i].global_pointer_table =
                      DOMAIN st[i].global_pointer_table \cup (IF i = Len(st) THEN {n} ELSE {})
<1> DEFINE C  == ContextSet(F, consts, pointers)
           k  == Len(st)
           tb == Put(st[k].global_pointer_table, n, obj)
           c  == [st[k] EXCEPT !.global_pointer_table = tb]
           t  == InsertPointer(st, n, obj)
<1>1. k \in Nat \ {0} /\ st[k] \in C /\ DOMAIN st = 1 .. k /\ st \in Seq(C)
  BY LastAndFront, LenProperties
<1>2. st[k].global_pointer_table \in TableSet(pointers)
  BY <1>1 DEF ContextSet
<1>3. tb \in TableSet(pointers) /\ DOMAIN tb = DOMAIN st[k].global_pointer_table \cup {n}
  <2>1. tb \in TableSet(pointers)
    BY <1>2, PutIsTable
  <2>2. DOMAIN tb = DOMAIN st[k].global_pointer_table \cup {n}
    BY DEF Put
  <2> QED BY <2>1, <2>2
<1>4. c \in C /\ c.func = st[k].func /\ c.ir_block = st[k].ir_block
      /\ c.global_const_table = st[k].global_const_table /\ c.global_pointer_table = tb
  BY <1>1, <1>3 DEF ContextSet
<1>5. t = [st EXCEPT ![k] = c]
  BY DEF InsertPointer
<1> HIDE DEF C, k, tb, c, t
<1>6. t \in Seq(C) /\ Len(t) = k /\ \A i \in 1 .. k : t[i] = IF i = k THEN c ELSE st[i]
  BY <1>1, <1>4, <1>5, ExceptSeq DEF k
<1> QED BY <1>3, <1>4, <1>6 DEF C, k, t

\* The context that declares a name, if there is one, is a context of the
\* stack that declares it: what get_latest_const, get_latest_pointer,
\* set_pointer_initialized and find_highest_priority find.
LEMMA LatestScope ==
  ASSUME NEW S, NEW st \in Seq(S), NEW scopes \in SUBSET DOMAIN st, scopes # {}
  PROVE  Max(scopes) \in scopes /\ Max(scopes) \in 1 .. Len(st) /\ st[Max(scopes)] \in S
<1>1. DOMAIN st = 1 .. Len(st) /\ Len(st) \in Nat
  BY LenProperties
<1>2. Max(scopes) \in scopes
  BY <1>1, MaxIsLargest
<1> QED BY <1>1, <1>2, ElementOfSeq

LEMMA LatestConst ==
  ASSUME NEW F, NEW consts, NEW pointers,
         NEW st \in Seq(ContextSet(F, consts, pointers)), NEW n,
         ConstScopes(st, n) # {}
  PROVE  GetLatestConst(st, n) \in consts
<1> DEFINE k == Max(ConstScopes(st, n))
<1>1. k \in ConstScopes(st, n) /\ st[k] \in ContextSet(F, consts, pointers)
  BY LatestScope DEF ConstScopes
<1>2. n \in DOMAIN st[k].global_const_table /\ st[k].global_const_table \in TableSet(consts)
  BY <1>1 DEF ConstScopes, ContextSet
<1>3. st[k].global_const_table[n] \in consts
  BY <1>2 DEF TableSet
<1> QED BY <1>3 DEF GetLatestConst

LEMMA LatestPointer ==
  ASSUME NEW F, NEW consts, NEW pointers,
         NEW st \in Seq(ContextSet(F, consts, pointers)), NEW n,
         PointerScopes(st, n) # {}
  PROVE  GetLatestPointer(st, n) \in pointers
<1> DEFINE k == Max(PointerScopes(st, n))
<1>1. k \in PointerScopes(st, n) /\ st[k] \in ContextSet(F, consts, pointers)
  BY LatestScope DEF PointerScopes
<1>2. n \in DOMAIN st[k].global_pointer_table /\ st[k].global_pointer_table \in TableSet(pointers)
  BY <1>1 DEF PointerScopes, ContextSet
<1>3. st[k].global_pointer_table[n] \in pointers
  BY <1>2 DEF TableSet
<1> QED BY <1>3 DEF GetLatestPointer

LEMMA HighestPriority ==
  ASSUME NEW F, NEW consts, NEW pointers,
         NEW st \in Seq(ContextSet(F, consts, pointers)), NEW n
  PROVE  FindHighestPriority(st, n) \in consts \cup pointers \cup {NoObj}
<1> DEFINE scopes == ConstScopes(st, n) \cup PointerScopes(st, n)
           k == Max(scopes)
<1>1. CASE scopes = {}
  BY <1>1 DEF FindHighestPriority
<1>2. CASE scopes # {}
  <2>1. k \in scopes /\ st[k] \in ContextSet(F, consts, pointers)
    BY <1>2, LatestScope DEF ConstScopes, PointerScopes
  <2>2. /\ st[k].global_const_table \in TableSet(consts)
        /\ st[k].global_pointer_table \in TableSet(pointers)
        /\ n \in DOMAIN st[k].global_const_table \/ n \in DOMAIN st[k].global_pointer_table
    BY <2>1 DEF ConstScopes, PointerScopes, ContextSet
  <2>3. /\ n \in DOMAIN st[k].global_const_table => st[k].global_const_table[n] \in consts
        /\ n \in DOMAIN st[k].global_pointer_table => st[k].global_pointer_table[n] \in pointers
    BY <2>2 DEF TableSet
  <2>4. FindHighestPriority(st, n) =
          IF n \in DOMAIN st[k].global_pointer_table
          THEN st[k].global_pointer_table[n] ELSE st[k].global_const_table[n]
    BY <1>2 DEF FindHighestPriority
  <2> QED BY <2>2, <2>3, <2>4
<1> QED BY <1>1, <1>2

\* set_pointer_initialized changes nothing but a flag.
LEMMA SetInitializedIsStack ==
  ASSUME NEW F, NEW consts, NEW pointers,
         NEW st \in Seq(ContextSet(F, consts, pointers)), NEW n,
         PointerScopes(st, n) # {},
         \A p \in pointers : [p EXCEPT !.initialized = TRUE] \in pointers
  PROVE  LET t == SetPointerInitialized(st, n)
         IN /\ t \in Seq(ContextSet(F, consts, pointers)) /\ Len(t) = Len(st)
            /\ \A i \in 1 .. Len(st) :
                 /\ t[i].func = st[i].func /\ t[i].ir_block = st[i].ir_block
                 /\ t[i].global_const_table = st[i].global_const_table
                 /\ DOMAIN t[i].global_pointer_table = DOMAIN st[i].global_pointer_table
<1> DEFINE C  == ContextSet(F, consts, pointers)
           k  == Max(PointerScopes(st, n))
           p  == st[k].global_pointer_table
           tb == [p EXCEPT ![n] = [p[n] EXCEPT !.initialized = TRUE]]
           c  == [st[k] EXCEPT !.global_pointer_table = tb]
           t  == SetPointerInitialized(st, n)
<1>1. k \in PointerScopes(st, n) /\ k \in 1 .. Len(st) /\ st[k] \in C /\ st \in Seq(C)
  BY LatestScope DEF PointerScopes
<1>2. n \in DOMAIN p /\ p \in TableSet(pointers)
  BY <1>1 DEF PointerScopes, ContextSet
<1>3. tb \in TableSet(pointers) /\ DOMAIN tb = DOMAIN p
  <2>1. PICK D \in SUBSET Names : p \in [D -> pointers]
    BY <1>2 DEF TableSet
  <2>2. tb \in [D -> pointers]
    BY <2>1, <1>2
  <2> QED BY <2>1, <2>2 DEF TableSet
<1>4. c \in C /\ c.func = st[k].func /\ c.ir_block = st[k].ir_block
      /\ c.global_const_table = st[k].global_const_table /\ c.global_pointer_table = tb
  BY <1>1, <1>3 DEF ContextSet
<1>5. t = [st EXCEPT ![k] = c]
  BY DEF SetPointerInitialized
<1> HIDE DEF C, k, tb, c, t
<1>6. t \in Seq(C) /\ Len(t) = Len(st)
      /\ \A i \in 1 .. Len(st) : t[i] = IF i = k THEN c ELSE st[i]
  BY <1>1, <1>4, <1>5, ExceptSeq
<1> QED BY <1>3, <1>4, <1>6 DEF C, t

-----------------------------------------------------------------------------
(* The invariant.                                                          *)

\* What tables and expressions hold, as sets.
Consts   == {obj \in IRObj : IsConst(obj)}
Pointers == {obj \in IRObj : IsPointer(obj)}
Results  == {obj \in IRObj : IsResult(obj)}

Contexts == ContextSet(1 .. Len(funcs), Consts, Pointers)

\* The function being parsed, while one is.
Top == funcs[Len(funcs)]

TypeInv ==
  /\ stack \in Seq(Contexts)
  /\ nextPtr \in Nat /\ funcs \in Seq(FuncSet)
  /\ open \in Nat /\ stmt \in Stmt /\ vals \in Seq(Results)
  /\ status \in Status /\ items \in Nat /\ nodes \in Nat

Inv ==
  /\ TypeInv /\ ScopesBalanced /\ OneDeclarationPerScope /\ NoInternalPanic
  /\ SuspendedCanResume

LEMMA TypeInvTypeOK == TypeInv => TypeOK
<1> SUFFICES ASSUME TypeInv PROVE TypeOK
  OBVIOUS
<1>1. Len(funcs) \in Nat /\ DOMAIN funcs = 1 .. Len(funcs)
  BY LenProperties DEF TypeInv
<1>2. stack \in Seq(Range(stack)) /\ Range(stack) \subseteq Contexts
  BY SeqOfRange, RangeOfSeq DEF TypeInv
<1>3. ASSUME NEW c \in Range(stack)
      PROVE  /\ IsContext(c) /\ c.func \in DOMAIN funcs
             /\ \A n \in DOMAIN c.global_const_table   : IsConst(c.global_const_table[n])
             /\ \A n \in DOMAIN c.global_pointer_table : IsPointer(c.global_pointer_table[n])
  <2>1. c \in ContextSet(1 .. Len(funcs), Consts, Pointers)
    BY <1>2 DEF Contexts
  <2>2. PICK D \in SUBSET Names : c.global_const_table \in [D -> Consts]
    BY <2>1 DEF ContextSet, TableSet
  <2>3. PICK E \in SUBSET Names : c.global_pointer_table \in [E -> Pointers]
    BY <2>1 DEF ContextSet, TableSet
  <2>4. IsTable(c.global_const_table)
        /\ \A n \in DOMAIN c.global_const_table : IsConst(c.global_const_table[n])
    BY <2>2 DEF IsTable, Consts
  <2>5. IsTable(c.global_pointer_table)
        /\ \A n \in DOMAIN c.global_pointer_table : IsPointer(c.global_pointer_table[n])
    BY <2>3 DEF IsTable, Pointers
  <2>6. c = [func |-> c.func, ir_block |-> c.ir_block,
             global_const_table   |-> c.global_const_table,
             global_pointer_table |-> c.global_pointer_table]
        /\ c.func \in 1 .. Len(funcs) /\ c.ir_block \in BOOLEAN
    BY <2>1 DEF ContextSet
  <2> QED BY <1>1, <2>4, <2>5, <2>6 DEF IsContext
<1>4. funcs \in Seq(Range(funcs)) /\ \A f \in Range(funcs) : IsFunc(f)
  BY SeqOfRange, RangeOfSeq, FuncSetIsFunc DEF TypeInv
<1>5. vals \in Seq(Range(vals)) /\ \A obj \in Range(vals) : IsResult(obj)
  BY SeqOfRange, RangeOfSeq DEF TypeInv, Results
<1> QED BY <1>2, <1>3, <1>4, <1>5 DEF TypeInv, TypeOK

LEMMA InitInv == Init => Inv
<1> SUFFICES ASSUME Init PROVE Inv
  OBVIOUS
<1>1. stack = <<>> /\ funcs = <<>> /\ vals = <<>> /\ stmt = NoStmt
  BY DEF Init
<1>2. stack \in Seq(Contexts) /\ funcs \in Seq(FuncSet) /\ vals \in Seq(Results)
  BY <1>1, EmptySeq
<1>3. NoStmt \in Stmt /\ NoStmt.kind = "none"
  BY DEF NoStmt, Suspended, Stmt, StmtKind
<1>4. TypeInv
  BY <1>1, <1>2, <1>3 DEF Init, TypeInv, Status
<1>5. DOMAIN stack = {} /\ Len(stack) = 0
  BY <1>1, EmptySeq
<1> QED BY <1>1, <1>3, <1>4, <1>5
        DEF Init, Inv, ScopesBalanced, OneDeclarationPerScope, NoInternalPanic, SuspendedCanResume

-----------------------------------------------------------------------------
(* Emitting instructions.                                                  *)

\* Inside a function's block the innermost context is the function's, and the
\* instructions of its graph are numbered from 0.
LEMMA InBlock ==
  ASSUME Inv, status = "run", open > 0
  PROVE  /\ Len(stack) = open /\ stack # <<>> /\ stack \in Seq(Contexts)
         /\ Last(stack) = stack[Len(stack)] /\ Last(stack) \in Contexts
         /\ Last(stack).func = Len(funcs) /\ Last(stack).ir_block = TRUE
         /\ Len(funcs) \in Nat \ {0} /\ Top \in FuncSet
         /\ Top.next_inst_id \in Nat /\ DOMAIN Top.inst_map = 0 .. Top.next_inst_id - 1
<1>1. Len(stack) = open /\ stack \in Seq(Contexts)
      /\ \A i \in DOMAIN stack : stack[i].func = Len(funcs) /\ stack[i].ir_block
  BY DEF Inv, TypeInv, ScopesBalanced
<1>2. stack # <<>>
  BY <1>1, EmptySeq
<1>3. Last(stack) = stack[Len(stack)] /\ Last(stack) \in Contexts /\ Len(stack) \in DOMAIN stack
  <2>1. /\ Len(stack) \in Nat \ {0} /\ Last(stack) \in Contexts
        /\ Last(stack) = stack[Len(stack)]
    BY <1>1, <1>2, LastAndFront
  <2> QED BY <1>1, <2>1, LenProperties
<1>4. Last(stack).func = Len(funcs) /\ Last(stack).ir_block = TRUE
      /\ Len(funcs) \in 1 .. Len(funcs)
  BY <1>1, <1>3 DEF Contexts, ContextSet
<1>5. funcs \in Seq(FuncSet) /\ Len(funcs) \in Nat
  BY LenProperties DEF Inv, TypeInv
<1>6. Top \in FuncSet
  BY <1>4, <1>5, ElementOfSeq DEF Top
<1>7. Top.next_inst_id \in Nat /\ DOMAIN Top.inst_map = 0 .. Top.next_inst_id - 1
  BY <1>6 DEF FuncSet
<1> QED BY <1>1, <1>2, <1>3, <1>4, <1>5, <1>6, <1>7

\* An instruction built from an opcode and operands of the right kinds.
LEMMA InstIsInstData ==
  ASSUME NEW typ \in BType, NEW obj \in IRObj, NEW opcode \in KoopaOpCode,
         NEW operands \in Seq(Operand)
  PROVE  /\ Inst(typ, obj, opcode, operands) \in InstData
         /\ Inst(typ, obj, opcode, operands).operands = operands
<1>1. <<>> \in Seq(Nat)
  BY EmptySeq
<1> QED BY <1>1 DEF Inst, InstData

\* Operands an instruction of the current function may have.
Known(operands) ==
  /\ operands \in Seq(Operand)
  /\ \A k \in DOMAIN operands :
       operands[k].kind = "InstId" => operands[k].val \in DOMAIN Top.inst_map

KnownOperand(o) ==
  o \in Operand /\ (o.kind = "InstId" => o.val \in DOMAIN Top.inst_map)

LEMMA KnownPair ==
  ASSUME NEW a, NEW b, KnownOperand(a), KnownOperand(b)
  PROVE  Known(<<a>>) /\ Known(<<a, b>>)
  BY DEF Known, KnownOperand

LEMMA ResultIsKnown ==
  ASSUME NEW obj \in Results
  PROVE  KnownOperand(FromParseResult(obj))
  BY DEF Results, IsResult, IsConst, KnownOperand, FromParseResult, Operand, IRObj, Top

LEMMA OtherOperands ==
  /\ KnownOperand(BTypeOperand)
  /\ \A id \in Nat : KnownOperand(PointerOperand(id))
  /\ \A c \in Int : KnownOperand(FromParseResult(ConstObj(c)))
  /\ \A obj \in Pointers : KnownOperand(FromParseResult(obj))
  BY DEF KnownOperand, BTypeOperand, PointerOperand, FromParseResult, ConstObj, Obj,
         Operand, Pointers, IsPointer, IRObj

\* insert_instruction never panics on such an instruction.
LEMMA EmitSucceeds ==
  ASSUME Inv, status = "run", open > 0,
         NEW typ \in BType, NEW obj \in IRObj, NEW opcode \in KoopaOpCode,
         NEW operands, Known(operands),
         Emit(Inst(typ, obj, opcode, operands))
  PROVE  /\ status' = "run" /\ funcs' \in Seq(FuncSet) /\ Len(funcs') = Len(funcs)
         /\ DOMAIN Top'.inst_map = DOMAIN Top.inst_map \cup {Top.next_inst_id}
<1> DEFINE inst == Inst(typ, obj, opcode, operands)
           k    == Len(funcs)
           g    == InsertInst(Top, inst)
<1>1. inst \in InstData /\ inst.operands = operands
  BY InstIsInstData DEF Known
<1>2. CanInsert(stack, funcs, inst)
  BY <1>1, InBlock DEF CanInsert, Known, Top
<1>3. status' = "run" /\ funcs' = [funcs EXCEPT ![k] = g]
  BY <1>2, InBlock DEF Emit, InsertInstruction, Top
<1>4. g \in FuncSet /\ g.next_inst_id = Top.next_inst_id + 1
  BY <1>1, InBlock, InsertInstIsFunc
<1>5. funcs \in Seq(FuncSet) /\ k \in 1 .. Len(funcs)
  BY InBlock DEF Inv, TypeInv
<1>6. DOMAIN g.inst_map = DOMAIN Top.inst_map \cup {Top.next_inst_id}
  BY <1>4, InBlock DEF FuncSet
<1> HIDE DEF inst, g
<1>7. [funcs EXCEPT ![k] = g] \in Seq(FuncSet) /\ Len([funcs EXCEPT ![k] = g]) = Len(funcs)
      /\ [funcs EXCEPT ![k] = g][k] = g
  BY <1>4, <1>5, ExceptSeq
<1> QED BY <1>3, <1>6, <1>7 DEF Top

-----------------------------------------------------------------------------
(* Expressions.                                                            *)

\* A step of an expression leaves the suspended statement and the stack alone.
LEMMA ExpStep ==
  ASSUME Inv, UNCHANGED <<stack, nextPtr, open, stmt>>, stmt.kind # "none",
         funcs' \in Seq(FuncSet), Len(funcs') = Len(funcs),
         vals' \in Seq(Results'), status' \in Status \ {"ok", "internal"},
         status = "run", items' \in Nat, nodes' \in Nat
  PROVE  Inv'
<1>1. Contexts' = Contexts
  BY DEF Contexts, Consts, Pointers, IsConst, IsPointer
<1>2. TypeInv'
  BY <1>1 DEF Inv, TypeInv
<1>3. ScopesBalanced' /\ OneDeclarationPerScope' /\ NoInternalPanic'
  BY DEF Inv, ScopesBalanced, OneDeclarationPerScope, NoInternalPanic
<1>4. SuspendedCanResume'
  BY DEF Inv, SuspendedCanResume, Redeclares
<1> QED BY <1>2, <1>3, <1>4 DEF Inv

\* An expression is parsed inside a block.
LEMMA InExp ==
  ASSUME Inv, InVarExp \/ InConstExp
  PROVE  /\ status = "run" /\ open > 0 /\ stmt.kind # "none"
         /\ InVarExp => stmt.kind # "const"
         /\ vals \in Seq(Results) /\ Len(vals) \in Nat
         /\ items \in Nat /\ nodes \in Nat /\ funcs \in Seq(FuncSet)
<1>1. vals \in Seq(Results) /\ Len(vals) \in Nat
  BY LenProperties DEF Inv, TypeInv
<1> QED BY <1>1 DEF InVarExp, InConstExp, Inv, TypeInv, SuspendedCanResume

LEMMA ReplaceTopIsSeq ==
  ASSUME NEW S, vals \in Seq(S), NEW obj \in S, NEW k \in 0 .. Len(vals)
  PROVE  ReplaceTop(k, obj) \in Seq(S)
<1> DEFINE n == Len(vals) - k
           t == SubSeq(vals, 1, n)
<1>1. Len(vals) \in Nat /\ \A i \in 1 .. Len(vals) : vals[i] \in S
  BY LenProperties, ElementOfSeq
<1>2. n \in Int /\ \A i \in 1 .. n : vals[i] \in S
  BY <1>1
<1> HIDE DEF n
<1>3. t \in Seq(S)
  BY <1>2, SubSeqProperties
<1> HIDE DEF t
<1>4. Append(t, obj) \in Seq(S)
  BY <1>3, AppendProperties
<1> QED BY <1>4 DEF ReplaceTop, t, n

\* Results stay results when the function grows, and the new instruction is one.
LEMMA EmitValueStep ==
  ASSUME Inv, InVarExp, NEW opcode \in KoopaOpCode, NEW operands, Known(operands),
         NEW k \in 0 .. Len(vals), EmitValue(opcode, operands, k),
         UNCHANGED <<stack, nextPtr, open, stmt, items>>, nodes' \in Nat
  PROVE  Inv'
<1> DEFINE result == InstIdObj(NextInstId(stack, funcs))
<1>1. status = "run" /\ open > 0 /\ stmt.kind \notin {"none", "const"}
      /\ vals \in Seq(Results) /\ items \in Nat
  BY InExp
<1>2. NextInstId(stack, funcs) = Top.next_inst_id /\ Top.next_inst_id \in Nat
  BY <1>1, InBlock DEF NextInstId, Top
<1>3. result \in IRObj /\ result.kind = "InstId" /\ result.val = Top.next_inst_id
  BY <1>2 DEF InstIdObj, Obj, IRObj
<1>4. Emit(Inst("Int", result, opcode, operands)) /\ vals' = ReplaceTop(k, result)
  BY DEF EmitValue
<1> HIDE DEF result
<1>5. /\ status' = "run" /\ funcs' \in Seq(FuncSet) /\ Len(funcs') = Len(funcs)
      /\ DOMAIN Top'.inst_map = DOMAIN Top.inst_map \cup {Top.next_inst_id}
  <2>1. "Int" \in BType
    BY DEF BType
  <2> QED BY <1>1, <1>3, <1>4, <2>1, EmitSucceeds
<1>6. Results \subseteq Results' /\ result \in Results'
  BY <1>1, <1>3, <1>5 DEF Results, IsResult, IsConst, Top
<1>7. vals \in Seq(Results')
  BY <1>1, <1>6, SeqMonotonic
<1>8. vals' \in Seq(Results')
  BY <1>4, <1>6, <1>7, ReplaceTopIsSeq
<1>9. status' \in Status \ {"ok", "internal"}
  BY <1>5 DEF Status
<1> QED BY <1>1, <1>5, <1>8, <1>9, ExpStep

LEMMA BinaryVarStep ==
  ASSUME Inv, NEW code, NEW op, BinaryVar(code, op),
         op \in DOMAIN code => code[op] \in KoopaOpCode
  PROVE  Inv'
<1>1. InVarExp /\ Len(vals) >= 2 /\ code[op] \in KoopaOpCode
      /\ EmitValue(code[op], <<FromParseResult(Left), FromParseResult(Right)>>, 2)
      /\ UNCHANGED <<stack, nextPtr, open, stmt, items, nodes>>
  BY DEF BinaryVar
<1>2. vals \in Seq(Results) /\ Len(vals) \in Nat /\ nodes \in Nat
  BY <1>1, InExp
<1>3. Left \in Results /\ Right \in Results
  BY <1>1, <1>2, ElementOfSeq DEF Left, Right
<1>4. Known(<<FromParseResult(Left), FromParseResult(Right)>>)
  BY <1>3, ResultIsKnown, KnownPair
<1> QED BY <1>1, <1>2, <1>4, EmitValueStep

\* The handlers of variable expressions.
LEMMA NumberStep ==
  ASSUME Inv, NEW c \in Literals, Number(c)
  PROVE  Inv'
<1>1. (InVarExp \/ InConstExp) /\ nodes' = nodes + 1 /\ vals' = Append(vals, ConstObj(c))
      /\ UNCHANGED <<stack, nextPtr, funcs, open, stmt, status, items>>
  BY DEF Number, CountNode
<1>2. ConstObj(c) \in Results /\ Results' = Results
  <2>1. c \in Int32
    BY IRGenAssumption, I32Range DEF Int32
  <2>2. ConstObj(c) \in IRObj /\ IsConst(ConstObj(c))
    BY <2>1, I32Range DEF IsConst, ConstObj, Obj, IRObj, Int32
  <2> QED BY <1>1, <2>2 DEF Results, IsResult, IsConst
<1>3. vals' \in Seq(Results')
  BY <1>1, <1>2, InExp, AppendProperties
<1>4. status' \in Status \ {"ok", "internal"} /\ nodes' \in Nat
  BY <1>1, InExp DEF Status
<1> QED BY <1>1, <1>3, <1>4, InExp, ExpStep

LEMMA LValVarStep ==
  ASSUME Inv, NEW n \in Names, LValVar(n)
  PROVE  Inv'
<1> DEFINE obj == FindHighestPriority(stack, n)
<1>1. InVarExp /\ nodes' = nodes + 1 /\ UNCHANGED <<stack, nextPtr, open, stmt, items>>
  BY DEF LValVar, CountNode
<1>2. obj \in Consts \cup Pointers \cup {NoObj}
  BY HighestPriority DEF Inv, TypeInv, Contexts
<1>3. vals \in Seq(Results) /\ nodes' \in Nat /\ Len(vals) \in Nat /\ funcs \in Seq(FuncSet)
      /\ status = "run" /\ stmt.kind # "none" /\ items \in Nat
  BY <1>1, InExp
<1>4. ASSUME UNCHANGED <<funcs, vals>>, status' \in {"uninitialized", "undefined"}
      PROVE  Inv'
  <2>1. Results' = Results
    BY <1>1, <1>4 DEF Results, IsResult, IsConst
  <2>2. status' \in Status \ {"ok", "internal"}
    BY <1>4 DEF Status, Rejections
  <2> QED BY <1>1, <1>3, <1>4, <2>1, <2>2, ExpStep
<1>5. ASSUME obj.kind = "Pointer", EmitValue("LOAD", <<FromParseResult(obj)>>, 0)
      PROVE  Inv'
  <2>1. obj \in Pointers
    BY <1>2, <1>5 DEF Consts, IsConst, NoObj, Obj
  <2>2. Known(<<FromParseResult(obj)>>)
    BY <2>1, OtherOperands, KnownPair
  <2>3. "LOAD" \in KoopaOpCode
    BY DEF KoopaOpCode, ValueOps
  <2> QED BY <1>1, <1>3, <1>5, <2>2, <2>3, EmitValueStep
<1>6. ASSUME obj.kind = "Const", vals' = Append(vals, obj), UNCHANGED <<funcs, status>>
      PROVE  Inv'
  <2>1. obj \in Results /\ Results' = Results
    BY <1>1, <1>2, <1>6 DEF Results, IsResult, Consts, Pointers, IsConst, IsPointer, NoObj, Obj
  <2>2. vals' \in Seq(Results')
    BY <1>3, <1>6, <2>1, AppendProperties
  <2>3. status' \in Status \ {"ok", "internal"}
    BY <1>3, <1>6 DEF Status
  <2> QED BY <1>1, <1>3, <1>6, <2>2, <2>3, ExpStep
<1> QED BY <1>4, <1>5, <1>6 DEF LValVar

LEMMA UnaryVarStep ==
  ASSUME Inv, NEW op, UnaryVar(op)
  PROVE  Inv'
<1>1. InVarExp /\ vals # <<>> /\ nodes' = nodes + 1
      /\ UNCHANGED <<stack, nextPtr, open, stmt, items>>
  BY DEF UnaryVar, CountNode
<1>2. vals \in Seq(Results) /\ nodes' \in Nat /\ Len(vals) \in Nat /\ funcs \in Seq(FuncSet)
      /\ status = "run" /\ stmt.kind # "none" /\ items \in Nat
  BY <1>1, InExp
<1>3. ASSUME UNCHANGED <<funcs, vals, status>> PROVE Inv'
  <2>1. Results' = Results
    BY <1>1, <1>3 DEF Results, IsResult, IsConst
  <2>2. status' \in Status \ {"ok", "internal"}
    BY <1>2, <1>3 DEF Status
  <2> QED BY <1>1, <1>2, <1>3, <2>1, <2>2, ExpStep
<1>4. ASSUME op \in DOMAIN UnaryCode,
             EmitValue(UnaryCode[op],
                       <<FromParseResult(ConstObj(0)), FromParseResult(Right)>>, 1)
      PROVE  Inv'
  <2>1. Right \in Results /\ 1 \in 0 .. Len(vals)
    <3>1. Len(vals) # 0
      BY <1>1, <1>2, EmptySeq
    <3> QED BY <1>2, <3>1, ElementOfSeq DEF Right
  <2>2. Known(<<FromParseResult(ConstObj(0)), FromParseResult(Right)>>)
    <3>1. KnownOperand(FromParseResult(ConstObj(0)))
      BY OtherOperands
    <3>2. KnownOperand(FromParseResult(Right))
      BY <2>1, ResultIsKnown
    <3> QED BY <3>1, <3>2, KnownPair
  <2>3. UnaryCode[op] \in KoopaOpCode
    <3>1. op \in {"Minus", "Not"} /\ UnaryCode[op] \in {"SUB", "EQ"}
      BY <1>4 DEF UnaryCode
    <3> QED BY <3>1 DEF KoopaOpCode, ValueOps
  <2> QED BY <1>1, <1>2, <1>4, <2>1, <2>2, <2>3, EmitValueStep
<1> QED BY <1>3, <1>4 DEF UnaryVar

LEMMA BinaryVarSteps ==
  ASSUME Inv, NEW op,
         \/ LOrExpVar(op) \/ LAndExpVar(op) \/ EqExpVar(op)
         \/ RelExpVar(op) \/ MulExpVar(op)  \/ AddExpVar(op)
  PROVE  Inv'
<1>1. CASE LOrExpVar(op)
  BY <1>1, BinaryVarStep DEF LOrExpVar, KoopaOpCode, ValueOps
<1>2. CASE LAndExpVar(op)
  BY <1>2, BinaryVarStep DEF LAndExpVar, KoopaOpCode, ValueOps
<1>3. CASE EqExpVar(op)
  BY <1>3, BinaryVarStep DEF EqExpVar, KoopaOpCode, ValueOps
<1>4. CASE RelExpVar(op)
  BY <1>4, BinaryVarStep DEF RelExpVar, KoopaOpCode, ValueOps
<1>5. CASE MulExpVar(op)
  BY <1>5, BinaryVarStep DEF MulExpVar, KoopaOpCode, ValueOps
<1>6. CASE AddExpVar(op)
  BY <1>6, BinaryVarStep DEF AddExpVar, KoopaOpCode, ValueOps
<1> QED BY <1>1, <1>2, <1>3, <1>4, <1>5, <1>6

\* The handlers of constant expressions: every operand is a constant, so the
\* "Non-constant in const expression" panics are out of reach.
LEMMA ConstStep ==
  ASSUME Inv, InConstExp, UNCHANGED <<stack, nextPtr, funcs, open, stmt, items>>,
         nodes' \in Nat, vals' \in Seq(Consts), status' \in Status \ {"ok", "internal"}
  PROVE  Inv'
<1>1. Consts \subseteq Results'
  BY DEF Consts, Results, IsResult, IsConst
<1>2. vals' \in Seq(Results')
  BY <1>1, SeqMonotonic
<1>3. items' \in Nat /\ funcs' \in Seq(FuncSet) /\ Len(funcs') = Len(funcs)
  BY InExp
<1> QED BY <1>2, <1>3, InExp, ExpStep

LEMMA InConst ==
  ASSUME Inv, InConstExp
  PROVE  vals \in Seq(Consts) /\ Len(vals) \in Nat /\ nodes \in Nat
         /\ \A c \in Consts : c.kind = "Const" /\ c.val \in Int32
<1>1. Results \subseteq Consts
  BY DEF InConstExp, Results, Consts, IsResult, IsConst
<1>2. vals \in Seq(Results) /\ Len(vals) \in Nat /\ nodes \in Nat
  BY InExp
<1>3. vals \in Seq(Consts)
  BY <1>1, <1>2, SeqMonotonic
<1> QED BY <1>2, <1>3 DEF Consts, IsConst

LEMMA ConstObjIsConst ==
  ASSUME NEW n \in Int32
  PROVE  ConstObj(n) \in Consts
<1>1. n \in Int
  BY I32Range DEF Int32
<1>2. ConstObj(n) \in IRObj /\ ConstObj(n).kind = "Const" /\ ConstObj(n).val = n
  BY <1>1 DEF ConstObj, Obj, IRObj
<1> QED BY <1>2 DEF Consts, IsConst

LEMMA ConstResultIsConst ==
  ASSUME Inv, InConstExp, NEW reason \in Status, NEW n, NEW k \in 0 .. Len(vals),
         ConstResult(reason, n, k), reason = "run" => n \in Int32
  PROVE  vals' \in Seq(Consts) /\ status' = reason
<1>1. status' = reason
      /\ vals' = IF reason = "run" THEN ReplaceTop(k, ConstObj(n)) ELSE vals
  BY DEF ConstResult
<1>2. CASE reason = "run"
  <2>1. vals \in Seq(Consts) /\ ConstObj(n) \in Consts
    BY <1>2, InConst, ConstObjIsConst
  <2> QED BY <1>1, <1>2, <2>1, ReplaceTopIsSeq
<1>3. CASE reason # "run"
  BY <1>1, <1>3, InConst
<1> QED BY <1>2, <1>3

LEMMA CheckedResult ==
  ASSUME NEW n \in Int
  PROVE  Checked(n) \in {"run", "overflow"} /\ Wrap(n) \in Int32
  BY WrapInt32 DEF Checked

LEMMA CheckedDivResult ==
  ASSUME NEW l \in Int32, NEW r \in Int32
  PROVE  /\ CheckedDiv(l, r) \in {"run", "overflow", "div_zero"}
         /\ CheckedDiv(l, r) = "run" => TruncDiv(l, r) \in Int32 /\ TruncRem(l, r) \in Int32
<1>1. CASE r = 0
  BY <1>1 DEF CheckedDiv
<1>2. CASE r # 0 /\ l = MinInt /\ r = -1
  BY <1>2 DEF CheckedDiv
<1>3. CASE r # 0 /\ ~ (l = MinInt /\ r = -1)
  <2>1. CheckedDiv(l, r) = "run"
    BY <1>3 DEF CheckedDiv
  <2>2. TruncDiv(l, r) \in Int32 /\ TruncRem(l, r) \in Int32
    BY <1>3, TruncDivInt32, TruncRemInt32
  <2> QED BY <2>1, <2>2
<1> QED BY <1>1, <1>2, <1>3

LEMMA LValConstStep ==
  ASSUME Inv, NEW n \in Names, LValConst(n)
  PROVE  Inv'
<1>1. InConstExp /\ nodes' = nodes + 1 /\ UNCHANGED <<stack, nextPtr, funcs, open, stmt, items>>
  BY DEF LValConst, CountNode
<1>2. vals \in Seq(Consts) /\ nodes' \in Nat /\ status = "run"
  BY <1>1, InConst DEF InConstExp
<1>3. CASE GetLatestConst(stack, n) # NoObj
  <2>1. vals' = Append(vals, GetLatestConst(stack, n)) /\ status' = status
    BY <1>3 DEF LValConst
  <2>2. GetLatestConst(stack, n) \in Consts
    <3>1. ConstScopes(stack, n) # {}
      BY <1>3 DEF GetLatestConst
    <3>2. stack \in Seq(ContextSet(1 .. Len(funcs), Consts, Pointers))
      BY DEF Inv, TypeInv, Contexts
    <3> QED BY <3>1, <3>2, LatestConst
  <2>3. vals' \in Seq(Consts)
    BY <1>2, <2>1, <2>2, AppendProperties
  <2>4. status' \in Status \ {"ok", "internal"}
    BY <1>2, <2>1 DEF Status
  <2> QED BY <1>1, <1>2, <2>3, <2>4, ConstStep
<1>4. CASE GetLatestConst(stack, n) = NoObj
  <2>1. vals' = vals /\ status' \in Status \ {"ok", "internal"}
    BY <1>4 DEF LValConst, Status, Rejections
  <2> QED BY <1>1, <1>2, <2>1, ConstStep
<1> QED BY <1>3, <1>4

LEMMA UnaryConstStep ==
  ASSUME Inv, NEW op \in UnaryOps, UnaryConst(op)
  PROVE  Inv'
<1>1. InConstExp /\ vals # <<>> /\ nodes' = nodes + 1
      /\ UNCHANGED <<stack, nextPtr, funcs, open, stmt, items>>
  BY DEF UnaryConst, CountNode
<1>2. vals \in Seq(Consts) /\ Len(vals) \in Nat /\ nodes' \in Nat
  BY <1>1, InConst
<1>3. Right \in Consts /\ 1 \in 0 .. Len(vals)
  <2>1. Len(vals) # 0
    BY <1>1, <1>2, EmptySeq
  <2> QED BY <1>2, <2>1, ElementOfSeq DEF Right
<1>4. Right.kind = "Const" /\ Right.val \in Int32 /\ -Right.val \in Int
  BY <1>1, <1>3, InConst, I32Range DEF Int32
<1>5. PICK reason, n :
        /\ reason \in Status \ {"ok", "internal"} /\ ConstResult(reason, n, 1)
        /\ reason = "run" => n \in Int32
  <2>1. CASE op = "Plus"
    BY <1>4, <2>1 DEF UnaryConst, Status
  <2>2. CASE op = "Minus"
    <3>1. ConstResult(Checked(-Right.val), Wrap(-Right.val), 1)
      BY <1>4, <2>2 DEF UnaryConst
    <3> QED BY <1>4, <3>1, CheckedResult DEF Status, Rejections
  <2>3. CASE op = "Not"
    BY <1>4, <2>3 DEF UnaryConst, Status, Rejections
  <2> QED BY <2>1, <2>2, <2>3 DEF UnaryOps
<1>6. vals' \in Seq(Consts) /\ status' = reason
  BY <1>1, <1>3, <1>5, ConstResultIsConst
<1> QED BY <1>1, <1>2, <1>5, <1>6, ConstStep

\* Every binary handler: two constants go, and what Rust computes comes, or
\* the arithmetic panics.
LEMMA BinaryConstStep ==
  ASSUME Inv, NEW ops, NEW op, NEW reason \in Status \ {"ok", "internal"}, NEW n,
         BinaryConst(ops, op, reason, n), reason = "run" => n \in Int32
  PROVE  Inv'
<1>1. InConstExp /\ Len(vals) >= 2
      /\ UNCHANGED <<stack, nextPtr, funcs, open, stmt, items, nodes>>
  BY DEF BinaryConst
<1>2. vals \in Seq(Consts) /\ Len(vals) \in Nat /\ nodes \in Nat
  BY <1>1, InConst
<1>3. Left.kind = "Const" /\ Right.kind = "Const" /\ 2 \in 0 .. Len(vals)
  <2>1. Left \in Consts /\ Right \in Consts
    BY <1>1, <1>2, ElementOfSeq DEF Left, Right
  <2> QED BY <1>1, <1>2, <2>1, InConst
<1>4. ConstResult(reason, n, 2)
  BY <1>3 DEF BinaryConst
<1>5. vals' \in Seq(Consts) /\ status' = reason
  BY <1>1, <1>3, <1>4, ConstResultIsConst
<1> QED BY <1>1, <1>2, <1>5, ConstStep

LEMMA OperandsAreInt32 ==
  ASSUME Inv, InConstExp, Len(vals) >= 2
  PROVE  Left.val \in Int32 /\ Right.val \in Int32 /\ Left.val \in Int /\ Right.val \in Int
<1>1. vals \in Seq(Consts) /\ Len(vals) \in Nat
  BY InConst
<1>2. Left \in Consts /\ Right \in Consts
  BY <1>1, ElementOfSeq DEF Left, Right
<1>3. Left.val \in Int32 /\ Right.val \in Int32
  BY <1>2, InConst
<1> QED BY <1>3, I32Range DEF Int32

LEMMA LogicConstSteps ==
  ASSUME Inv, NEW op,
         LOrExpConst(op) \/ LAndExpConst(op) \/ EqExpConst(op) \/ RelExpConst(op)
  PROVE  Inv'
<1>1. "run" \in Status \ {"ok", "internal"}
  BY DEF Status
<1>2. InConstExp /\ Len(vals) >= 2
  BY DEF LOrExpConst, LAndExpConst, EqExpConst, RelExpConst, BinaryConst
<1>3. PICK ops, b : BinaryConst(ops, op, "run", Truth(b))
  BY DEF LOrExpConst, LAndExpConst, EqExpConst, RelExpConst
<1>4. Truth(b) \in Int32
  BY I32Range DEF Truth, Int32
<1> QED BY <1>1, <1>3, <1>4, BinaryConstStep

LEMMA ArithmeticConstSteps ==
  ASSUME Inv, NEW op, MulExpConst(op) \/ AddExpConst(op)
  PROVE  Inv'
<1> DEFINE l == Left.val
           r == Right.val
<1>1. InConstExp /\ Len(vals) >= 2
  BY DEF MulExpConst, AddExpConst, BinaryConst
<1>2. l \in Int32 /\ r \in Int32 /\ l \in Int /\ r \in Int
  BY <1>1, OperandsAreInt32
<1>3. \/ \E m \in {l * r, l + r, l - r} : \E ops : BinaryConst(ops, op, Checked(m), Wrap(m))
      \/ \E m \in {TruncDiv(l, r), TruncRem(l, r)} : \E ops :
           BinaryConst(ops, op, CheckedDiv(l, r), m)
  <2>1. CASE MulExpConst(op)
    <3>1. op \in {"Mul", "Div", "Mod"}
      BY <2>1 DEF MulExpConst, BinaryConst
    <3>2. CASE op = "Mul"
      BY <2>1, <3>2 DEF MulExpConst
    <3>3. CASE op = "Div"
      BY <2>1, <3>3 DEF MulExpConst
    <3>4. CASE op = "Mod"
      BY <2>1, <3>4 DEF MulExpConst
    <3> QED BY <3>1, <3>2, <3>3, <3>4
  <2>2. CASE AddExpConst(op)
    BY <2>2 DEF AddExpConst
  <2> QED BY <2>1, <2>2
<1>4. l * r \in Int /\ l + r \in Int /\ l - r \in Int
  BY <1>2
<1> HIDE DEF l, r
<1>5. {"run", "overflow", "div_zero"} \subseteq Status \ {"ok", "internal"}
  BY DEF Status, Rejections
<1>6. ASSUME NEW m \in {l * r, l + r, l - r}, NEW ops,
             BinaryConst(ops, op, Checked(m), Wrap(m))
      PROVE  Inv'
  <2>1. Checked(m) \in Status \ {"ok", "internal"} /\ Wrap(m) \in Int32
    BY <1>4, <1>5, CheckedResult
  <2> QED BY <1>6, <2>1, BinaryConstStep
<1>7. ASSUME NEW m \in {TruncDiv(l, r), TruncRem(l, r)}, NEW ops,
             BinaryConst(ops, op, CheckedDiv(l, r), m)
      PROVE  Inv'
  <2>1. CheckedDiv(l, r) \in Status \ {"ok", "internal"}
        /\ (CheckedDiv(l, r) = "run" => m \in Int32)
    BY <1>2, <1>5, CheckedDivResult
  <2> QED BY <1>7, <2>1, BinaryConstStep
<1> QED BY <1>3, <1>6, <1>7

LEMMA ExpsStep == Inv /\ Exps => Inv'
<1> SUFFICES ASSUME Inv, Exps PROVE Inv'
  OBVIOUS
<1>1. CASE \E c \in Literals : Number(c)
  BY <1>1, NumberStep
<1>2. CASE \E n \in Names : LValVar(n) \/ LValConst(n)
  BY <1>2, LValVarStep, LValConstStep
<1>3. CASE \E op \in Operators \cap UnaryOps : UnaryVar(op) \/ UnaryConst(op)
  BY <1>3, UnaryVarStep, UnaryConstStep
<1>4. CASE \E op \in Operators \ UnaryOps :
             \/ LOrExpVar(op)   \/ LAndExpVar(op)   \/ EqExpVar(op)
             \/ RelExpVar(op)   \/ MulExpVar(op)    \/ AddExpVar(op)
             \/ LOrExpConst(op) \/ LAndExpConst(op) \/ EqExpConst(op)
             \/ RelExpConst(op) \/ MulExpConst(op)  \/ AddExpConst(op)
  BY <1>4, BinaryVarSteps, LogicConstSteps, ArithmeticConstSteps
<1> QED BY <1>1, <1>2, <1>3, <1>4 DEF Exps

-----------------------------------------------------------------------------
(* Declarations and statements.                                            *)

\* A step between the items of a block keeps every context's function.
LEMMA ItemStep ==
  ASSUME Inv, status = "run", open > 0, open' = open, nextPtr' \in Nat,
         stack' \in Seq(Contexts), Len(stack') = Len(stack),
         \A i \in 1 .. Len(stack) :
           stack'[i].func = stack[i].func /\ stack'[i].ir_block = stack[i].ir_block,
         funcs' \in Seq(FuncSet), Len(funcs') = Len(funcs),
         stmt' \in Stmt, vals' = <<>>, status' \in Status \ {"ok", "internal"},
         items' \in Nat, nodes' \in Nat,
         OneDeclarationPerScope', SuspendedCanResume'
  PROVE  Inv'
<1>1. Contexts' = Contexts
  BY DEF Contexts, Consts, Pointers, IsConst, IsPointer
<1>2. vals' \in Seq(Results')
  BY EmptySeq
<1>3. TypeInv'
  BY <1>1, <1>2 DEF Inv, TypeInv
<1>4. ScopesBalanced'
  <2>1. Len(stack) = open /\ stack \in Seq(Contexts)
        /\ \A i \in DOMAIN stack : stack[i].func = Len(funcs) /\ stack[i].ir_block
    BY InBlock DEF Inv, ScopesBalanced
  <2>2. DOMAIN stack = 1 .. Len(stack) /\ DOMAIN stack' = 1 .. Len(stack)
    BY <2>1, LenProperties
  <2> QED BY <2>1, <2>2 DEF ScopesBalanced
<1>5. NoInternalPanic'
  BY DEF NoInternalPanic
<1> QED BY <1>3, <1>4, <1>5 DEF Inv

\* Where an item begins, and where its expression is complete.
LEMMA InItem ==
  ASSUME Inv, AtItem
  PROVE  /\ status = "run" /\ open > 0 /\ vals = <<>> /\ stmt.kind = "none"
         /\ stack \in Seq(Contexts) /\ funcs \in Seq(FuncSet) /\ nextPtr \in Nat
         /\ items \in Nat /\ nodes \in Nat /\ open \in Nat /\ stmt \in Stmt
  BY DEF AtItem, Inv, TypeInv, SuspendedCanResume

LEMMA InComplete ==
  ASSUME Inv, NEW kind, kind # "none", Complete(kind)
  PROVE  /\ status = "run" /\ open > 0 /\ stmt.kind = kind
         /\ vals[1] \in Results /\ KnownOperand(FromParseResult(vals[1]))
         /\ stack \in Seq(Contexts) /\ stack # <<>> /\ Len(stack) \in DOMAIN stack
         /\ funcs \in Seq(FuncSet) /\ nextPtr \in Nat
         /\ items \in Nat /\ nodes \in Nat /\ stmt \in Stmt
<1>1. status = "run" /\ open > 0 /\ stmt.kind = kind /\ vals \in Seq(Results) /\ Len(vals) = 1
      /\ funcs \in Seq(FuncSet) /\ nextPtr \in Nat /\ items \in Nat /\ nodes \in Nat
      /\ stmt \in Stmt
  BY DEF Complete, Inv, TypeInv, SuspendedCanResume
<1>2. vals[1] \in Results
  <2>1. 1 \in 1 .. Len(vals) /\ vals \in Seq(Results)
    BY <1>1
  <2> QED BY <2>1, ElementOfSeq
<1>3. KnownOperand(FromParseResult(vals[1]))
  BY <1>2, ResultIsKnown
<1>4. stack \in Seq(Contexts) /\ stack # <<>>
  BY <1>1, InBlock
<1>5. Len(stack) \in DOMAIN stack
  BY <1>4, LastAndFront, LenProperties
<1> QED BY <1>1, <1>2, <1>3, <1>4, <1>5

LEMMA NoStmtIsStmt == NoStmt \in Stmt /\ NoStmt.kind = "none"
  BY DEF NoStmt, Suspended, Stmt, StmtKind

\* An item that leaves the tables alone.
LEMMA SameTables ==
  ASSUME Inv, status = "run", open > 0, UNCHANGED <<stack, open>>, nextPtr' \in Nat,
         funcs' \in Seq(FuncSet), Len(funcs') = Len(funcs),
         stmt' \in Stmt, vals' = <<>>, status' \in Status \ {"ok", "internal"},
         items' \in Nat, nodes' \in Nat,
         stmt'.kind \in {"const", "var"} => stmt'.name \in Names /\ ~Redeclares(stmt'.name),
         stmt'.kind = "assign" =>
           stmt'.name \in Names /\ PointerScopes(stack, stmt'.name) # {}
  PROVE  Inv'
<1>1. stack \in Seq(Contexts)
  BY InBlock
<1>2. OneDeclarationPerScope' /\ SuspendedCanResume'
  BY DEF Inv, OneDeclarationPerScope, SuspendedCanResume, Redeclares
<1> QED BY <1>1, <1>2, ItemStep

LEMMA BeginConstDefStep ==
  ASSUME Inv, NEW n \in Names, BeginConstDef(n)
  PROVE  Inv'
<1>1. AtItem /\ items' = items + 1
      /\ UNCHANGED <<stack, nextPtr, funcs, open, vals, nodes>>
  BY DEF BeginConstDef, CountItemAndExp, CountItem
<1>2. CASE ~Redeclares(n) /\ stmt' = Suspended("const", n, 0) /\ UNCHANGED status
  <2>1. stmt' \in Stmt /\ stmt'.kind = "const" /\ stmt'.name = n
    BY <1>2 DEF Suspended, Stmt, StmtKind
  <2>2. status' \in Status \ {"ok", "internal"}
    BY <1>1, <1>2, InItem DEF Status
  <2> QED BY <1>1, <1>2, <2>1, <2>2, InItem, SameTables
<1>3. CASE status' = "redeclared" /\ UNCHANGED stmt
  <2>1. status' \in Status \ {"ok", "internal"}
    BY <1>3 DEF Status, Rejections
  <2> QED BY <1>1, <1>3, <2>1, InItem, SameTables
<1> QED BY <1>2, <1>3 DEF BeginConstDef

\* The name was free when the definition was checked and is free still.
LEMMA EndConstDefStep == ASSUME Inv, EndConstDef PROVE Inv'
<1>1. Complete("const") /\ stack' = InsertConst(stack, stmt.name, vals[1])
      /\ stmt' = NoStmt /\ vals' = <<>>
      /\ UNCHANGED <<nextPtr, funcs, open, status, items, nodes>>
  BY DEF EndConstDef
<1>2. stmt.kind = "const" /\ stmt.name \in Names /\ ~Redeclares(stmt.name)
  BY <1>1 DEF Complete, Inv, SuspendedCanResume
<1>3. vals[1] \in Consts
  BY <1>1, <1>2, InComplete DEF Results, Consts, IsResult, IsConst
<1>4. stack \in Seq(ContextSet(1 .. Len(funcs), Consts, Pointers)) /\ stack # <<>>
  BY <1>1, InComplete DEF Contexts
<1>5. /\ stack' \in Seq(Contexts) /\ Len(stack') = Len(stack)
      /\ \A i \in 1 .. Len(stack) :
           /\ stack'[i].func = stack[i].func /\ stack'[i].ir_block = stack[i].ir_block
           /\ stack'[i].global_pointer_table = stack[i].global_pointer_table
           /\ DOMAIN stack'[i].global_const_table =
                DOMAIN stack[i].global_const_table
                  \cup (IF i = Len(stack) THEN {stmt.name} ELSE {})
  BY <1>1, <1>2, <1>3, <1>4, InsertConstIsStack DEF Contexts
<1>6. OneDeclarationPerScope'
  <2>1. DOMAIN stack = 1 .. Len(stack) /\ DOMAIN stack' = 1 .. Len(stack)
    BY <1>4, <1>5, LenProperties
  <2>2. stmt.name \notin DOMAIN stack[Len(stack)].global_pointer_table
    BY <1>1, <1>2, InComplete DEF Redeclares, GetCurrentPointer, PointerScopes
  <2>3. \A i \in 1 .. Len(stack) :
          DOMAIN stack[i].global_const_table \cap DOMAIN stack[i].global_pointer_table = {}
    BY <2>1 DEF Inv, OneDeclarationPerScope
  <2> QED BY <1>5, <2>1, <2>2, <2>3 DEF OneDeclarationPerScope
<1>7. SuspendedCanResume' /\ stmt' \in Stmt
  BY <1>1, NoStmtIsStmt DEF SuspendedCanResume
<1>8. status' \in Status \ {"ok", "internal"}
  BY <1>1, InComplete DEF Status
<1> QED BY <1>1, <1>5, <1>6, <1>7, <1>8, InComplete, ItemStep

\* An entry in a pointer table, by a definition that found the name free.
LEMMA DeclarePointer ==
  ASSUME Inv, status = "run", open > 0, NEW n \in Names, ~Redeclares(n),
         NEW p \in Pointers, stack' = InsertPointer(stack, n, p)
  PROVE  /\ stack' \in Seq(Contexts) /\ Len(stack') = Len(stack)
         /\ \A i \in 1 .. Len(stack) :
              stack'[i].func = stack[i].func /\ stack'[i].ir_block = stack[i].ir_block
         /\ OneDeclarationPerScope'
<1>1. stack \in Seq(ContextSet(1 .. Len(funcs), Consts, Pointers)) /\ stack # <<>>
  BY InBlock DEF Contexts
<1>2. /\ stack' \in Seq(Contexts) /\ Len(stack') = Len(stack)
      /\ \A i \in 1 .. Len(stack) :
           /\ stack'[i].func = stack[i].func /\ stack'[i].ir_block = stack[i].ir_block
           /\ stack'[i].global_const_table = stack[i].global_const_table
           /\ DOMAIN stack'[i].global_pointer_table =
                DOMAIN stack[i].global_pointer_table
                  \cup (IF i = Len(stack) THEN {n} ELSE {})
  BY <1>1, InsertPointerIsStack DEF Contexts
<1>3. DOMAIN stack = 1 .. Len(stack) /\ DOMAIN stack' = 1 .. Len(stack)
      /\ Len(stack) \in 1 .. Len(stack)
  BY <1>1, <1>2, LastAndFront, LenProperties
<1>4. n \notin DOMAIN stack[Len(stack)].global_const_table
  BY <1>3 DEF Redeclares, GetCurrentConst, ConstScopes
<1>5. \A i \in 1 .. Len(stack) :
        DOMAIN stack[i].global_const_table \cap DOMAIN stack[i].global_pointer_table = {}
  BY <1>3 DEF Inv, OneDeclarationPerScope
<1>6. ASSUME NEW i \in 1 .. Len(stack)
      PROVE  DOMAIN stack'[i].global_const_table
               \cap DOMAIN stack'[i].global_pointer_table = {}
  <2>1. CASE i = Len(stack)
    BY <1>2, <1>4, <1>5, <2>1
  <2>2. CASE i # Len(stack)
    BY <1>2, <1>5, <2>2
  <2> QED BY <2>1, <2>2
<1>7. OneDeclarationPerScope'
  BY <1>3, <1>6 DEF OneDeclarationPerScope
<1> QED BY <1>2, <1>7

LEMMA PointerObjIsPointer ==
  ASSUME NEW initialized \in BOOLEAN, NEW id \in Nat
  PROVE  PointerObj(initialized, id) \in IRObj /\ PointerObj(initialized, id) \in Pointers
  BY DEF PointerObj, IRObj, Pointers, IsPointer

\* VarDef::parse allocates: a new pointer and an ALLOC instruction.
LEMMA AllocSucceeds ==
  ASSUME Inv, AtItem, NEW initialized \in BOOLEAN, Alloc(initialized)
  PROVE  /\ status' = "run" /\ funcs' \in Seq(FuncSet) /\ Len(funcs') = Len(funcs)
         /\ nextPtr' \in Nat /\ PointerObj(initialized, nextPtr) \in Pointers
<1>1. nextPtr' = nextPtr + 1
      /\ Emit(Inst("Int", PointerObj(initialized, nextPtr), "ALLOC", <<BTypeOperand>>))
  BY DEF Alloc
<1>2. PointerObj(initialized, nextPtr) \in IRObj /\ PointerObj(initialized, nextPtr) \in Pointers
  BY InItem, PointerObjIsPointer
<1>3. Known(<<BTypeOperand>>) /\ "Int" \in BType /\ "ALLOC" \in KoopaOpCode
  BY OtherOperands, KnownPair DEF BType, KoopaOpCode, ValueOps
<1>4. status' = "run" /\ funcs' \in Seq(FuncSet) /\ Len(funcs') = Len(funcs)
  BY <1>1, <1>2, <1>3, InItem, EmitSucceeds
<1> QED BY <1>1, <1>2, <1>4, InItem

LEMMA BeginVarDefStep ==
  ASSUME Inv, NEW n \in Names, BeginVarDef(n)
  PROVE  Inv'
<1>1. AtItem /\ items' = items + 1 /\ UNCHANGED <<stack, open, vals, nodes>>
  BY DEF BeginVarDef, CountItemAndExp, CountItem
<1>2. CASE ~Redeclares(n) /\ Alloc(TRUE) /\ stmt' = Suspended("var", n, nextPtr)
  <2>1. stmt' \in Stmt /\ stmt'.kind = "var" /\ stmt'.name = n
    BY <1>1, <1>2, InItem DEF Suspended, Stmt, StmtKind
  <2>2. /\ status' = "run" /\ funcs' \in Seq(FuncSet) /\ Len(funcs') = Len(funcs)
        /\ nextPtr' \in Nat
    BY <1>1, <1>2, AllocSucceeds
  <2>3. status' \in Status \ {"ok", "internal"}
    BY <2>2 DEF Status
  <2> QED BY <1>1, <1>2, <2>1, <2>2, <2>3, InItem, SameTables
<1>3. CASE status' = "redeclared" /\ UNCHANGED <<nextPtr, funcs, stmt>>
  <2>1. status' \in Status \ {"ok", "internal"}
    BY <1>3 DEF Status, Rejections
  <2> QED BY <1>1, <1>3, <2>1, InItem, SameTables
<1> QED BY <1>2, <1>3 DEF BeginVarDef

LEMMA EndVarDefStep == ASSUME Inv, EndVarDef PROVE Inv'
<1>1. Complete("var") /\ stmt' = NoStmt /\ vals' = <<>>
      /\ stack' = InsertPointer(stack, stmt.name, PointerObj(TRUE, stmt.pointer))
      /\ UNCHANGED <<nextPtr, open, items, nodes>>
  BY DEF EndVarDef
<1>2. stmt.kind = "var" /\ stmt.name \in Names /\ ~Redeclares(stmt.name) /\ stmt.pointer \in Nat
  BY <1>1 DEF Complete, Inv, SuspendedCanResume, TypeInv, Stmt
<1>3. PointerObj(TRUE, stmt.pointer) \in Pointers
  BY <1>2, PointerObjIsPointer
<1>4. /\ stack' \in Seq(Contexts) /\ Len(stack') = Len(stack)
      /\ \A i \in 1 .. Len(stack) :
           stack'[i].func = stack[i].func /\ stack'[i].ir_block = stack[i].ir_block
      /\ OneDeclarationPerScope'
  BY <1>1, <1>2, <1>3, InComplete, DeclarePointer
<1>5. /\ status' = "run" /\ funcs' \in Seq(FuncSet) /\ Len(funcs') = Len(funcs)
  <2>1. CASE vals[1].kind \in {"Const", "InstId"}
    <3> DEFINE operands == <<FromParseResult(vals[1]), PointerOperand(stmt.pointer)>>
    <3>1. Emit(Inst("Void", NoObj, "STORE", operands))
      BY <1>1, <2>1 DEF EndVarDef
    <3>2. Known(operands)
      BY <1>1, <1>2, InComplete, OtherOperands, KnownPair
    <3>3. "Void" \in BType /\ NoObj \in IRObj /\ "STORE" \in KoopaOpCode
      BY DEF BType, NoObj, Obj, IRObj, KoopaOpCode
    <3> QED BY <1>1, <3>1, <3>2, <3>3, InComplete, EmitSucceeds
  <2>2. CASE vals[1].kind \notin {"Const", "InstId"}
    BY <1>1, <2>2, InComplete DEF EndVarDef
  <2> QED BY <2>1, <2>2
<1>6. SuspendedCanResume' /\ stmt' \in Stmt
  BY <1>1, NoStmtIsStmt DEF SuspendedCanResume
<1>7. status' \in Status \ {"ok", "internal"}
  BY <1>5 DEF Status
<1> QED BY <1>1, <1>4, <1>5, <1>6, <1>7, InComplete, ItemStep

LEMMA VarDefOnlyStep ==
  ASSUME Inv, NEW n \in Names, VarDefOnly(n)
  PROVE  Inv'
<1>1. AtItem /\ items' = items + 1 /\ UNCHANGED <<open, stmt, vals, nodes>>
  BY DEF VarDefOnly, CountItem
<1>2. CASE /\ ~Redeclares(n) /\ Alloc(FALSE)
           /\ stack' = InsertPointer(stack, n, PointerObj(FALSE, nextPtr))
  <2>1. /\ status' = "run" /\ funcs' \in Seq(FuncSet) /\ Len(funcs') = Len(funcs)
        /\ nextPtr' \in Nat /\ PointerObj(FALSE, nextPtr) \in Pointers
    BY <1>1, <1>2, AllocSucceeds
  <2>2. /\ stack' \in Seq(Contexts) /\ Len(stack') = Len(stack)
        /\ \A i \in 1 .. Len(stack) :
             stack'[i].func = stack[i].func /\ stack'[i].ir_block = stack[i].ir_block
        /\ OneDeclarationPerScope'
    BY <1>1, <1>2, <2>1, InItem, DeclarePointer
  <2>3. SuspendedCanResume'
    BY <1>1, InItem DEF SuspendedCanResume
  <2>4. status' \in Status \ {"ok", "internal"}
    BY <2>1 DEF Status
  <2> QED BY <1>1, <2>1, <2>2, <2>3, <2>4, InItem, ItemStep
<1>3. CASE status' = "redeclared" /\ UNCHANGED <<nextPtr, funcs, stack>>
  <2>1. status' \in Status \ {"ok", "internal"}
    BY <1>3 DEF Status, Rejections
  <2> QED BY <1>1, <1>3, <2>1, InItem, SameTables
<1> QED BY <1>2, <1>3 DEF VarDefOnly

LEMMA BeginAssignStep ==
  ASSUME Inv, NEW n \in Names, BeginAssign(n)
  PROVE  Inv'
<1>1. AtItem /\ items' = items + 1 /\ UNCHANGED <<stack, nextPtr, funcs, open, vals, nodes>>
  BY DEF BeginAssign, CountItemAndExp, CountItem
<1>2. CASE /\ GetLatestPointer(stack, n) # NoObj
           /\ stmt' = Suspended("assign", n, GetLatestPointer(stack, n).val)
           /\ UNCHANGED status
  <2>1. PointerScopes(stack, n) # {}
    BY <1>2 DEF GetLatestPointer
  <2>2. GetLatestPointer(stack, n) \in Pointers
    <3>1. stack \in Seq(ContextSet(1 .. Len(funcs), Consts, Pointers))
      BY DEF Inv, TypeInv, Contexts
    <3> QED BY <2>1, <3>1, LatestPointer
  <2>3. GetLatestPointer(stack, n).val \in Nat
    BY <2>2 DEF Pointers, IsPointer
  <2>4. stmt' \in Stmt /\ stmt'.kind = "assign" /\ stmt'.name = n
    BY <1>2, <2>3 DEF Suspended, Stmt, StmtKind
  <2>5. status' \in Status \ {"ok", "internal"}
    BY <1>1, <1>2, InItem DEF Status
  <2> QED BY <1>1, <2>1, <2>4, <2>5, InItem, SameTables
<1>3. CASE status' \in {"assign_const", "undeclared"} /\ UNCHANGED stmt
  <2>1. status' \in Status \ {"ok", "internal"}
    BY <1>3 DEF Status, Rejections
  <2> QED BY <1>1, <1>3, <2>1, InItem, SameTables
<1> QED BY <1>2, <1>3 DEF BeginAssign

LEMMA EndAssignStep == ASSUME Inv, EndAssign PROVE Inv'
<1> DEFINE operands == <<FromParseResult(vals[1]), PointerOperand(stmt.pointer)>>
<1>1. Complete("assign") /\ stmt' = NoStmt /\ vals' = <<>>
      /\ stack' = SetPointerInitialized(stack, stmt.name)
      /\ Emit(Inst("Void", NoObj, "STORE", operands))
      /\ UNCHANGED <<nextPtr, open, items, nodes>>
  BY DEF EndAssign
<1>2. PointerScopes(stack, stmt.name) # {} /\ stmt.pointer \in Nat
  BY <1>1 DEF Complete, Inv, SuspendedCanResume, TypeInv, Stmt
<1>3. \A p \in Pointers : [p EXCEPT !.initialized = TRUE] \in Pointers
  BY DEF Pointers, IsPointer, IRObj
<1>4. stack \in Seq(ContextSet(1 .. Len(funcs), Consts, Pointers))
  BY DEF Inv, TypeInv, Contexts
<1>5. /\ stack' \in Seq(Contexts) /\ Len(stack') = Len(stack)
      /\ \A i \in 1 .. Len(stack) :
           /\ stack'[i].func = stack[i].func /\ stack'[i].ir_block = stack[i].ir_block
           /\ stack'[i].global_const_table = stack[i].global_const_table
           /\ DOMAIN stack'[i].global_pointer_table = DOMAIN stack[i].global_pointer_table
  BY <1>1, <1>2, <1>3, <1>4, SetInitializedIsStack DEF Contexts
<1>6. OneDeclarationPerScope'
  <2>1. DOMAIN stack = 1 .. Len(stack) /\ DOMAIN stack' = 1 .. Len(stack)
    BY <1>4, <1>5, LenProperties
  <2> QED BY <1>5, <2>1 DEF Inv, OneDeclarationPerScope
<1>7. /\ status' = "run" /\ funcs' \in Seq(FuncSet) /\ Len(funcs') = Len(funcs)
  <2>1. Known(operands)
    BY <1>1, <1>2, InComplete, OtherOperands, KnownPair
  <2>2. "Void" \in BType /\ NoObj \in IRObj /\ "STORE" \in KoopaOpCode
    BY DEF BType, NoObj, Obj, IRObj, KoopaOpCode
  <2> QED BY <1>1, <2>1, <2>2, InComplete, EmitSucceeds
<1>8. SuspendedCanResume' /\ stmt' \in Stmt
  BY <1>1, NoStmtIsStmt DEF SuspendedCanResume
<1>9. status' \in Status \ {"ok", "internal"}
  BY <1>7 DEF Status
<1> QED BY <1>1, <1>5, <1>6, <1>7, <1>8, <1>9, InComplete, ItemStep

LEMMA BeginExpStmtStep ==
  ASSUME Inv, NEW kind \in {"return", "raw"}, BeginExpStmt(kind)
  PROVE  Inv'
<1>1. AtItem /\ items' = items + 1
      /\ UNCHANGED <<stack, nextPtr, funcs, open, vals, status, nodes>>
  BY DEF BeginExpStmt, CountItemAndExp, CountItem
<1>2. stmt' \in Stmt /\ stmt'.kind \notin {"const", "var"} /\ stmt'.kind # "assign"
  BY DEF BeginExpStmt, Suspended, Stmt, StmtKind
<1>3. status' \in Status \ {"ok", "internal"}
  BY <1>1, InItem DEF Status
<1> QED BY <1>1, <1>2, <1>3, InItem, SameTables

LEMMA EndReturnStep == ASSUME Inv, EndReturn PROVE Inv'
<1>1. Complete("return") /\ stmt' = NoStmt /\ vals' = <<>>
      /\ Emit(Inst("Void", NoObj, "RET", <<FromParseResult(vals[1])>>))
      /\ UNCHANGED <<stack, nextPtr, open, items, nodes>>
  BY DEF EndReturn
<1>2. /\ status' = "run" /\ funcs' \in Seq(FuncSet) /\ Len(funcs') = Len(funcs)
  <2>1. Known(<<FromParseResult(vals[1])>>)
    BY <1>1, InComplete, KnownPair
  <2>2. "Void" \in BType /\ NoObj \in IRObj /\ "RET" \in KoopaOpCode
    BY DEF BType, NoObj, Obj, IRObj, KoopaOpCode
  <2> QED BY <1>1, <2>1, <2>2, InComplete, EmitSucceeds
<1>3. status' \in Status \ {"ok", "internal"}
  BY <1>2 DEF Status
<1> QED BY <1>1, <1>2, <1>3, NoStmtIsStmt, InComplete, SameTables

LEMMA EndRawExpStep == ASSUME Inv, EndRawExp PROVE Inv'
<1>1. Complete("raw") /\ stmt' = NoStmt /\ vals' = <<>>
      /\ UNCHANGED <<stack, nextPtr, funcs, open, status, items, nodes>>
  BY DEF EndRawExp
<1>2. status' \in Status \ {"ok", "internal"}
  BY <1>1, InComplete DEF Status
<1> QED BY <1>1, <1>2, NoStmtIsStmt, InComplete, SameTables

-----------------------------------------------------------------------------
(* Blocks and functions.                                                   *)

LEMMA BeginBlockStep == ASSUME Inv, BeginBlock PROVE Inv'
<1> DEFINE c == NewContext(Last(stack).func, TRUE)
<1>1. AtItem /\ items' = items + 1 /\ stack' = EnterBlockScope(stack) /\ open' = open + 1
      /\ status' = (IF stack # <<>> /\ Last(stack).ir_block THEN "run" ELSE "internal")
      /\ UNCHANGED <<nextPtr, funcs, stmt, vals, nodes>>
  BY DEF BeginBlock, CountItem
<1>2. /\ stack # <<>> /\ stack \in Seq(ContextSet(1 .. Len(funcs), Consts, Pointers))
      /\ Last(stack).ir_block = TRUE /\ Last(stack).func = Len(funcs) /\ Len(stack) = open
  BY <1>1, InItem, InBlock DEF Contexts
<1>3. stack' = Append(stack, c) /\ c \in Contexts
  BY <1>1, <1>2, EnterBlockScopeNested DEF Contexts
<1>4. c.func = Len(funcs) /\ c.ir_block = TRUE
      /\ DOMAIN c.global_const_table = {} /\ DOMAIN c.global_pointer_table = {}
  BY <1>2, EmptyTableIsTable DEF NewContext
<1>5. stack \in Seq(Contexts) /\ DOMAIN stack = 1 .. Len(stack) /\ Len(stack) \in Nat
  BY <1>2, LenProperties DEF Contexts
<1> HIDE DEF c
<1>6. /\ stack' \in Seq(Contexts) /\ Len(stack') = Len(stack) + 1
      /\ \A i \in 1 .. Len(stack) : stack'[i] = stack[i]
      /\ stack'[Len(stack) + 1] = c
  BY <1>3, <1>5, AppendProperties
<1>7. DOMAIN stack' = 1 .. Len(stack) + 1
  BY <1>6, LenProperties
<1>8. status' = "run" /\ Contexts' = Contexts /\ Results' = Results
  BY <1>1, <1>2 DEF Contexts, Consts, Pointers, Results, IsConst, IsPointer, IsResult
<1>9. TypeInv'
  BY <1>1, <1>6, <1>8, InItem DEF TypeInv, Inv, Status
<1>10. ScopesBalanced' /\ OneDeclarationPerScope'
  BY <1>1, <1>2, <1>4, <1>5, <1>6, <1>7, InItem
     DEF Inv, ScopesBalanced, OneDeclarationPerScope
<1>11. NoInternalPanic' /\ SuspendedCanResume'
  BY <1>1, <1>8, InItem DEF NoInternalPanic, SuspendedCanResume
<1> QED BY <1>9, <1>10, <1>11 DEF Inv

LEMMA EndBlockStep == ASSUME Inv, EndBlock PROVE Inv'
<1>1. AtItem /\ open > 1 /\ stack' = ExitScope(stack) /\ open' = open - 1
      /\ UNCHANGED <<nextPtr, funcs, stmt, vals, status, items, nodes>>
  BY DEF EndBlock
<1>2. stack # <<>> /\ stack \in Seq(Contexts) /\ Len(stack) = open
  BY <1>1, InItem, InBlock
<1>3. stack' = Front(stack)
  BY <1>1, <1>2 DEF ExitScope
<1>4. /\ stack' \in Seq(Contexts) /\ Len(stack') = Len(stack) - 1 /\ Len(stack) \in Nat
      /\ \A i \in 1 .. Len(stack) - 1 : stack'[i] = stack[i]
  BY <1>2, <1>3, LastAndFront
<1>5. DOMAIN stack = 1 .. Len(stack) /\ DOMAIN stack' = 1 .. Len(stack) - 1
  BY <1>2, <1>4, LenProperties
<1>6. Contexts' = Contexts /\ Results' = Results
  BY <1>1 DEF Contexts, Consts, Pointers, Results, IsConst, IsPointer, IsResult
<1>7. TypeInv'
  BY <1>1, <1>4, <1>6, InItem DEF TypeInv, Inv
<1>8. ScopesBalanced' /\ OneDeclarationPerScope'
  BY <1>1, <1>2, <1>4, <1>5, InItem DEF Inv, ScopesBalanced, OneDeclarationPerScope
<1>9. NoInternalPanic' /\ SuspendedCanResume'
  BY <1>1, InItem DEF Inv, NoInternalPanic, SuspendedCanResume
<1> QED BY <1>7, <1>8, <1>9 DEF Inv

\* Between functions nothing is suspended and the stack is empty.
LEMMA InTop ==
  ASSUME Inv, AtTop
  PROVE  /\ status = "run" /\ open = 0 /\ stack = <<>> /\ vals = <<>> /\ stmt.kind = "none"
         /\ funcs \in Seq(FuncSet) /\ Len(funcs) \in Nat /\ nextPtr \in Nat
         /\ items \in Nat /\ nodes \in Nat /\ stmt \in Stmt
<1>1. funcs \in Seq(FuncSet) /\ Len(funcs) \in Nat /\ stack \in Seq(Contexts)
  BY LenProperties DEF Inv, TypeInv
<1>2. Len(stack) = 0
  BY DEF AtTop, Inv, ScopesBalanced
<1>3. stack = <<>>
  BY <1>1, <1>2, EmptySeq
<1> QED BY <1>1, <1>3 DEF AtTop, Inv, TypeInv, SuspendedCanResume

LEMMA FinishStep == ASSUME Inv, Finish PROVE Inv'
<1>1. AtTop /\ status' = "ok" /\ UNCHANGED <<stack, nextPtr, funcs, open, stmt, vals, items, nodes>>
  BY DEF Finish
<1>2. Contexts' = Contexts /\ Results' = Results
  BY <1>1 DEF Contexts, Consts, Pointers, Results, IsConst, IsPointer, IsResult
<1>3. TypeInv'
  BY <1>1, <1>2 DEF Inv, TypeInv, Status
<1> QED BY <1>1, <1>3, InTop
        DEF Inv, ScopesBalanced, OneDeclarationPerScope, NoInternalPanic, SuspendedCanResume,
            Redeclares

\* EnterFuncScope and the function's own block share one context.
LEMMA BeginFuncStep == ASSUME Inv, BeginFunc PROVE Inv'
<1> DEFINE k == Len(funcs) + 1
<1>1. AtTop /\ funcs' = Append(funcs, NewFunc) /\ open' = 1
      /\ stack' = EnterBlockScope(EnterFuncScope(stack, k))
      /\ UNCHANGED <<nextPtr, stmt, vals, status, items, nodes>>
  BY DEF BeginFunc
<1>2. funcs' \in Seq(FuncSet) /\ Len(funcs') = k /\ k \in 1 .. k /\ k \in Nat
  BY <1>1, InTop, NewFuncIsFunc, AppendProperties
<1>3. Contexts' = ContextSet(1 .. k, Consts, Pointers)
  BY <1>2 DEF Contexts, Consts, Pointers, IsConst, IsPointer
<1>4. stack = <<>>
  BY <1>1, InTop
<1> HIDE DEF k
<1>5. /\ stack' \in Seq(Contexts') /\ Len(stack') = 1
      /\ stack'[1].func = k /\ stack'[1].ir_block = TRUE
      /\ DOMAIN stack'[1].global_const_table = {}
      /\ DOMAIN stack'[1].global_pointer_table = {}
  BY <1>1, <1>2, <1>3, <1>4, EnterBlockScopeFirst
<1>6. DOMAIN stack' = {1}
  BY <1>5, LenProperties
<1>7. vals' \in Seq(Results')
  BY <1>1, InTop, EmptySeq
<1>8. TypeInv'
  BY <1>1, <1>2, <1>5, <1>7, InTop DEF TypeInv, Status
<1>9. ScopesBalanced' /\ OneDeclarationPerScope'
  BY <1>1, <1>2, <1>5, <1>6 DEF ScopesBalanced, OneDeclarationPerScope
<1>10. NoInternalPanic' /\ SuspendedCanResume'
  BY <1>1, InTop DEF NoInternalPanic, SuspendedCanResume
<1> QED BY <1>8, <1>9, <1>10 DEF Inv

\* When its block ends, the function's one context is the last on the stack:
\* exit_scope drops the last reference that get_mut must not find, and the
\* second exit_scope pops nothing.
LEMMA EndFuncStep == ASSUME Inv, EndFunc PROVE Inv'
<1> DEFINE k == Len(funcs)
           g == [Top EXCEPT !.ir_blocks = @ + 1]
<1>1. AtItem /\ open = 1 /\ open' = 0
      /\ status' = (IF Unshared(k) THEN "run" ELSE "internal")
      /\ funcs' = [funcs EXCEPT ![k] = g]
      /\ stack' = ExitScope(ExitScope(stack))
      /\ UNCHANGED <<nextPtr, stmt, vals, items, nodes>>
  BY DEF EndFunc, Top
<1>2. stack # <<>> /\ stack \in Seq(Contexts) /\ Len(stack) = 1
      /\ k \in 1 .. k /\ Top \in FuncSet
  BY <1>1, InItem, InBlock
<1>3. ExitScope(stack) = <<>>
  <2>1. Front(stack) \in Seq(Contexts) /\ Len(Front(stack)) = 0
    BY <1>2, LastAndFront
  <2> QED BY <1>2, <2>1, EmptySeq DEF ExitScope
<1>4. stack' = <<>> /\ Unshared(k)
  <2>1. DOMAIN <<>> = {}
    OBVIOUS
  <2> QED BY <1>1, <1>3, <2>1 DEF ExitScope, Unshared
<1>5. g \in FuncSet
  <2>1. PICK n \in Nat : Top \in [next_inst_id : {n}, inst_map  : [0 .. n - 1 -> InstData],
                                  inst_list : Seq(Nat), ir_blocks : Nat]
    BY <1>2 DEF FuncSet
  <2>2. g \in [next_inst_id : {n}, inst_map  : [0 .. n - 1 -> InstData],
               inst_list : Seq(Nat), ir_blocks : Nat]
    BY <2>1
  <2> QED BY <2>1, <2>2 DEF FuncSet
<1> HIDE DEF g, k
<1>6. funcs' \in Seq(FuncSet)
  BY <1>1, <1>2, <1>5, InItem, ExceptSeq DEF k
<1>7. status' = "run" /\ vals' = <<>>
  BY <1>1, <1>4, InItem
<1>8. stack' \in Seq(Contexts') /\ vals' \in Seq(Results') /\ DOMAIN stack' = {} /\ Len(stack') = 0
  BY <1>4, <1>7, EmptySeq
<1>9. TypeInv'
  BY <1>1, <1>6, <1>7, <1>8, InItem DEF TypeInv, Status
<1>10. ScopesBalanced' /\ OneDeclarationPerScope'
  BY <1>1, <1>8 DEF ScopesBalanced, OneDeclarationPerScope
<1>11. NoInternalPanic' /\ SuspendedCanResume'
  BY <1>1, <1>7, InItem DEF NoInternalPanic, SuspendedCanResume
<1> QED BY <1>9, <1>10, <1>11 DEF Inv

-----------------------------------------------------------------------------
LEMMA InvStep == Inv /\ [Next]_vars => Inv'
<1> SUFFICES ASSUME Inv, [Next]_vars PROVE Inv'
  OBVIOUS
<1>1. CASE Functions
  BY <1>1, BeginFuncStep, EndFuncStep, FinishStep DEF Functions
<1>2. CASE Items
  <2>1. CASE BeginBlock \/ EndBlock
    BY <2>1, BeginBlockStep, EndBlockStep
  <2>2. CASE \E n \in Names :
               BeginConstDef(n) \/ BeginVarDef(n) \/ VarDefOnly(n) \/ BeginAssign(n)
    BY <2>2, BeginConstDefStep, BeginVarDefStep, VarDefOnlyStep, BeginAssignStep
  <2>3. CASE \E kind \in {"return", "raw"} : BeginExpStmt(kind)
    BY <2>3, BeginExpStmtStep
  <2>4. CASE EndConstDef \/ EndVarDef \/ EndAssign \/ EndReturn \/ EndRawExp
    BY <2>4, EndConstDefStep, EndVarDefStep, EndAssignStep, EndReturnStep, EndRawExpStep
  <2> QED BY <1>2, <2>1, <2>2, <2>3, <2>4 DEF Items
<1>3. CASE Exps
  BY <1>3, ExpsStep
<1>4. CASE UNCHANGED vars
  <2>1. Contexts' = Contexts /\ Results' = Results
    BY <1>4 DEF vars, Contexts, Consts, Pointers, Results, IsConst, IsPointer, IsResult
  <2>2. TypeInv'
    BY <1>4, <2>1 DEF vars, Inv, TypeInv
  <2> QED BY <1>4, <2>2
          DEF vars, Inv, ScopesBalanced, OneDeclarationPerScope, NoInternalPanic,
              SuspendedCanResume, Redeclares
<1> QED BY <1>1, <1>2, <1>3, <1>4 DEF Next

\* The conjunction of the five invariants is inductive.
THEOREM InvIsInvariant == Spec => []Inv
<1> QED BY InitInv, InvStep, PTL DEF Spec

\* Type correctness: tables hold only i32 constants and pointers, results are
\* constants or instructions that exist (ConstDef, VarDef, parse_var_exp).
THEOREM TypeCorrect == Spec => []TypeOK
<1>1. Inv => TypeOK
  BY TypeInvTypeOK DEF Inv
<1> QED BY <1>1, InvIsInvariant, PTL

\* The context stack mirrors the open blocks, at any depth of nesting
\* (enter_block_scope, exit_scope, Block::parse, FuncDef::parse).
THEOREM ScopesStayBalanced == Spec => []ScopesBalanced
<1>1. Inv => ScopesBalanced
  BY DEF Inv
<1> QED BY <1>1, InvIsInvariant, PTL

\* No block declares a name as a constant and as a variable.
THEOREM NoDoubleDeclaration == Spec => []OneDeclarationPerScope
<1>1. Inv => OneDeclarationPerScope
  BY DEF Inv
<1> QED BY <1>1, InvIsInvariant, PTL

\* No program makes the front end reach an unwrap, an index or a panic that is
\* not a rejection of the program.
THEOREM InternalPanicsUnreachable == Spec => []NoInternalPanic
<1>1. Inv => NoInternalPanic
  BY DEF Inv
<1> QED BY <1>1, InvIsInvariant, PTL

\* What a declaration or assignment checked before its expression still holds
\* when it resumes.
THEOREM ResumptionIsSafe == Spec => []SuspendedCanResume
<1>1. Inv => SuspendedCanResume
  BY DEF Inv
<1> QED BY <1>1, InvIsInvariant, PTL

-----------------------------------------------------------------------------
(* What a function's code is.                                              *)

\* Values and pointers that instruction id of f may use: a constant or the
\* result of an earlier instruction; a pointer allocated, stored to, earlier.
Usable(f, id, o) ==
  \/ o.kind = "Const" /\ o.val \in Int32
  \/ /\ o.kind = "InstId" /\ o.val \in 0 .. id - 1
     /\ f.inst_map[o.val].opcode \in ValueOps \ {"ALLOC"}
AllocIn(f, id, ptr) ==
  \E j \in 0 .. id - 1 : f.inst_map[j].opcode = "ALLOC" /\ f.inst_map[j].ir_obj.val = ptr
StoreIn(f, id, ptr) ==
  \E j \in 0 .. id - 1 : f.inst_map[j].opcode = "STORE" /\ f.inst_map[j].operands[2].val = ptr

\* The opcodes the handlers emit: four of Koopa's are never used, and LE and GE
\* stand for operators.
FromSource(opcode) ==
  /\ opcode \in KoopaOpCode \ {"XOR", "SHL", "SHR", "SAR"}
  /\ opcode = "LE" => "Le" \in Operators
  /\ opcode = "GE" => "Ge" \in Operators

\* inst is legal as instruction id of f.
Fits(f, id, inst) ==
  /\ inst.opcode \in KoopaOpCode /\ FromSource(inst.opcode)
  /\ Len(inst.operands) = Builder!Arity(inst.opcode)
  /\ inst.typ = (IF inst.opcode \in ValueOps THEN "Int" ELSE "Void")
  /\ inst.opcode \in Builder!Binary \cup {"LOAD"} => inst.ir_obj = InstIdObj(id)
  /\ inst.opcode \in {"STORE", "RET"} => inst.ir_obj.kind = "None"
  /\ inst.opcode \in Builder!Binary \cup {"RET"} =>
       \A k \in 1 .. Len(inst.operands) : Usable(f, id, inst.operands[k])
  /\ inst.opcode = "ALLOC" => inst.ir_obj.kind = "Pointer" /\ inst.operands[1].kind = "BType"
  /\ inst.opcode = "STORE" => /\ Usable(f, id, inst.operands[1])
                              /\ inst.operands[2].kind = "Pointer"
                              /\ AllocIn(f, id, inst.operands[2].val)
  /\ inst.opcode = "LOAD"  => /\ inst.operands[1].kind = "Pointer"
                              /\ AllocIn(f, id, inst.operands[1].val)
                              /\ StoreIn(f, id, inst.operands[1].val)

LegalFunc(f) ==
  /\ f.inst_list = [p \in 1 .. f.next_inst_id |-> p - 1]
  /\ \A id \in 0 .. f.next_inst_id - 1 : Fits(f, id, f.inst_map[id])

\* The entries of users that name u.
EntriesOf(users, u) == {k \in DOMAIN users : users[k] = u}

UsersMatch(f) ==
  \A id \in 0 .. f.next_inst_id - 1 :
    /\ \A k \in DOMAIN f.inst_map[id].users : f.inst_map[id].users[k] \in 0 .. f.next_inst_id - 1
    /\ \A u \in 0 .. f.next_inst_id - 1 :
         Cardinality(EntriesOf(f.inst_map[id].users, u)) = Cardinality(UsesOf(f.inst_map[u], id))

IsAlloc(i, id) == id \in 0 .. funcs[i].next_inst_id - 1 /\ funcs[i].inst_map[id].opcode = "ALLOC"
PointerOf(i, id) == funcs[i].inst_map[id].ir_obj.val

\* The allocator never gives a pointer twice.
PointersApart ==
  \A i \in 1 .. Len(funcs) : \A id \in 0 .. funcs[i].next_inst_id - 1 :
    IsAlloc(i, id) =>
      /\ PointerOf(i, id) \in 0 .. nextPtr - 1
      /\ \A j \in 1 .. Len(funcs) : \A jd \in 0 .. funcs[j].next_inst_id - 1 :
           IsAlloc(j, jd) /\ PointerOf(j, jd) = PointerOf(i, id) => i = j /\ id = jd

ProgInv ==
  /\ \A i \in 1 .. Len(funcs) : LegalFunc(funcs[i]) /\ UsersMatch(funcs[i])
  /\ PointersApart

-----------------------------------------------------------------------------
(* What the handlers know of the code.                                     *)

Allocated(f, ptr) == AllocIn(f, f.next_inst_id, ptr)
Stored(f, ptr)    == StoreIn(f, f.next_inst_id, ptr)
IsOperand(f, obj) == Usable(f, f.next_inst_id, FromParseResult(obj))

TablesMatch ==
  \A i \in 1 .. Len(stack) : \A n \in DOMAIN stack[i].global_pointer_table :
    LET p == stack[i].global_pointer_table[n]
    IN Allocated(Top, p.val) /\ (p.initialized => Stored(Top, p.val))

StmtMatches ==
  /\ stmt.kind = "var"    => Allocated(Top, stmt.pointer)
  /\ stmt.kind = "assign" => stmt.pointer = GetLatestPointer(stack, stmt.name).val

ValsMatch == \A k \in 1 .. Len(vals) : IsOperand(Top, vals[k])

CodeInv ==
  /\ ProgInv
  /\ TablesMatch /\ StmtMatches /\ ValsMatch
  /\ open > 0 => Top.ir_blocks = 0
-----------------------------------------------------------------------------
(* Functions grow by one instruction.                                      *)

\* Instructions that differ at most in their users.
SameCode(a, b) ==
  a.typ = b.typ /\ a.ir_obj = b.ir_obj /\ a.opcode = b.opcode /\ a.operands = b.operands

\* Instruction i of f with inst after its last.
Entry(f, inst, i) == IF i = f.next_inst_id THEN inst ELSE f.inst_map[i]

\* g is f and inst, whose id is the next one of f.
Grown(f, g, inst) ==
  /\ g.next_inst_id = f.next_inst_id + 1
  /\ g.inst_list = Append(f.inst_list, f.next_inst_id)
  /\ g.ir_blocks = f.ir_blocks
  /\ \A i \in 0 .. f.next_inst_id : SameCode(g.inst_map[i], Entry(f, inst, i))

\* The users of what inst uses have gained its id.
UsersGrown(f, g, inst) ==
  \A i \in 0 .. f.next_inst_id :
    g.inst_map[i].users =
      Entry(f, inst, i).users \o [k \in 1 .. Cardinality(UsesOf(inst, i)) |-> f.next_inst_id]

LEMMA InsertGrows ==
  ASSUME NEW f \in FuncSet, NEW inst \in InstData
  PROVE  Grown(f, InsertInst(f, inst), inst) /\ UsersGrown(f, InsertInst(f, inst), inst)
<1> DEFINE id      == f.next_inst_id
           ids     == DOMAIN f.inst_map \cup {id}
           old(i)  == IF i = id THEN inst ELSE f.inst_map[i]
           more(i) == [k \in 1 .. Cardinality(UsesOf(inst, i)) |-> id]
           new(i)  == [old(i) EXCEPT !.users = @ \o more(i)]
           map     == [i \in ids |-> new(i)]
           g       == InsertInst(f, inst)
<1>1. IsFunc(f)
  BY FuncSetIsFunc
<1>2. id \in Nat /\ ids = 0 .. id
  BY <1>1 DEF IsFunc
<1>3. g = [f EXCEPT !.next_inst_id = id + 1, !.inst_map = map, !.inst_list = Append(@, id)]
  BY DEF InsertInst
<1>4. /\ g.next_inst_id = id + 1 /\ g.inst_map = map /\ g.inst_list = Append(f.inst_list, id)
      /\ g.ir_blocks = f.ir_blocks
  <2> HIDE DEF map, id, g
  <2> QED BY <1>1, <1>3 DEF IsFunc
<1>5. ASSUME NEW i \in 0 .. id
      PROVE  SameCode(g.inst_map[i], old(i)) /\ g.inst_map[i].users = old(i).users \o more(i)
  <2>1. old(i) \in InstData
    BY <1>1, <1>2 DEF IsFunc
  <2>2. g.inst_map[i] = new(i)
    <3> HIDE DEF new, g
    <3> QED BY <1>2, <1>4
  <2> HIDE DEF old, more, g
  <2> QED BY <2>1, <2>2 DEF InstData, SameCode
<1>6. \A i : old(i) = Entry(f, inst, i)
  BY DEF Entry
<1> HIDE DEF g, old
<1>7. Grown(f, g, inst)
  BY <1>4, <1>5, <1>6 DEF Grown
<1>8. UsersGrown(f, g, inst)
  BY <1>5, <1>6 DEF UsersGrown
<1> QED BY <1>7, <1>8 DEF g

\* What is usable, allocated or stored to at an id depends on what is before.
LEMMA Prefix ==
  ASSUME NEW f \in FuncSet, NEW g, NEW inst, Grown(f, g, inst),
         NEW id \in 0 .. f.next_inst_id
  PROVE  /\ \A o : Usable(g, id, o) <=> Usable(f, id, o)
         /\ \A ptr : AllocIn(g, id, ptr) <=> AllocIn(f, id, ptr)
         /\ \A ptr : StoreIn(g, id, ptr) <=> StoreIn(f, id, ptr)
<1>1. f.next_inst_id \in Nat
  BY FuncSetIsFunc DEF IsFunc
<1>2. \A j \in 0 .. id - 1 : SameCode(g.inst_map[j], f.inst_map[j])
  BY <1>1 DEF Grown, Entry
<1> QED BY <1>2 DEF SameCode, Usable, AllocIn, StoreIn

LEMMA Later ==
  ASSUME NEW f, NEW id \in Nat
  PROVE  /\ \A o : Usable(f, id, o) => Usable(f, id + 1, o)
         /\ \A ptr : AllocIn(f, id, ptr) => AllocIn(f, id + 1, ptr)
         /\ \A ptr : StoreIn(f, id, ptr) => StoreIn(f, id + 1, ptr)
  BY DEF Usable, AllocIn, StoreIn

\* Legality looks at what an instruction is, and at what comes before it.
LEMMA FitsSame ==
  ASSUME NEW f, NEW g, NEW id, NEW a, NEW b, Fits(f, id, a), SameCode(b, a),
         \A o : Usable(g, id, o) <=> Usable(f, id, o),
         \A ptr : AllocIn(g, id, ptr) <=> AllocIn(f, id, ptr),
         \A ptr : StoreIn(g, id, ptr) <=> StoreIn(f, id, ptr)
  PROVE  Fits(g, id, b)
  BY DEF Fits, SameCode

LEMMA CountedSeq ==
  ASSUME NEW n \in Nat, NEW r \in [1 .. n -> Nat]
  PROVE  r \in Seq(Nat)
  BY SeqDef

LEMMA LegalGrows ==
  ASSUME NEW f \in FuncSet, LegalFunc(f), NEW inst, Fits(f, f.next_inst_id, inst),
         NEW g, Grown(f, g, inst)
  PROVE  LegalFunc(g)
<1> DEFINE n == f.next_inst_id
<1>1. n \in Nat /\ g.next_inst_id = n + 1
  BY FuncSetIsFunc DEF IsFunc, Grown
<1>2. g.inst_list = [p \in 1 .. n + 1 |-> p - 1]
  <2> DEFINE s == [p \in 1 .. n |-> p - 1]
             t == [p \in 1 .. n + 1 |-> p - 1]
  <2>1. s \in Seq(Nat) /\ t \in Seq(Nat) /\ Len(s) = n /\ Len(t) = n + 1
    <3>1. s \in [1 .. n -> Nat] /\ t \in [1 .. n + 1 -> Nat]
      BY <1>1
    <3>2. s \in Seq(Nat) /\ t \in Seq(Nat)
      <4> HIDE DEF s, t
      <4>1. n + 1 \in Nat
        BY <1>1
      <4> QED BY <1>1, <3>1, <4>1, CountedSeq
    <3>3. DOMAIN s = 1 .. n /\ DOMAIN t = 1 .. n + 1
      OBVIOUS
    <3> HIDE DEF s, t
    <3> QED BY <1>1, <3>2, <3>3, LenProperties
  <2>2. Append(s, n) \in Seq(Nat) /\ Len(Append(s, n)) = n + 1
        /\ \A i \in 1 .. n + 1 : Append(s, n)[i] = t[i]
    BY <1>1, <2>1, AppendProperties
  <2>3. Append(s, n) = t
    <3> HIDE DEF s, t
    <3> QED BY <2>1, <2>2, SeqEqual
  <2> QED BY <2>3 DEF Grown, LegalFunc
<1>3. ASSUME NEW id \in 0 .. n PROVE Fits(g, id, g.inst_map[id])
  <2>1. Fits(f, id, Entry(f, inst, id))
    BY <1>1 DEF LegalFunc, Entry
  <2>2. SameCode(g.inst_map[id], Entry(f, inst, id))
    BY DEF Grown
  <2> QED BY <2>1, <2>2, Prefix, FitsSame
<1> QED BY <1>1, <1>2, <1>3 DEF LegalFunc

\* A legal instruction uses only earlier ones.
LEMMA FitsUsesEarlier ==
  ASSUME NEW f, NEW id \in Nat, NEW inst, inst.operands \in Seq(Operand),
         Fits(f, id, inst), NEW i, i \notin 0 .. id - 1
  PROVE  UsesOf(inst, i) = {}
<1>1. DOMAIN inst.operands = 1 .. Len(inst.operands)
  BY LenProperties
<1> SUFFICES ASSUME NEW k \in 1 .. Len(inst.operands), inst.operands[k].kind = "InstId"
             PROVE  inst.operands[k].val \in 0 .. id - 1
  BY <1>1 DEF UsesOf
<1>2. CASE inst.opcode \in Builder!Binary \cup {"RET"}
  BY <1>2 DEF Fits, Usable
<1>3. CASE inst.opcode \in {"ALLOC", "LOAD"}
  <2>1. Len(inst.operands) = 1 /\ inst.operands[1].kind # "InstId"
    BY <1>3 DEF Fits, Builder!Arity, Builder!Binary
  <2> QED BY <2>1
<1>4. CASE inst.opcode = "STORE"
  <2>1. Len(inst.operands) = 2 /\ Usable(f, id, inst.operands[1])
        /\ inst.operands[2].kind = "Pointer"
    BY <1>4 DEF Fits, Builder!Arity
  <2> QED BY <2>1 DEF Usable
<1> QED BY <1>2, <1>3, <1>4 DEF Fits, KoopaOpCode, ValueOps, Builder!Binary, Builder!ValueOps

\* c times the id.
LEMMA Copies ==
  ASSUME NEW id \in Nat, NEW c \in Nat
  PROVE  LET more == [k \in 1 .. c |-> id]
         IN more \in Seq(Nat) /\ Len(more) = c /\ \A k \in 1 .. c : more[k] = id
<1> DEFINE more == [k \in 1 .. c |-> id]
<1>1. more \in [1 .. c -> Nat] /\ DOMAIN more = 1 .. c /\ \A k \in 1 .. c : more[k] = id
  OBVIOUS
<1>2. more \in Seq(Nat)
  BY <1>1, SeqDef
<1> HIDE DEF more
<1>3. Len(more) = c
  BY <1>1, <1>2, LenProperties
<1> QED BY <1>1, <1>2, <1>3 DEF more

\* add_user keeps users the inverse of the operands.
LEMMA UsersGrow ==
  ASSUME NEW f \in FuncSet, LegalFunc(f), UsersMatch(f),
         NEW inst \in InstData, inst.users = <<>>, Fits(f, f.next_inst_id, inst),
         NEW g, Grown(f, g, inst), UsersGrown(f, g, inst)
  PROVE  UsersMatch(g)
<1> DEFINE n == f.next_inst_id
<1>1. n \in Nat /\ g.next_inst_id = n + 1 /\ f.inst_map \in [0 .. n - 1 -> InstData]
  BY FuncSetIsFunc DEF IsFunc, Grown
<1>2. ASSUME NEW i \in 0 .. n
      PROVE  /\ Entry(f, inst, i) \in InstData /\ Entry(f, inst, i).users \in Seq(Nat)
             /\ \A k \in DOMAIN Entry(f, inst, i).users :
                  Entry(f, inst, i).users[k] \in 0 .. n - 1
  <2>1. Entry(f, inst, i) \in InstData
    BY <1>1 DEF Entry
  <2>2. CASE i = n
    <3>1. Entry(f, inst, i).users = <<>> /\ DOMAIN <<>> = {}
      BY <2>2 DEF Entry
    <3> QED BY <2>1, <3>1 DEF InstData
  <2>3. CASE i # n
    <3>1. i \in 0 .. n - 1 /\ Entry(f, inst, i).users = f.inst_map[i].users
      BY <1>1, <2>3 DEF Entry
    <3> QED BY <2>1, <3>1 DEF InstData, UsersMatch
  <2> QED BY <2>2, <2>3
<1>3. \A i \in 0 .. n : Cardinality(UsesOf(inst, i)) \in Nat
  BY UsesOfCounted
<1>4. ASSUME NEW u \in 0 .. n, NEW i
      PROVE  UsesOf(g.inst_map[u], i) = UsesOf(Entry(f, inst, u), i)
  BY DEF Grown, SameCode, UsesOf
<1>5. ASSUME NEW i \in 0 .. n
      PROVE  /\ \A u : u # n => EntriesOf(g.inst_map[i].users, u)
                                  = EntriesOf(Entry(f, inst, i).users, u)
             /\ Cardinality(EntriesOf(g.inst_map[i].users, n)) = Cardinality(UsesOf(inst, i))
             /\ \A k \in DOMAIN g.inst_map[i].users : g.inst_map[i].users[k] \in 0 .. n
  <2> DEFINE s == Entry(f, inst, i).users
             c == Cardinality(UsesOf(inst, i))
             t == g.inst_map[i].users
             more == [k \in 1 .. c |-> n]
  <2>1. t = s \o more
    BY DEF UsersGrown
  <2>2. s \in Seq(Nat) /\ c \in Nat /\ \A k \in DOMAIN s : s[k] \in 0 .. n - 1
    BY <1>2, <1>3
  <2>3. more \in Seq(Nat) /\ Len(more) = c /\ \A k \in 1 .. c : more[k] = n
    BY <1>1, <2>2, Copies
  <2>4. n \in Nat
    BY <1>1
  <2> HIDE DEF s, c, t, n, more
  <2>5. Len(s) \in Nat /\ DOMAIN s = 1 .. Len(s)
    BY <2>2, LenProperties
  <2>6. t \in Seq(Nat) /\ Len(t) = Len(s) + c
        /\ \A k \in 1 .. Len(s) + c : t[k] = IF k <= Len(s) THEN s[k] ELSE more[k - Len(s)]
    BY <2>1, <2>2, <2>3, ConcatProperties
  <2>7. DOMAIN t = 1 .. Len(s) + c
    BY <2>6, LenProperties
  <2>8. \A k \in DOMAIN t : IF k <= Len(s) THEN k \in DOMAIN s /\ t[k] = s[k] ELSE t[k] = n
    <3> SUFFICES ASSUME NEW k \in 1 .. Len(s) + c
                 PROVE  IF k <= Len(s) THEN k \in DOMAIN s /\ t[k] = s[k] ELSE t[k] = n
      BY <2>7
    <3>1. CASE k <= Len(s)
      BY <2>2, <2>5, <2>6, <3>1
    <3>2. CASE ~(k <= Len(s))
      <4>1. k - Len(s) \in 1 .. c /\ t[k] = more[k - Len(s)]
        BY <2>2, <2>5, <2>6, <3>2
      <4> QED BY <2>3, <3>2, <4>1
    <3> QED BY <3>1, <3>2
  <2>9. ASSUME NEW u, u # n PROVE EntriesOf(t, u) = EntriesOf(s, u)
    <3>1. \A k \in DOMAIN s : k \in DOMAIN t
      BY <2>2, <2>5, <2>7
    <3> QED BY <2>5, <2>8, <2>9, <3>1 DEF EntriesOf
  <2>10. Cardinality(EntriesOf(t, n)) = c
    <3>1. EntriesOf(t, n) = Len(s) + 1 .. Len(s) + c
      BY <2>2, <2>4, <2>5, <2>7, <2>8 DEF EntriesOf
    <3>2. Cardinality(Len(s) + 1 .. Len(s) + c) = c
      BY <2>2, <2>5, FS_Interval
    <3> QED BY <3>1, <3>2
  <2>11. \A k \in DOMAIN t : t[k] \in 0 .. n
    BY <2>2, <2>4, <2>8
  <2> QED BY <2>9, <2>10, <2>11 DEF s, c, t, n
<1>6. ASSUME NEW i \in 0 .. n, NEW u \in 0 .. n, u # n
      PROVE  Cardinality(EntriesOf(g.inst_map[i].users, u))
               = Cardinality(UsesOf(g.inst_map[u], i))
  <2>1. EntriesOf(g.inst_map[i].users, u) = EntriesOf(Entry(f, inst, i).users, u)
    BY <1>5, <1>6
  <2>2. u \in 0 .. n - 1 /\ UsesOf(g.inst_map[u], i) = UsesOf(f.inst_map[u], i)
    BY <1>1, <1>4, <1>6 DEF Entry
  <2>3. CASE i # n
    <3>1. i \in 0 .. n - 1 /\ Entry(f, inst, i).users = f.inst_map[i].users
      BY <1>1, <2>3 DEF Entry
    <3> QED BY <2>1, <2>2, <3>1 DEF UsersMatch
  <2>4. CASE i = n
    <3>1. Entry(f, inst, i).users = <<>> /\ DOMAIN <<>> = {}
      BY <2>4 DEF Entry
    <3>2. EntriesOf(Entry(f, inst, i).users, u) = {}
      BY <3>1 DEF EntriesOf
    <3>3. UsesOf(f.inst_map[u], i) = {}
      <4>1. f.inst_map[u].operands \in Seq(Operand) /\ Fits(f, u, f.inst_map[u])
        BY <1>1, <2>2 DEF InstData, LegalFunc
      <4> QED BY <1>1, <2>2, <2>4, <4>1, FitsUsesEarlier
    <3> QED BY <2>1, <2>2, <3>2, <3>3
  <2> QED BY <2>3, <2>4
<1>7. ASSUME NEW i \in 0 .. n
      PROVE  Cardinality(EntriesOf(g.inst_map[i].users, n))
               = Cardinality(UsesOf(g.inst_map[n], i))
  <2>1. Entry(f, inst, n) = inst /\ n \in 0 .. n
    BY <1>1 DEF Entry
  <2> HIDE DEF n
  <2>2. UsesOf(g.inst_map[n], i) = UsesOf(inst, i)
    BY <1>4, <2>1
  <2> QED BY <1>5, <2>2
<1>8. \A i \in 0 .. n : \A u \in 0 .. n :
        Cardinality(EntriesOf(g.inst_map[i].users, u)) = Cardinality(UsesOf(g.inst_map[u], i))
  BY <1>6, <1>7
<1>9. g.next_inst_id - 1 = n
  BY <1>1
<1> QED BY <1>5, <1>8, <1>9 DEF UsersMatch

-----------------------------------------------------------------------------
(* The program grows by one instruction.                                   *)

\* insert_instruction finds what a legal instruction uses.
LEMMA FitsIsKnown ==
  ASSUME Inv, status = "run", open > 0,
         NEW inst, inst.operands \in Seq(Operand), Fits(Top, Top.next_inst_id, inst)
  PROVE  Known(inst.operands)
<1>1. DOMAIN inst.operands = 1 .. Len(inst.operands)
  BY LenProperties
<1>2. ASSUME NEW k \in DOMAIN inst.operands, inst.operands[k].kind = "InstId",
             inst.operands[k].val \notin DOMAIN Top.inst_map
      PROVE  FALSE
  <2>1. UsesOf(inst, inst.operands[k].val) = {}
    BY <1>2, InBlock, FitsUsesEarlier
  <2> QED BY <1>2, <2>1 DEF UsesOf
<1> QED BY <1>2 DEF Known

\* The handlers' insert_instruction, of a legal instruction.
LEMMA EmitGrows ==
  ASSUME Inv, status = "run", open > 0,
         NEW inst \in InstData, Fits(Top, Top.next_inst_id, inst), Emit(inst)
  PROVE  /\ status' = "run" /\ Len(funcs') = Len(funcs) /\ Len(funcs) \in Nat \ {0}
         /\ \A i \in 1 .. Len(funcs) - 1 : funcs'[i] = funcs[i]
         /\ Top' = funcs'[Len(funcs)] /\ Top' \in FuncSet
         /\ Grown(Top, Top', inst) /\ UsersGrown(Top, Top', inst)
<1> DEFINE k == Len(funcs)
           g == InsertInst(Top, inst)
<1>1. inst.operands \in Seq(Operand)
  BY DEF InstData
<1>2. CanInsert(stack, funcs, inst)
  BY <1>1, FitsIsKnown, InBlock DEF CanInsert, Known, Top
<1>3. status' = "run" /\ funcs' = [funcs EXCEPT ![k] = g]
  BY <1>2, InBlock DEF Emit, InsertInstruction, Top
<1>4. g \in FuncSet /\ Grown(Top, g, inst) /\ UsersGrown(Top, g, inst)
  BY InBlock, InsertInstIsFunc, InsertGrows
<1>5. funcs \in Seq(FuncSet) /\ k \in 1 .. Len(funcs) /\ k \in Nat \ {0}
  BY InBlock DEF Inv, TypeInv
<1> HIDE DEF g
<1>6. Len(funcs') = k /\ \A i \in 1 .. k : funcs'[i] = IF i = k THEN g ELSE funcs[i]
  BY <1>3, <1>4, <1>5, ExceptSeq
<1>7. Top' = g /\ funcs'[k] = g
  BY <1>5, <1>6 DEF Top
<1>8. \A i \in 1 .. k - 1 : funcs'[i] = funcs[i]
  BY <1>5, <1>6
<1> QED BY <1>3, <1>4, <1>5, <1>6, <1>7, <1>8

\* Where an ALLOC is after a step: where it was, or at the new place.
LEMMA EmitKeepsProgram ==
  ASSUME Inv, ProgInv, status = "run", open > 0,
         NEW inst \in InstData, inst.users = <<>>, Fits(Top, Top.next_inst_id, inst),
         Emit(inst),
         inst.opcode = "ALLOC" => inst.ir_obj.val = nextPtr /\ nextPtr' = nextPtr + 1,
         inst.opcode # "ALLOC" => nextPtr' = nextPtr
  PROVE  ProgInv'
<1> DEFINE k == Len(funcs)
           n == Top.next_inst_id
<1>1. /\ Len(funcs') = k /\ k \in Nat \ {0}
      /\ \A i \in 1 .. k - 1 : funcs'[i] = funcs[i]
      /\ Top' = funcs'[k] /\ Top' \in FuncSet
      /\ Grown(Top, Top', inst) /\ UsersGrown(Top, Top', inst)
  BY EmitGrows
<1>2. Top \in FuncSet /\ n \in Nat /\ Top = funcs[k] /\ nextPtr \in Nat
  BY InBlock DEF Top, Inv, TypeInv
<1>3. LegalFunc(Top) /\ UsersMatch(Top)
  BY <1>1, <1>2 DEF ProgInv
<1>4. LegalFunc(Top') /\ UsersMatch(Top')
  BY <1>1, <1>2, <1>3, LegalGrows, UsersGrow
<1>5. ASSUME NEW i \in 1 .. k PROVE LegalFunc(funcs'[i]) /\ UsersMatch(funcs'[i])
  <2>1. CASE i = k
    BY <1>1, <1>4, <2>1
  <2>2. CASE i # k
    <3>1. i \in 1 .. k - 1
      BY <1>1, <2>2
    <3> QED BY <1>1, <3>1 DEF ProgInv
  <2> QED BY <2>1, <2>2
<1>6. ASSUME NEW i \in 1 .. k, NEW id \in 0 .. funcs'[i].next_inst_id - 1, IsAlloc(i, id)'
      PROVE  \/ /\ id \in 0 .. funcs[i].next_inst_id - 1 /\ IsAlloc(i, id)
                /\ PointerOf(i, id)' = PointerOf(i, id)
             \/ /\ i = k /\ id = n /\ PointerOf(i, id)' = nextPtr
                /\ nextPtr' = nextPtr + 1
  <2>1. CASE i # k
    <3>1. i \in 1 .. k - 1
      BY <1>1, <2>1
    <3> QED BY <1>1, <1>6, <3>1 DEF IsAlloc, PointerOf
  <2>2. CASE i = k
    <3>1. funcs'[i] = Top' /\ funcs[i] = Top /\ id \in 0 .. n
          /\ SameCode(Top'.inst_map[id], Entry(Top, inst, id))
      BY <1>1, <1>2, <2>2 DEF Grown
    <3>2. CASE id = n
      BY <1>6, <2>2, <3>1, <3>2 DEF IsAlloc, PointerOf, SameCode, Entry
    <3>3. CASE id # n
      BY <1>2, <1>6, <3>1, <3>3 DEF IsAlloc, PointerOf, SameCode, Entry
    <3> QED BY <3>2, <3>3
  <2> QED BY <2>1, <2>2
<1>7. nextPtr' \in Nat /\ nextPtr' >= nextPtr
  BY <1>2
<1>8. ASSUME NEW i \in 1 .. k, NEW id \in 0 .. funcs'[i].next_inst_id - 1, IsAlloc(i, id)'
      PROVE  PointerOf(i, id)' \in 0 .. nextPtr' - 1
  BY <1>2, <1>6, <1>7, <1>8 DEF ProgInv, PointersApart
<1>9. ASSUME NEW i \in 1 .. k, NEW id \in 0 .. funcs'[i].next_inst_id - 1, IsAlloc(i, id)',
             NEW j \in 1 .. k, NEW jd \in 0 .. funcs'[j].next_inst_id - 1, IsAlloc(j, jd)',
             PointerOf(j, jd)' = PointerOf(i, id)'
      PROVE  i = j /\ id = jd
  BY <1>2, <1>6, <1>9 DEF ProgInv, PointersApart
<1>10. PointersApart'
  BY <1>1, <1>8, <1>9 DEF PointersApart
<1> QED BY <1>1, <1>5, <1>10 DEF ProgInv

-----------------------------------------------------------------------------
(* What the handlers know stays true.                                      *)

KnowledgeKept ==
  /\ \A ptr : Allocated(Top, ptr) => Allocated(Top', ptr)
  /\ \A ptr : Stored(Top, ptr) => Stored(Top', ptr)
  /\ \A obj : IsOperand(Top, obj) => IsOperand(Top', obj)

LEMMA EmitTeaches ==
  ASSUME Inv, status = "run", open > 0,
         NEW inst \in InstData, Fits(Top, Top.next_inst_id, inst), Emit(inst)
  PROVE  /\ KnowledgeKept
         /\ inst.opcode = "ALLOC" => Allocated(Top', inst.ir_obj.val)
         /\ inst.opcode = "STORE" => Stored(Top', inst.operands[2].val)
         /\ inst.opcode \in Builder!Binary \cup {"LOAD"} =>
              IsOperand(Top', InstIdObj(Top.next_inst_id))
<1> DEFINE n == Top.next_inst_id
<1>1. Top \in FuncSet /\ n \in Nat /\ Grown(Top, Top', inst) /\ Top'.next_inst_id = n + 1
  BY InBlock, EmitGrows DEF Grown
<1>2. /\ \A o : Usable(Top', n, o) <=> Usable(Top, n, o)
      /\ \A ptr : AllocIn(Top', n, ptr) <=> AllocIn(Top, n, ptr)
      /\ \A ptr : StoreIn(Top', n, ptr) <=> StoreIn(Top, n, ptr)
  BY <1>1, Prefix
<1>3. /\ \A o : Usable(Top', n, o) => Usable(Top', n + 1, o)
      /\ \A ptr : AllocIn(Top', n, ptr) => AllocIn(Top', n + 1, ptr)
      /\ \A ptr : StoreIn(Top', n, ptr) => StoreIn(Top', n + 1, ptr)
  BY <1>1, Later
<1>4. KnowledgeKept
  BY <1>1, <1>2, <1>3 DEF KnowledgeKept, Allocated, Stored, IsOperand
<1>5. SameCode(Top'.inst_map[n], inst) /\ n \in 0 .. n + 1 - 1
  BY <1>1 DEF Grown, Entry
<1>6. inst.opcode = "ALLOC" => Allocated(Top', inst.ir_obj.val)
  BY <1>1, <1>5 DEF Allocated, AllocIn, SameCode
<1>7. inst.opcode = "STORE" => Stored(Top', inst.operands[2].val)
  BY <1>1, <1>5 DEF Stored, StoreIn, SameCode
<1>8. ASSUME inst.opcode \in Builder!Binary \cup {"LOAD"}
      PROVE  IsOperand(Top', InstIdObj(n))
  <2>1. inst.opcode \in ValueOps \ {"ALLOC"}
    BY <1>8 DEF Builder!Binary, Builder!ValueOps, ValueOps
  <2>2. FromParseResult(InstIdObj(n)).kind = "InstId" /\ FromParseResult(InstIdObj(n)).val = n
    BY DEF FromParseResult, InstIdObj, Obj
  <2>3. Usable(Top', n + 1, FromParseResult(InstIdObj(n)))
    BY <1>5, <2>1, <2>2 DEF Usable, SameCode
  <2> QED BY <1>1, <2>3 DEF IsOperand
<1> QED BY <1>4, <1>6, <1>7, <1>8

LEMMA SameFuncsTeach == ASSUME UNCHANGED funcs PROVE KnowledgeKept
  BY DEF KnowledgeKept, Allocated, Stored, IsOperand, Top

LEMMA SameProgram == ASSUME ProgInv, UNCHANGED <<funcs, nextPtr>> PROVE ProgInv'
  BY DEF ProgInv, PointersApart, IsAlloc, PointerOf

LEMMA SameTablesMatch ==
  ASSUME TablesMatch, KnowledgeKept, UNCHANGED stack
  PROVE  TablesMatch'
  BY DEF TablesMatch, KnowledgeKept

LEMMA SameStmtMatches ==
  ASSUME StmtMatches, KnowledgeKept, UNCHANGED <<stack, stmt>>
  PROVE  StmtMatches'
  BY DEF StmtMatches, KnowledgeKept

LEMMA NoStmtMatches ==
  ASSUME stmt'.kind \notin {"var", "assign"}
  PROVE  StmtMatches'
  BY DEF StmtMatches

LEMMA NoValsMatch == ASSUME vals' = <<>> PROVE ValsMatch'
  BY EmptySeq DEF ValsMatch

\* The last k results give way to a new one.
LEMMA ReplaceTopMatches ==
  ASSUME NEW S, vals \in Seq(S), ValsMatch, KnowledgeKept, NEW k \in 0 .. Len(vals),
         NEW obj, IsOperand(Top', obj), vals' = ReplaceTop(k, obj)
  PROVE  ValsMatch'
<1> DEFINE n == Len(vals) - k
           t == SubSeq(vals, 1, n)
           T == S \cup {obj}
<1>1. Len(vals) \in Nat /\ n \in Int /\ n <= Len(vals) /\ n \in Nat
      /\ \A i \in 1 .. Len(vals) : vals[i] \in T
  BY LenProperties, ElementOfSeq
<1> HIDE DEF n, T
<1>2. t \in Seq(T) /\ Len(t) = n /\ \A i \in 1 .. n : t[i] = vals[i]
  <2>1. \A i \in 1 .. n : vals[i] \in T
    BY <1>1
  <2>2. t \in Seq(T) /\ Len(t) = (IF 1 <= n THEN n - 1 + 1 ELSE 0)
        /\ \A i \in 1 .. n - 1 + 1 : t[i] = vals[1 + i - 1]
    BY <1>1, <2>1, SubSeqProperties
  <2> HIDE DEF t
  <2> QED BY <1>1, <2>2
<1>3. vals' = Append(t, obj)
  BY DEF ReplaceTop, n
<1> HIDE DEF t
<1>4. obj \in T
  BY DEF T
<1>5. Len(vals') = n + 1 /\ \A i \in 1 .. n + 1 : vals'[i] = IF i = n + 1 THEN obj ELSE t[i]
  <2>1. Len(Append(t, obj)) = n + 1
        /\ \A i \in 1 .. n + 1 : Append(t, obj)[i] = IF i = n + 1 THEN obj ELSE t[i]
    BY <1>1, <1>2, <1>4, AppendProperties
  <2> QED BY <1>3, <2>1
<1>6. ASSUME NEW i \in 1 .. n + 1 PROVE IsOperand(Top', vals'[i])
  <2>1. CASE i = n + 1
    BY <1>5, <2>1
  <2>2. CASE i # n + 1
    <3>1. i \in 1 .. Len(vals) /\ vals'[i] = vals[i]
      BY <1>1, <1>2, <1>5, <2>2
    <3> QED BY <3>1 DEF ValsMatch, KnowledgeKept
  <2> QED BY <2>1, <2>2
<1> QED BY <1>5, <1>6 DEF ValsMatch

\* The end of a function is a matter of functions only.
LEMMA EmitKeepsOpen ==
  ASSUME Inv, status = "run", open > 0, Top.ir_blocks = 0,
         NEW inst \in InstData, Fits(Top, Top.next_inst_id, inst), Emit(inst)
  PROVE  Top'.ir_blocks = 0
  BY EmitGrows DEF Grown

-----------------------------------------------------------------------------
(* What a step does to the code.                                           *)

\* An instruction is emitted that is legal where it comes to stand.
Emits(inst) ==
  /\ status = "run" /\ open > 0
  /\ inst.users = <<>> /\ Fits(Top, Top.next_inst_id, inst) /\ Emit(inst)
  /\ inst.opcode = "ALLOC" => inst.ir_obj.val = nextPtr

CodeGrows == UNCHANGED funcs \/ \E inst \in InstData : Emits(inst)

-----------------------------------------------------------------------------
(* Expressions.                                                            *)

\* An instruction as the handlers build it.
LEMMA BuiltInst ==
  ASSUME NEW typ \in BType, NEW obj \in IRObj, NEW opcode \in KoopaOpCode,
         NEW operands \in Seq(Operand)
  PROVE  LET inst == Inst(typ, obj, opcode, operands)
         IN /\ inst \in InstData /\ inst.users = <<>> /\ inst.typ = typ
            /\ inst.ir_obj = obj /\ inst.opcode = opcode /\ inst.operands = operands
<1>1. Inst(typ, obj, opcode, operands) \in InstData
  BY InstIsInstData
<1> QED BY <1>1 DEF Inst

LEMMA EmitValueMatches ==
  ASSUME Inv, CodeInv, InVarExp, NEW opcode \in Builder!Binary \cup {"LOAD"}, FromSource(opcode),
         NEW operands \in Seq(Operand), NEW k \in 0 .. Len(vals),
         Len(operands) = Builder!Arity(opcode),
         opcode \in Builder!Binary =>
           \A i \in 1 .. Len(operands) : Usable(Top, Top.next_inst_id, operands[i]),
         opcode = "LOAD" => /\ operands[1].kind = "Pointer"
                            /\ Allocated(Top, operands[1].val) /\ Stored(Top, operands[1].val),
         EmitValue(opcode, operands, k), UNCHANGED <<stack, nextPtr, open, stmt>>
  PROVE  CodeInv' /\ CodeGrows
<1> DEFINE result == InstIdObj(NextInstId(stack, funcs))
           inst   == Inst("Int", result, opcode, operands)
<1>1. status = "run" /\ open > 0 /\ vals \in Seq(Results)
  BY InExp
<1>2. result = InstIdObj(Top.next_inst_id) /\ result \in IRObj
  <2>1. NextInstId(stack, funcs) = Top.next_inst_id /\ Top.next_inst_id \in Nat
    BY <1>1, InBlock DEF NextInstId, Top
  <2> QED BY <2>1 DEF InstIdObj, Obj, IRObj
<1>3. opcode \in KoopaOpCode /\ opcode \in ValueOps \ {"ALLOC"} /\ "Int" \in BType
  BY DEF Builder!Binary, Builder!ValueOps, ValueOps, KoopaOpCode, BType
<1>4. Emit(inst) /\ vals' = ReplaceTop(k, result)
  BY DEF EmitValue
<1> HIDE DEF result
<1>5. /\ inst \in InstData /\ inst.users = <<>> /\ inst.typ = "Int" /\ inst.ir_obj = result
      /\ inst.opcode = opcode /\ inst.operands = operands
  BY <1>2, <1>3, BuiltInst
<1> HIDE DEF inst
<1>6. Fits(Top, Top.next_inst_id, inst)
  <2>1. opcode \notin {"RET", "STORE", "ALLOC"}
    BY <1>3 DEF ValueOps
  <2> QED BY <1>2, <1>3, <1>5, <2>1 DEF Fits, Allocated, Stored
<1>7. ProgInv'
  <2>1. inst.opcode # "ALLOC" /\ nextPtr' = nextPtr
    BY <1>3, <1>5
  <2> QED BY <1>1, <1>4, <1>5, <1>6, <2>1, EmitKeepsProgram DEF CodeInv
<1>8. KnowledgeKept /\ IsOperand(Top', result)
  <2>1. KnowledgeKept /\ IsOperand(Top', InstIdObj(Top.next_inst_id))
    BY <1>1, <1>4, <1>5, <1>6, EmitTeaches
  <2> QED BY <1>2, <2>1
<1>9. TablesMatch' /\ StmtMatches'
  BY <1>8, SameTablesMatch, SameStmtMatches DEF CodeInv
<1>10. ValsMatch'
  BY <1>1, <1>4, <1>8, ReplaceTopMatches DEF CodeInv
<1>11. Top'.ir_blocks = 0
  BY <1>1, <1>4, <1>5, <1>6, EmitKeepsOpen DEF CodeInv
<1>12. CodeGrows
  BY <1>1, <1>3, <1>4, <1>5, <1>6 DEF CodeGrows, Emits
<1> QED BY <1>7, <1>9, <1>10, <1>11, <1>12 DEF CodeInv

\* Results that are left alone, or gain one.
LEMMA AppendMatches ==
  ASSUME NEW S, vals \in Seq(S), ValsMatch, KnowledgeKept,
         NEW obj, IsOperand(Top', obj), vals' = Append(vals, obj)
  PROVE  ValsMatch'
<1> DEFINE T == S \cup {obj}
           n == Len(vals)
<1>1. n \in Nat /\ vals \in Seq(T)
  BY LenProperties, SeqMonotonic
<1>2. obj \in T
  OBVIOUS
<1> HIDE DEF T
<1>3. Len(vals') = n + 1 /\ \A i \in 1 .. n + 1 : vals'[i] = IF i = n + 1 THEN obj ELSE vals[i]
  BY <1>1, <1>2, AppendProperties
<1>4. ASSUME NEW i \in 1 .. n + 1 PROVE IsOperand(Top', vals'[i])
  <2>1. CASE i = n + 1
    BY <1>3, <2>1
  <2>2. CASE i # n + 1
    <3>1. i \in 1 .. n /\ vals'[i] = vals[i]
      BY <1>1, <1>3, <2>2
    <3> QED BY <3>1 DEF ValsMatch, KnowledgeKept
  <2> QED BY <2>1, <2>2
<1> QED BY <1>3, <1>4 DEF ValsMatch

\* A step that emits nothing.
LEMMA QuietStep ==
  ASSUME CodeInv, UNCHANGED <<funcs, nextPtr>>, open' > 0 => open > 0,
         TablesMatch', StmtMatches', ValsMatch'
  PROVE  CodeInv' /\ CodeGrows
<1>1. ProgInv'
  BY SameProgram DEF CodeInv
<1>2. Top' = Top
  BY DEF Top
<1> QED BY <1>1, <1>2 DEF CodeInv, CodeGrows

\* A step that emits nothing and leaves the tables and the statement alone.
LEMMA QuietExp ==
  ASSUME CodeInv, UNCHANGED <<funcs, nextPtr, stack, stmt, open>>, ValsMatch'
  PROVE  CodeInv' /\ CodeGrows
<1>1. TablesMatch' /\ StmtMatches'
  BY SameFuncsTeach, SameTablesMatch, SameStmtMatches DEF CodeInv
<1> QED BY <1>1, QuietStep

LEMMA SameValsMatch ==
  ASSUME ValsMatch, UNCHANGED <<funcs, vals>>
  PROVE  ValsMatch'
  BY DEF ValsMatch, Top

LEMMA ConstIsOperand ==
  ASSUME NEW f, NEW obj, obj.kind = "Const", obj.val \in Int32
  PROVE  IsOperand(f, obj)
  BY DEF IsOperand, Usable, FromParseResult

LEMMA NumberMatches ==
  ASSUME Inv, CodeInv, NEW c \in Literals, Number(c)
  PROVE  CodeInv' /\ CodeGrows
<1>1. vals' = Append(vals, ConstObj(c)) /\ vals \in Seq(Results)
      /\ UNCHANGED <<funcs, nextPtr, stack, stmt, open>>
  BY InExp DEF Number
<1>2. IsOperand(Top', ConstObj(c))
  <2>1. c \in Int32
    BY IRGenAssumption, I32Range DEF Int32
  <2> QED BY <2>1, ConstIsOperand DEF ConstObj, Obj
<1>3. ValsMatch'
  BY <1>1, <1>2, SameFuncsTeach, AppendMatches DEF CodeInv
<1> QED BY <1>1, <1>3, QuietExp

LEMMA BinaryVarMatches ==
  ASSUME Inv, CodeInv, NEW code, NEW op, BinaryVar(code, op),
         op \in DOMAIN code => code[op] \in Builder!Binary /\ FromSource(code[op])
  PROVE  CodeInv' /\ CodeGrows
<1> DEFINE operands == <<FromParseResult(Left), FromParseResult(Right)>>
<1>1. InVarExp /\ Len(vals) >= 2 /\ code[op] \in Builder!Binary /\ FromSource(code[op])
      /\ EmitValue(code[op], operands, 2) /\ UNCHANGED <<stack, nextPtr, open, stmt>>
  BY DEF BinaryVar
<1>2. vals \in Seq(Results) /\ Len(vals) \in Nat
  BY <1>1, InExp
<1>3. Left \in Results /\ Right \in Results /\ IsOperand(Top, Left) /\ IsOperand(Top, Right)
  BY <1>1, <1>2, ElementOfSeq DEF Left, Right, CodeInv, ValsMatch
<1>4. operands \in Seq(Operand) /\ Len(operands) = 2
  BY <1>3, ResultIsKnown, KnownPair DEF Known
<1>5. \A i \in 1 .. Len(operands) : Usable(Top, Top.next_inst_id, operands[i])
  <2>1. /\ Usable(Top, Top.next_inst_id, operands[1])
        /\ Usable(Top, Top.next_inst_id, operands[2])
    BY <1>3 DEF IsOperand
  <2> HIDE DEF operands
  <2> QED BY <1>4, <2>1
<1>6. Builder!Arity(code[op]) = 2 /\ code[op] # "LOAD"
  BY <1>1 DEF Builder!Arity, Builder!Binary
<1>7. code[op] \in Builder!Binary \cup {"LOAD"} /\ 2 \in 0 .. Len(vals)
  BY <1>1, <1>2
<1>8. EmitValue(code[op], operands, 2) /\ UNCHANGED <<stack, nextPtr, open, stmt>>
  BY <1>1
<1> HIDE DEF operands
<1> QED BY <1>1, <1>4, <1>5, <1>6, <1>7, <1>8, EmitValueMatches

\* A pointer that the innermost declaration of a name gives is a table's.
LEMMA HighestIsEntry ==
  ASSUME Inv, CodeInv, NEW n, FindHighestPriority(stack, n).kind = "Pointer"
  PROVE  LET obj == FindHighestPriority(stack, n)
         IN Allocated(Top, obj.val) /\ (obj.initialized => Stored(Top, obj.val))
<1> DEFINE scopes == ConstScopes(stack, n) \cup PointerScopes(stack, n)
           k      == Max(scopes)
           obj    == FindHighestPriority(stack, n)
<1>1. stack \in Seq(ContextSet(1 .. Len(funcs), Consts, Pointers))
  BY DEF Inv, TypeInv, Contexts
<1>2. scopes # {}
  BY DEF FindHighestPriority, NoObj, Obj
<1>3. k \in scopes /\ k \in 1 .. Len(stack)
      /\ stack[k] \in ContextSet(1 .. Len(funcs), Consts, Pointers)
  BY <1>1, <1>2, LatestScope DEF ConstScopes, PointerScopes
<1>4. obj = IF n \in DOMAIN stack[k].global_pointer_table
            THEN stack[k].global_pointer_table[n] ELSE stack[k].global_const_table[n]
  BY <1>2 DEF FindHighestPriority
<1>5. n \in DOMAIN stack[k].global_pointer_table
  <2>1. n \in DOMAIN stack[k].global_const_table
          => stack[k].global_const_table[n] \in Consts
    <3>1. stack[k].global_const_table \in TableSet(Consts)
      BY <1>3 DEF ContextSet
    <3> HIDE DEF k
    <3> QED BY <3>1 DEF TableSet
  <2>2. n \in DOMAIN stack[k].global_const_table \/ n \in DOMAIN stack[k].global_pointer_table
    BY <1>3 DEF ConstScopes, PointerScopes
  <2> HIDE DEF k
  <2> QED BY <1>4, <2>1, <2>2 DEF Consts, IsConst
<1> HIDE DEF k
<1> QED BY <1>3, <1>4, <1>5 DEF CodeInv, TablesMatch

LEMMA LValVarMatches ==
  ASSUME Inv, CodeInv, NEW n, LValVar(n)
  PROVE  CodeInv' /\ CodeGrows
<1> DEFINE obj == FindHighestPriority(stack, n)
<1>1. InVarExp /\ UNCHANGED <<stack, nextPtr, open, stmt>> /\ vals \in Seq(Results)
      /\ Len(vals) \in Nat
  BY InExp DEF LValVar
<1>2. CASE UNCHANGED <<funcs, vals>>
  BY <1>1, <1>2, SameValsMatch, QuietExp DEF CodeInv
<1>3. ASSUME obj.kind = "Pointer", obj.initialized,
             EmitValue("LOAD", <<FromParseResult(obj)>>, 0)
      PROVE  CodeInv' /\ CodeGrows
  <2> DEFINE operands == <<FromParseResult(obj)>>
  <2>1. Allocated(Top, obj.val) /\ Stored(Top, obj.val)
    BY <1>3, HighestIsEntry
  <2>2. obj \in Pointers
    <3>1. obj \in Consts \cup Pointers \cup {NoObj}
      BY HighestPriority DEF Inv, TypeInv, Contexts
    <3> QED BY <1>3, <3>1 DEF Consts, IsConst, NoObj, Obj
  <2>3. operands \in Seq(Operand) /\ Len(operands) = 1
    BY <2>2, OtherOperands, KnownPair DEF Known
  <2>4. operands[1].kind = "Pointer" /\ operands[1].val = obj.val
    BY <1>3 DEF FromParseResult
  <2>5. Builder!Arity("LOAD") = 1 /\ "LOAD" \notin Builder!Binary
        /\ "LOAD" \in Builder!Binary \cup {"LOAD"} /\ FromSource("LOAD")
    BY DEF Builder!Arity, Builder!Binary, FromSource, KoopaOpCode, ValueOps
  <2>6. EmitValue("LOAD", operands, 0) /\ 0 \in 0 .. Len(vals)
    BY <1>1, <1>3
  <2>7. operands[1].kind = "Pointer"
        /\ Allocated(Top, operands[1].val) /\ Stored(Top, operands[1].val)
    BY <2>1, <2>4
  <2> HIDE DEF operands, obj
  <2> QED BY <1>1, <2>3, <2>5, <2>6, <2>7, EmitValueMatches
<1>4. ASSUME obj.kind = "Const", vals' = Append(vals, obj), UNCHANGED funcs
      PROVE  CodeInv' /\ CodeGrows
  <2>1. IsOperand(Top', obj)
    <3>1. obj \in Consts \cup Pointers \cup {NoObj}
      BY HighestPriority DEF Inv, TypeInv, Contexts
    <3>2. obj \in Consts
      BY <1>4, <3>1 DEF Pointers, IsPointer, NoObj, Obj
    <3> QED BY <3>2, ConstIsOperand DEF Consts, IsConst
  <2>2. ValsMatch'
    BY <1>1, <1>4, <2>1, SameFuncsTeach, AppendMatches DEF CodeInv
  <2> QED BY <1>1, <1>4, <2>2, QuietExp
<1> QED BY <1>2, <1>3, <1>4 DEF LValVar

LEMMA UnaryVarMatches ==
  ASSUME Inv, CodeInv, NEW op, UnaryVar(op)
  PROVE  CodeInv' /\ CodeGrows
<1> DEFINE operands == <<FromParseResult(ConstObj(0)), FromParseResult(Right)>>
<1>1. InVarExp /\ vals # <<>> /\ UNCHANGED <<stack, nextPtr, open, stmt>>
      /\ vals \in Seq(Results) /\ Len(vals) \in Nat
  BY InExp DEF UnaryVar
<1>2. CASE UNCHANGED <<funcs, vals>>
  BY <1>1, <1>2, SameValsMatch, QuietExp DEF CodeInv
<1>3. ASSUME op \in DOMAIN UnaryCode, EmitValue(UnaryCode[op], operands, 1)
      PROVE  CodeInv' /\ CodeGrows
  <2>1. UnaryCode[op] \in Builder!Binary /\ FromSource(UnaryCode[op])
    <3>1. op \in {"Minus", "Not"} /\ UnaryCode[op] \in {"SUB", "EQ"}
      BY <1>3 DEF UnaryCode
    <3> QED BY <3>1 DEF Builder!Binary, Builder!ValueOps, FromSource, KoopaOpCode, ValueOps
  <2>2. Right \in Results /\ IsOperand(Top, Right) /\ 1 \in 0 .. Len(vals)
    <3>1. Len(vals) # 0
      BY <1>1, EmptySeq
    <3> QED BY <1>1, <3>1, ElementOfSeq DEF Right, CodeInv, ValsMatch
  <2>3. operands \in Seq(Operand) /\ Len(operands) = 2
    <3>1. KnownOperand(FromParseResult(ConstObj(0)))
      BY OtherOperands
    <3>2. KnownOperand(FromParseResult(Right))
      BY <2>2, ResultIsKnown
    <3> QED BY <3>1, <3>2, KnownPair DEF Known
  <2>4. \A i \in 1 .. Len(operands) : Usable(Top, Top.next_inst_id, operands[i])
    <3>1. IsOperand(Top, ConstObj(0))
      <4>1. 0 \in Int32
        BY I32Range DEF Int32
      <4> QED BY <4>1, ConstIsOperand DEF ConstObj, Obj
    <3>2. /\ Usable(Top, Top.next_inst_id, operands[1])
          /\ Usable(Top, Top.next_inst_id, operands[2])
      BY <2>2, <3>1 DEF IsOperand
    <3> HIDE DEF operands
    <3> QED BY <2>3, <3>2
  <2>5. Builder!Arity(UnaryCode[op]) = 2 /\ UnaryCode[op] # "LOAD"
    BY <2>1 DEF Builder!Arity, Builder!Binary
  <2> HIDE DEF operands
  <2> QED BY <1>1, <1>3, <2>1, <2>2, <2>3, <2>4, <2>5, EmitValueMatches
<1> QED BY <1>2, <1>3 DEF UnaryVar

LEMMA BinaryVarsMatch ==
  ASSUME Inv, CodeInv, NEW op \in Operators,
         \/ LOrExpVar(op) \/ LAndExpVar(op) \/ EqExpVar(op)
         \/ RelExpVar(op) \/ MulExpVar(op)  \/ AddExpVar(op)
  PROVE  CodeInv' /\ CodeGrows
<1> USE DEF Builder!Binary, Builder!ValueOps, FromSource, KoopaOpCode, ValueOps
<1>1. CASE LOrExpVar(op)
  BY <1>1, BinaryVarMatches DEF LOrExpVar
<1>2. CASE LAndExpVar(op)
  BY <1>2, BinaryVarMatches DEF LAndExpVar
<1>3. CASE EqExpVar(op)
  BY <1>3, BinaryVarMatches DEF EqExpVar
<1>4. CASE RelExpVar(op)
  BY <1>4, BinaryVarMatches DEF RelExpVar
<1>5. CASE MulExpVar(op)
  BY <1>5, BinaryVarMatches DEF MulExpVar
<1>6. CASE AddExpVar(op)
  BY <1>6, BinaryVarMatches DEF AddExpVar
<1> QED BY <1>1, <1>2, <1>3, <1>4, <1>5, <1>6

\* Constant expressions emit nothing and give only constants.
LEMMA ConstMatches ==
  ASSUME Inv', CodeInv, stmt.kind = "const",
         UNCHANGED <<stack, nextPtr, funcs, open, stmt>>
  PROVE  CodeInv' /\ CodeGrows
<1>1. vals' \in Seq(Results')
  BY DEF Inv, TypeInv
<1>2. ASSUME NEW k \in 1 .. Len(vals') PROVE vals'[k].kind = "Const" /\ vals'[k].val \in Int32
  BY <1>1, ElementOfSeq DEF Results, IsResult, IsConst
<1>3. ValsMatch'
  BY <1>2, ConstIsOperand DEF ValsMatch
<1> QED BY <1>3, QuietExp

LEMMA ConstsMatch ==
  ASSUME Inv', CodeInv, NEW n, NEW op,
         \/ LValConst(n)    \/ UnaryConst(op)
         \/ LOrExpConst(op) \/ LAndExpConst(op) \/ EqExpConst(op)
         \/ RelExpConst(op) \/ MulExpConst(op)  \/ AddExpConst(op)
  PROVE  CodeInv' /\ CodeGrows
<1>1. stmt.kind = "const" /\ UNCHANGED <<stack, nextPtr, funcs, open, stmt>>
  BY DEF LValConst, UnaryConst, LOrExpConst, LAndExpConst, EqExpConst, RelExpConst,
         MulExpConst, AddExpConst, BinaryConst, InConstExp
<1> QED BY <1>1, ConstMatches

LEMMA ExpsMatch == ASSUME Inv, Inv', CodeInv, Exps PROVE CodeInv' /\ CodeGrows
<1>1. CASE \E c \in Literals : Number(c)
  BY <1>1, NumberMatches
<1>2. CASE \E n \in Names : LValVar(n) \/ LValConst(n)
  BY <1>2, LValVarMatches, ConstsMatch
<1>3. CASE \E op \in Operators \cap UnaryOps : UnaryVar(op) \/ UnaryConst(op)
  BY <1>3, UnaryVarMatches, ConstsMatch
<1>4. CASE \E op \in Operators \ UnaryOps :
             \/ LOrExpVar(op)   \/ LAndExpVar(op)   \/ EqExpVar(op)
             \/ RelExpVar(op)   \/ MulExpVar(op)    \/ AddExpVar(op)
             \/ LOrExpConst(op) \/ LAndExpConst(op) \/ EqExpConst(op)
             \/ RelExpConst(op) \/ MulExpConst(op)  \/ AddExpConst(op)
  BY <1>4, BinaryVarsMatch, ConstsMatch
<1> QED BY <1>1, <1>2, <1>3, <1>4 DEF Exps

-----------------------------------------------------------------------------
(* Declarations and statements.                                            *)

LEMMA EmitItem ==
  ASSUME Inv, CodeInv, status = "run", open > 0,
         NEW inst \in InstData, inst.users = <<>>, Fits(Top, Top.next_inst_id, inst),
         Emit(inst),
         inst.opcode = "ALLOC" => inst.ir_obj.val = nextPtr /\ nextPtr' = nextPtr + 1,
         inst.opcode # "ALLOC" => nextPtr' = nextPtr,
         vals' = <<>>, TablesMatch', StmtMatches'
  PROVE  CodeInv' /\ CodeGrows
<1>1. ProgInv'
  BY EmitKeepsProgram DEF CodeInv
<1>2. Top'.ir_blocks = 0
  BY EmitKeepsOpen DEF CodeInv
<1> QED BY <1>1, <1>2, NoValsMatch DEF CodeInv, CodeGrows, Emits

\* The entries of the pointer tables after insert_pointer.
LEMMA InsertedEntries ==
  ASSUME NEW F, NEW consts, NEW pointers,
         NEW st \in Seq(ContextSet(F, consts, pointers)), st # <<>>,
         NEW n \in Names, NEW obj \in pointers,
         NEW t, t = InsertPointer(st, n, obj)
  PROVE  /\ Len(t) = Len(st)
         /\ \A i \in 1 .. Len(st) : \A m \in DOMAIN t[i].global_pointer_table :
              \/ t[i].global_pointer_table[m] = obj
              \/ /\ m \in DOMAIN st[i].global_pointer_table
                 /\ t[i].global_pointer_table[m] = st[i].global_pointer_table[m]
<1> DEFINE C  == ContextSet(F, consts, pointers)
           k  == Len(st)
           tb == Put(st[k].global_pointer_table, n, obj)
           c  == [st[k] EXCEPT !.global_pointer_table = tb]
<1>1. k \in Nat \ {0} /\ st[k] \in C /\ DOMAIN st = 1 .. k /\ st \in Seq(C)
  BY LastAndFront, LenProperties
<1>2. Len(t) = Len(st)
  BY InsertPointerIsStack
<1>3. c.global_pointer_table = tb
  BY <1>1 DEF ContextSet
<1>4. \A m \in DOMAIN tb :
        \/ tb[m] = obj
        \/ m \in DOMAIN st[k].global_pointer_table /\ tb[m] = st[k].global_pointer_table[m]
  BY DEF Put
<1>5. t = [st EXCEPT ![k] = c]
  BY DEF InsertPointer
<1> HIDE DEF tb, c
<1>6. \A i \in 1 .. k : t[i] = IF i = k THEN c ELSE st[i]
  BY <1>1, <1>5
<1> QED BY <1>2, <1>3, <1>4, <1>6

\* The entries after set_pointer_initialized.
LEMMA InitializedEntries ==
  ASSUME NEW F, NEW consts, NEW pointers,
         NEW st \in Seq(ContextSet(F, consts, pointers)), NEW n,
         PointerScopes(st, n) # {}, pointers \subseteq IRObj,
         NEW t, t = SetPointerInitialized(st, n)
  PROVE  /\ Len(t) = Len(st)
         /\ \A i \in 1 .. Len(st) : \A m \in DOMAIN t[i].global_pointer_table :
              /\ m \in DOMAIN st[i].global_pointer_table
              /\ t[i].global_pointer_table[m].val = st[i].global_pointer_table[m].val
              /\ \/ t[i].global_pointer_table[m] = st[i].global_pointer_table[m]
                 \/ t[i].global_pointer_table[m].val = GetLatestPointer(st, n).val
<1> DEFINE C  == ContextSet(F, consts, pointers)
           k  == Max(PointerScopes(st, n))
           p  == st[k].global_pointer_table
           e  == [p[n] EXCEPT !.initialized = TRUE]
           tb == [p EXCEPT ![n] = e]
           c  == [st[k] EXCEPT !.global_pointer_table = tb]
<1>1. k \in PointerScopes(st, n) /\ k \in 1 .. Len(st) /\ st[k] \in C /\ st \in Seq(C)
  BY LatestScope DEF PointerScopes
<1>2. n \in DOMAIN p /\ p \in TableSet(pointers)
  BY <1>1 DEF PointerScopes, ContextSet
<1>3. GetLatestPointer(st, n) = p[n]
  BY DEF GetLatestPointer
<1>4. DOMAIN tb = DOMAIN p /\ \A m \in DOMAIN p : tb[m] = IF m = n THEN e ELSE p[m]
  <2>1. PICK D \in SUBSET Names : p \in [D -> pointers]
    BY <1>2 DEF TableSet
  <2> HIDE DEF p, e
  <2> QED BY <1>2, <2>1
<1>5. e.val = p[n].val
  <2>1. p[n] \in IRObj
    BY <1>2 DEF TableSet
  <2> HIDE DEF p
  <2> QED BY <2>1 DEF IRObj
<1>6. c.global_pointer_table = tb
  BY <1>1 DEF ContextSet
<1>7. t = [st EXCEPT ![k] = c]
  BY DEF SetPointerInitialized
<1>8. DOMAIN st = 1 .. Len(st) /\ Len(t) = Len(st)
  <2> DEFINE S == C \cup {c}
  <2>1. st \in Seq(S) /\ c \in S
    BY SeqMonotonic
  <2> HIDE DEF c, C, k, S
  <2> QED BY <1>1, <1>7, <2>1, ExceptSeq, LenProperties
<1> HIDE DEF p, e, tb, c, k
<1>9. \A i \in 1 .. Len(st) : t[i] = IF i = k THEN c ELSE st[i]
  BY <1>1, <1>7, <1>8
<1>10. ASSUME NEW i \in 1 .. Len(st), NEW m \in DOMAIN t[i].global_pointer_table
       PROVE  /\ m \in DOMAIN st[i].global_pointer_table
              /\ t[i].global_pointer_table[m].val = st[i].global_pointer_table[m].val
              /\ \/ t[i].global_pointer_table[m] = st[i].global_pointer_table[m]
                 \/ t[i].global_pointer_table[m].val = GetLatestPointer(st, n).val
  <2>1. CASE i # k
    BY <1>9, <2>1
  <2>2. CASE i = k
    <3>1. t[i].global_pointer_table = tb /\ m \in DOMAIN p
      BY <1>4, <1>6, <1>9, <2>2
    <3>2. st[i].global_pointer_table = p
      BY <2>2 DEF p
    <3> QED BY <1>3, <1>4, <1>5, <3>1, <3>2
  <2> QED BY <2>1, <2>2
<1> QED BY <1>8, <1>10

LEMMA ContextSeq ==
  ASSUME Inv, status = "run", open > 0
  PROVE  /\ stack \in Seq(ContextSet(1 .. Len(funcs), Consts, Pointers)) /\ stack # <<>>
         /\ Pointers \subseteq IRObj
  BY InBlock DEF Contexts, Pointers

\* insert_pointer of a pointer that is allocated, and stored to if it is marked.
LEMMA InsertPointerMatches ==
  ASSUME Inv, CodeInv, status = "run", open > 0, KnowledgeKept,
         NEW n \in Names, NEW p \in Pointers, stack' = InsertPointer(stack, n, p),
         Allocated(Top', p.val), p.initialized => Stored(Top', p.val)
  PROVE  TablesMatch'
<1>1. /\ Len(stack') = Len(stack)
      /\ \A i \in 1 .. Len(stack) : \A m \in DOMAIN stack'[i].global_pointer_table :
           \/ stack'[i].global_pointer_table[m] = p
           \/ /\ m \in DOMAIN stack[i].global_pointer_table
              /\ stack'[i].global_pointer_table[m] = stack[i].global_pointer_table[m]
  BY ContextSeq, InsertedEntries
<1> QED BY <1>1 DEF CodeInv, TablesMatch, KnowledgeKept

\* set_pointer_initialized after the STORE to the pointer it marks.
LEMMA SetInitializedMatches ==
  ASSUME Inv, CodeInv, status = "run", open > 0, KnowledgeKept,
         NEW n, PointerScopes(stack, n) # {}, stack' = SetPointerInitialized(stack, n),
         Stored(Top', GetLatestPointer(stack, n).val)
  PROVE  TablesMatch'
<1>1. /\ Len(stack') = Len(stack)
      /\ \A i \in 1 .. Len(stack) : \A m \in DOMAIN stack'[i].global_pointer_table :
           /\ m \in DOMAIN stack[i].global_pointer_table
           /\ stack'[i].global_pointer_table[m].val = stack[i].global_pointer_table[m].val
           /\ \/ stack'[i].global_pointer_table[m] = stack[i].global_pointer_table[m]
              \/ stack'[i].global_pointer_table[m].val = GetLatestPointer(stack, n).val
  BY ContextSeq, InitializedEntries
<1> QED BY <1>1 DEF CodeInv, TablesMatch, KnowledgeKept

\* The instructions of declarations and statements are legal where they stand.
LEMMA AllocFits ==
  ASSUME Inv, AtItem, NEW initialized \in BOOLEAN, NEW inst,
         inst = Inst("Int", PointerObj(initialized, nextPtr), "ALLOC", <<BTypeOperand>>)
  PROVE  /\ inst \in InstData /\ inst.users = <<>> /\ inst.opcode = "ALLOC"
         /\ inst.ir_obj.val = nextPtr /\ Fits(Top, Top.next_inst_id, inst)
<1> DEFINE operands == <<BTypeOperand>>
           obj      == PointerObj(initialized, nextPtr)
<1>1. obj \in IRObj /\ obj.kind = "Pointer" /\ obj.val = nextPtr
  <2>1. obj \in IRObj
    BY InItem, PointerObjIsPointer
  <2> QED BY <2>1 DEF PointerObj
<1>2. operands \in Seq(Operand) /\ Len(operands) = 1 /\ operands[1].kind = "BType"
  <2>1. operands \in Seq(Operand)
    BY OtherOperands, KnownPair DEF Known
  <2> QED BY <2>1 DEF BTypeOperand
<1>3. "Int" \in BType /\ "ALLOC" \in KoopaOpCode /\ "ALLOC" \in ValueOps /\ FromSource("ALLOC")
  BY DEF BType, KoopaOpCode, ValueOps, FromSource
<1>4. "ALLOC" \notin Builder!Binary /\ Builder!Arity("ALLOC") = 1
  BY DEF Builder!Arity, Builder!Binary
<1> HIDE DEF operands, obj
<1>5. inst = Inst("Int", obj, "ALLOC", operands)
  BY DEF operands, obj
<1>6. /\ inst \in InstData /\ inst.users = <<>> /\ inst.typ = "Int" /\ inst.ir_obj = obj
      /\ inst.opcode = "ALLOC" /\ inst.operands = operands
  BY <1>1, <1>2, <1>3, <1>5, BuiltInst
<1>7. Fits(Top, Top.next_inst_id, inst)
  BY <1>1, <1>2, <1>3, <1>4, <1>6 DEF Fits
<1> QED BY <1>1, <1>6, <1>7

LEMMA NoObjFacts == NoObj \in IRObj /\ NoObj.kind = "None"
  BY DEF NoObj, Obj, IRObj

LEMMA StoreFits ==
  ASSUME Inv, CodeInv, NEW kind \in {"var", "assign"}, Complete(kind),
         Allocated(Top, stmt.pointer), NEW inst,
         inst = Inst("Void", NoObj, "STORE",
                     <<FromParseResult(vals[1]), PointerOperand(stmt.pointer)>>)
  PROVE  /\ inst \in InstData /\ inst.users = <<>> /\ inst.opcode = "STORE"
         /\ inst.operands[2].val = stmt.pointer /\ Fits(Top, Top.next_inst_id, inst)
<1> DEFINE operands == <<FromParseResult(vals[1]), PointerOperand(stmt.pointer)>>
<1>1. operands \in Seq(Operand) /\ Len(operands) = 2
  <2>1. KnownOperand(FromParseResult(vals[1])) /\ stmt.pointer \in Nat
    BY InComplete DEF Stmt
  <2>2. operands \in Seq(Operand)
    BY <2>1, OtherOperands, KnownPair DEF Known
  <2> QED BY <2>2
<1>2. Usable(Top, Top.next_inst_id, operands[1])
  <2>1. 1 \in 1 .. Len(vals)
    BY DEF Complete
  <2> QED BY <2>1 DEF CodeInv, ValsMatch, IsOperand
<1>3. operands[2].kind = "Pointer" /\ operands[2].val = stmt.pointer
  BY DEF PointerOperand
<1>4. "Void" \in BType /\ "STORE" \in KoopaOpCode /\ "STORE" \notin ValueOps /\ FromSource("STORE")
  BY DEF BType, KoopaOpCode, ValueOps, FromSource
<1>5. "STORE" \notin Builder!Binary /\ Builder!Arity("STORE") = 2
  BY DEF Builder!Arity, Builder!Binary, Builder!ValueOps
<1> HIDE DEF operands
<1>6. inst = Inst("Void", NoObj, "STORE", operands)
  BY DEF operands
<1>7. /\ inst \in InstData /\ inst.users = <<>> /\ inst.typ = "Void" /\ inst.ir_obj = NoObj
      /\ inst.opcode = "STORE" /\ inst.operands = operands
  BY <1>1, <1>4, <1>6, NoObjFacts, BuiltInst
<1>8. Fits(Top, Top.next_inst_id, inst)
  BY <1>1, <1>2, <1>3, <1>4, <1>5, <1>7, NoObjFacts DEF Fits, Allocated
<1> QED BY <1>3, <1>7, <1>8

LEMMA RetFits ==
  ASSUME Inv, CodeInv, Complete("return"), NEW inst,
         inst = Inst("Void", NoObj, "RET", <<FromParseResult(vals[1])>>)
  PROVE  /\ inst \in InstData /\ inst.users = <<>> /\ inst.opcode = "RET"
         /\ Fits(Top, Top.next_inst_id, inst)
<1> DEFINE operands == <<FromParseResult(vals[1])>>
<1>1. operands \in Seq(Operand) /\ Len(operands) = 1
  <2>1. operands \in Seq(Operand)
    BY InComplete, KnownPair DEF Known
  <2> QED BY <2>1
<1>2. \A k \in 1 .. Len(operands) : Usable(Top, Top.next_inst_id, operands[k])
  <2>1. 1 \in 1 .. Len(vals)
    BY DEF Complete
  <2>2. Usable(Top, Top.next_inst_id, operands[1])
    BY <2>1 DEF CodeInv, ValsMatch, IsOperand
  <2> HIDE DEF operands
  <2> QED BY <1>1, <2>2
<1>3. "Void" \in BType /\ "RET" \in KoopaOpCode /\ "RET" \notin ValueOps /\ FromSource("RET")
  BY DEF BType, KoopaOpCode, ValueOps, FromSource
<1>4. "RET" \notin Builder!Binary /\ Builder!Arity("RET") = 1
  BY DEF Builder!Arity, Builder!Binary, Builder!ValueOps
<1> HIDE DEF operands
<1>5. inst = Inst("Void", NoObj, "RET", operands)
  BY DEF operands
<1>6. /\ inst \in InstData /\ inst.users = <<>> /\ inst.typ = "Void" /\ inst.ir_obj = NoObj
      /\ inst.opcode = "RET" /\ inst.operands = operands
  BY <1>1, <1>3, <1>5, NoObjFacts, BuiltInst
<1>7. Fits(Top, Top.next_inst_id, inst)
  BY <1>1, <1>2, <1>3, <1>4, <1>6, NoObjFacts DEF Fits
<1> QED BY <1>6, <1>7

-----------------------------------------------------------------------------
(* The items.                                                              *)

\* An item that emits nothing and leaves the tables and the block alone.
LEMMA QuietItem ==
  ASSUME CodeInv, UNCHANGED <<funcs, nextPtr, stack, open>>, vals' = <<>>, StmtMatches'
  PROVE  CodeInv' /\ CodeGrows
<1>1. TablesMatch'
  BY SameFuncsTeach, SameTablesMatch DEF CodeInv
<1> QED BY <1>1, NoValsMatch, QuietStep

LEMMA NoStmtKind == NoStmt.kind \notin {"var", "assign"}
  BY DEF NoStmt, Suspended

LEMMA BeginConstDefMatches ==
  ASSUME Inv, CodeInv, NEW n, BeginConstDef(n)
  PROVE  CodeInv' /\ CodeGrows
<1>1. UNCHANGED <<stack, nextPtr, funcs, open>> /\ vals' = <<>> /\ stmt.kind = "none"
  BY InItem DEF BeginConstDef
<1>2. stmt'.kind \notin {"var", "assign"}
  BY <1>1 DEF BeginConstDef, Suspended
<1> QED BY <1>1, <1>2, NoStmtMatches, QuietItem

LEMMA BeginExpStmtMatches ==
  ASSUME Inv, CodeInv, NEW kind \in {"return", "raw"}, BeginExpStmt(kind)
  PROVE  CodeInv' /\ CodeGrows
<1>1. UNCHANGED <<stack, nextPtr, funcs, open>> /\ vals' = <<>>
  BY InItem DEF BeginExpStmt
<1>2. stmt'.kind \notin {"var", "assign"}
  BY DEF BeginExpStmt, Suspended
<1> QED BY <1>1, <1>2, NoStmtMatches, QuietItem

LEMMA EndRawExpMatches == ASSUME Inv, CodeInv, EndRawExp PROVE CodeInv' /\ CodeGrows
  BY NoStmtKind, NoStmtMatches, QuietItem DEF EndRawExp

LEMMA BeginAssignMatches ==
  ASSUME Inv, CodeInv, NEW n, BeginAssign(n)
  PROVE  CodeInv' /\ CodeGrows
<1>1. UNCHANGED <<stack, nextPtr, funcs, open>> /\ vals' = <<>> /\ stmt.kind = "none"
  BY InItem DEF BeginAssign
<1>2. CASE stmt' = Suspended("assign", n, GetLatestPointer(stack, n).val)
  <2>1. stmt'.kind = "assign" /\ stmt'.name = n
        /\ stmt'.pointer = GetLatestPointer(stack, n).val
    BY <1>2 DEF Suspended
  <2>2. StmtMatches'
    BY <1>1, <2>1 DEF StmtMatches
  <2> QED BY <1>1, <2>2, QuietItem
<1>3. CASE UNCHANGED stmt
  BY <1>1, <1>3, NoStmtMatches, QuietItem
<1> QED BY <1>2, <1>3 DEF BeginAssign

LEMMA EndConstDefMatches == ASSUME Inv, CodeInv, EndConstDef PROVE CodeInv' /\ CodeGrows
<1>1. Complete("const") /\ stack' = InsertConst(stack, stmt.name, vals[1])
      /\ stmt' = NoStmt /\ vals' = <<>> /\ UNCHANGED <<nextPtr, funcs, open>>
  BY DEF EndConstDef
<1>2. stmt.name \in Names /\ vals[1] \in Consts
  <2>1. stmt.kind = "const" /\ stmt.name \in Names
    BY <1>1 DEF Complete, Inv, SuspendedCanResume
  <2> QED BY <1>1, <2>1, InComplete DEF Results, Consts, IsResult, IsConst
<1>3. stack \in Seq(ContextSet(1 .. Len(funcs), Consts, Pointers)) /\ stack # <<>>
  BY <1>1, InComplete DEF Contexts
<1>4. Len(stack') = Len(stack)
      /\ \A i \in 1 .. Len(stack) :
           stack'[i].global_pointer_table = stack[i].global_pointer_table
  BY <1>1, <1>2, <1>3, InsertConstIsStack
<1>5. TablesMatch'
  BY <1>1, <1>4, SameFuncsTeach DEF CodeInv, TablesMatch, KnowledgeKept
<1>6. StmtMatches' /\ ValsMatch'
  BY <1>1, NoStmtKind, NoStmtMatches, NoValsMatch
<1> QED BY <1>1, <1>5, <1>6, QuietStep

LEMMA BeginVarDefMatches ==
  ASSUME Inv, CodeInv, NEW n, BeginVarDef(n)
  PROVE  CodeInv' /\ CodeGrows
<1>1. AtItem /\ UNCHANGED <<stack, open>> /\ vals' = <<>> /\ stmt.kind = "none"
      /\ status = "run" /\ open > 0
  BY InItem DEF BeginVarDef
<1>2. CASE UNCHANGED <<nextPtr, funcs, stmt>>
  BY <1>1, <1>2, NoStmtMatches, QuietItem
<1>3. CASE Alloc(TRUE) /\ stmt' = Suspended("var", n, nextPtr)
  <2> DEFINE inst == Inst("Int", PointerObj(TRUE, nextPtr), "ALLOC", <<BTypeOperand>>)
  <2>1. Emit(inst) /\ nextPtr' = nextPtr + 1
    BY <1>3 DEF Alloc
  <2>2. /\ inst \in InstData /\ inst.users = <<>> /\ inst.opcode = "ALLOC"
        /\ inst.ir_obj.val = nextPtr /\ Fits(Top, Top.next_inst_id, inst)
    BY <1>1, AllocFits
  <2> HIDE DEF inst
  <2>3. KnowledgeKept /\ Allocated(Top', nextPtr)
    BY <1>1, <2>1, <2>2, EmitTeaches
  <2>4. TablesMatch'
    BY <1>1, <2>3, SameTablesMatch DEF CodeInv
  <2>5. StmtMatches'
    <3>1. stmt'.kind = "var" /\ stmt'.pointer = nextPtr
      BY <1>3 DEF Suspended
    <3> QED BY <2>3, <3>1 DEF StmtMatches
  <2> QED BY <1>1, <2>1, <2>2, <2>4, <2>5, EmitItem
<1> QED BY <1>2, <1>3 DEF BeginVarDef

LEMMA VarDefOnlyMatches ==
  ASSUME Inv, CodeInv, NEW n \in Names, VarDefOnly(n)
  PROVE  CodeInv' /\ CodeGrows
<1>1. AtItem /\ UNCHANGED <<open, stmt>> /\ vals' = <<>> /\ stmt.kind = "none"
      /\ status = "run" /\ open > 0 /\ nextPtr \in Nat
  BY InItem DEF VarDefOnly
<1>2. StmtMatches'
  BY <1>1, NoStmtMatches
<1>3. CASE UNCHANGED <<nextPtr, funcs, stack>>
  BY <1>1, <1>2, <1>3, QuietItem
<1>4. CASE Alloc(FALSE) /\ stack' = InsertPointer(stack, n, PointerObj(FALSE, nextPtr))
  <2> DEFINE inst == Inst("Int", PointerObj(FALSE, nextPtr), "ALLOC", <<BTypeOperand>>)
             p    == PointerObj(FALSE, nextPtr)
  <2>1. Emit(inst) /\ nextPtr' = nextPtr + 1
    BY <1>4 DEF Alloc
  <2>2. /\ inst \in InstData /\ inst.users = <<>> /\ inst.opcode = "ALLOC"
        /\ inst.ir_obj.val = nextPtr /\ Fits(Top, Top.next_inst_id, inst)
    BY <1>1, AllocFits
  <2>3. p \in Pointers /\ p.val = nextPtr /\ ~p.initialized /\ stack' = InsertPointer(stack, n, p)
    <3>1. p \in Pointers
      BY <1>1, PointerObjIsPointer
    <3> QED BY <1>4, <3>1 DEF PointerObj
  <2> HIDE DEF inst, p
  <2>4. KnowledgeKept /\ Allocated(Top', p.val)
    BY <1>1, <2>1, <2>2, <2>3, EmitTeaches
  <2>5. TablesMatch'
    BY <1>1, <2>3, <2>4, InsertPointerMatches
  <2> QED BY <1>1, <1>2, <2>1, <2>2, <2>5, EmitItem
<1> QED BY <1>3, <1>4 DEF VarDefOnly

\* The initial value always has a place, so its STORE is always emitted.
LEMMA EndVarDefMatches == ASSUME Inv, CodeInv, EndVarDef PROVE CodeInv' /\ CodeGrows
<1> DEFINE inst == Inst("Void", NoObj, "STORE",
                        <<FromParseResult(vals[1]), PointerOperand(stmt.pointer)>>)
           p    == PointerObj(TRUE, stmt.pointer)
<1>1. Complete("var") /\ status = "run" /\ open > 0 /\ stmt.kind = "var"
      /\ stack' = InsertPointer(stack, stmt.name, p)
      /\ stmt' = NoStmt /\ vals' = <<>> /\ UNCHANGED <<nextPtr, open>>
  BY InComplete DEF EndVarDef
<1>2. stmt.name \in Names /\ stmt.pointer \in Nat
  BY <1>1 DEF Inv, SuspendedCanResume, TypeInv, Stmt
<1>3. Emit(inst)
  <2>1. vals[1].kind \in {"Const", "InstId"}
    BY <1>1, InComplete DEF Results, IsResult, IsConst
  <2> QED BY <2>1 DEF EndVarDef
<1>4. Allocated(Top, stmt.pointer)
  BY <1>1 DEF CodeInv, StmtMatches
<1>5. /\ inst \in InstData /\ inst.users = <<>> /\ inst.opcode = "STORE"
      /\ inst.operands[2].val = stmt.pointer /\ Fits(Top, Top.next_inst_id, inst)
  BY <1>1, <1>4, StoreFits
<1>6. p \in Pointers /\ p.val = stmt.pointer
  BY <1>2, PointerObjIsPointer DEF PointerObj
<1> HIDE DEF inst, p
<1>7. KnowledgeKept /\ Allocated(Top', p.val) /\ Stored(Top', p.val)
  BY <1>1, <1>3, <1>4, <1>5, <1>6, EmitTeaches DEF KnowledgeKept
<1>8. TablesMatch'
  BY <1>1, <1>2, <1>6, <1>7, InsertPointerMatches
<1>9. StmtMatches'
  BY <1>1, NoStmtKind, NoStmtMatches
<1> QED BY <1>1, <1>3, <1>5, <1>8, <1>9, EmitItem

\* The pointer was taken before the expression; its ALLOC is in the code.
LEMMA EndAssignMatches == ASSUME Inv, CodeInv, EndAssign PROVE CodeInv' /\ CodeGrows
<1> DEFINE inst == Inst("Void", NoObj, "STORE",
                        <<FromParseResult(vals[1]), PointerOperand(stmt.pointer)>>)
           k    == Max(PointerScopes(stack, stmt.name))
<1>1. Complete("assign") /\ status = "run" /\ open > 0 /\ stmt.kind = "assign"
      /\ stack' = SetPointerInitialized(stack, stmt.name) /\ Emit(inst)
      /\ stmt' = NoStmt /\ vals' = <<>> /\ UNCHANGED <<nextPtr, open>>
  BY InComplete DEF EndAssign
<1>2. PointerScopes(stack, stmt.name) # {}
  BY <1>1 DEF Inv, SuspendedCanResume
<1>3. stmt.pointer = GetLatestPointer(stack, stmt.name).val
  BY <1>1 DEF CodeInv, StmtMatches
<1>4. Allocated(Top, stmt.pointer)
  <2>1. k \in PointerScopes(stack, stmt.name) /\ k \in 1 .. Len(stack)
    BY <1>1, <1>2, ContextSeq, LatestScope DEF PointerScopes
  <2>2. stmt.name \in DOMAIN stack[k].global_pointer_table
        /\ stmt.pointer = stack[k].global_pointer_table[stmt.name].val
    BY <1>2, <1>3, <2>1 DEF PointerScopes, GetLatestPointer
  <2> HIDE DEF k
  <2> QED BY <2>1, <2>2 DEF CodeInv, TablesMatch
<1>5. /\ inst \in InstData /\ inst.users = <<>> /\ inst.opcode = "STORE"
      /\ inst.operands[2].val = stmt.pointer /\ Fits(Top, Top.next_inst_id, inst)
  BY <1>1, <1>4, StoreFits
<1> HIDE DEF inst
<1>6. KnowledgeKept /\ Stored(Top', GetLatestPointer(stack, stmt.name).val)
  BY <1>1, <1>3, <1>5, EmitTeaches
<1>7. TablesMatch'
  BY <1>1, <1>2, <1>6, SetInitializedMatches
<1>8. StmtMatches'
  BY <1>1, NoStmtKind, NoStmtMatches
<1> QED BY <1>1, <1>5, <1>7, <1>8, EmitItem

LEMMA EndReturnMatches == ASSUME Inv, CodeInv, EndReturn PROVE CodeInv' /\ CodeGrows
<1> DEFINE inst == Inst("Void", NoObj, "RET", <<FromParseResult(vals[1])>>)
<1>1. Complete("return") /\ status = "run" /\ open > 0 /\ Emit(inst)
      /\ stmt' = NoStmt /\ vals' = <<>> /\ UNCHANGED <<stack, nextPtr, open>>
  BY InComplete DEF EndReturn
<1>2. /\ inst \in InstData /\ inst.users = <<>> /\ inst.opcode = "RET"
      /\ Fits(Top, Top.next_inst_id, inst)
  BY <1>1, RetFits
<1> HIDE DEF inst
<1>3. TablesMatch'
  BY <1>1, <1>2, EmitTeaches, SameTablesMatch DEF CodeInv
<1>4. StmtMatches'
  BY <1>1, NoStmtKind, NoStmtMatches
<1> QED BY <1>1, <1>2, <1>3, <1>4, EmitItem

-----------------------------------------------------------------------------
(* Blocks and functions.                                                   *)

LEMMA BeginBlockMatches == ASSUME Inv, CodeInv, BeginBlock PROVE CodeInv' /\ CodeGrows
<1> DEFINE c == NewContext(Last(stack).func, TRUE)
<1>1. AtItem /\ stack' = EnterBlockScope(stack) /\ open > 0 /\ vals' = <<>>
      /\ UNCHANGED <<nextPtr, funcs, stmt>> /\ status = "run" /\ stmt.kind = "none"
  BY InItem DEF BeginBlock
<1>2. /\ stack # <<>> /\ stack \in Seq(ContextSet(1 .. Len(funcs), Consts, Pointers))
      /\ Last(stack).ir_block = TRUE
  BY <1>1, InBlock DEF Contexts
<1>3. stack' = Append(stack, c) /\ c \in Contexts /\ stack \in Seq(Contexts)
  BY <1>1, <1>2, EnterBlockScopeNested DEF Contexts
<1>4. DOMAIN c.global_pointer_table = {}
  BY EmptyTableIsTable DEF NewContext
<1> HIDE DEF c
<1>5. /\ Len(stack) \in Nat /\ Len(stack') = Len(stack) + 1
      /\ \A i \in 1 .. Len(stack) : stack'[i] = stack[i]
      /\ stack'[Len(stack) + 1] = c
  BY <1>3, AppendProperties, LenProperties
<1>6. TablesMatch'
  BY <1>1, <1>4, <1>5, SameFuncsTeach DEF CodeInv, TablesMatch, KnowledgeKept
<1> QED BY <1>1, <1>6, NoStmtMatches, NoValsMatch, QuietStep

LEMMA EndBlockMatches == ASSUME Inv, CodeInv, EndBlock PROVE CodeInv' /\ CodeGrows
<1>1. AtItem /\ stack' = ExitScope(stack) /\ open > 0 /\ vals' = <<>>
      /\ UNCHANGED <<nextPtr, funcs, stmt>> /\ status = "run" /\ stmt.kind = "none"
  BY InItem DEF EndBlock
<1>2. stack # <<>> /\ stack \in Seq(Contexts)
  BY <1>1, InBlock
<1>3. stack' = Front(stack)
  BY <1>1, <1>2 DEF ExitScope
<1>4. /\ Len(stack') = Len(stack) - 1 /\ Len(stack) \in Nat
      /\ \A i \in 1 .. Len(stack) - 1 : stack'[i] = stack[i]
  BY <1>2, <1>3, LastAndFront
<1>5. TablesMatch'
  BY <1>1, <1>4, SameFuncsTeach DEF CodeInv, TablesMatch, KnowledgeKept
<1> QED BY <1>1, <1>5, NoStmtMatches, NoValsMatch, QuietStep

LEMMA FinishMatches == ASSUME Inv, CodeInv, Finish PROVE CodeInv' /\ CodeGrows
<1>1. stmt.kind = "none" /\ vals = <<>> /\ UNCHANGED <<stack, nextPtr, funcs, open, stmt, vals>>
  BY InTop DEF Finish
<1> QED BY <1>1, NoStmtMatches, QuietItem

\* A program that changes only in what CodeInv does not look at.
SameParts(f, g) ==
  g.next_inst_id = f.next_inst_id /\ g.inst_map = f.inst_map /\ g.inst_list = f.inst_list

LEMMA SamePartsMatch ==
  ASSUME NEW f, NEW g, SameParts(f, g), LegalFunc(f), UsersMatch(f)
  PROVE  LegalFunc(g) /\ UsersMatch(g)
<1>1. \A id : /\ \A o : Usable(g, id, o) <=> Usable(f, id, o)
              /\ \A ptr : AllocIn(g, id, ptr) <=> AllocIn(f, id, ptr)
              /\ \A ptr : StoreIn(g, id, ptr) <=> StoreIn(f, id, ptr)
  BY DEF SameParts, Usable, AllocIn, StoreIn
<1>2. ASSUME NEW id \in 0 .. g.next_inst_id - 1 PROVE Fits(g, id, g.inst_map[id])
  <2>1. Fits(f, id, f.inst_map[id]) /\ g.inst_map[id] = f.inst_map[id]
    BY DEF SameParts, LegalFunc
  <2>2. SameCode(g.inst_map[id], f.inst_map[id])
    BY <2>1 DEF SameCode
  <2> QED BY <1>1, <2>1, <2>2, FitsSame
<1>3. LegalFunc(g)
  BY <1>2 DEF SameParts, LegalFunc
<1>4. UsersMatch(g)
  BY DEF SameParts, UsersMatch
<1> QED BY <1>3, <1>4

LEMMA SamePartsProgram ==
  ASSUME ProgInv, Len(funcs') = Len(funcs), nextPtr' = nextPtr,
         \A i \in 1 .. Len(funcs) : SameParts(funcs[i], funcs'[i])
  PROVE  ProgInv'
<1>1. \A i \in 1 .. Len(funcs) : LegalFunc(funcs'[i]) /\ UsersMatch(funcs'[i])
  BY SamePartsMatch DEF ProgInv
<1>2. ASSUME NEW i \in 1 .. Len(funcs), NEW id
      PROVE  /\ IsAlloc(i, id)' <=> IsAlloc(i, id) /\ PointerOf(i, id)' = PointerOf(i, id)
             /\ funcs'[i].next_inst_id = funcs[i].next_inst_id
  BY DEF SameParts, IsAlloc, PointerOf
<1>3. PointersApart'
  BY <1>2 DEF ProgInv, PointersApart
<1> QED BY <1>1, <1>3 DEF ProgInv

LEMMA EndFuncMatches == ASSUME Inv, Inv', CodeInv, EndFunc PROVE CodeInv'
<1> DEFINE k == Len(funcs)
<1>1. AtItem /\ open' = 0 /\ funcs' = [funcs EXCEPT ![k] = [Top EXCEPT !.ir_blocks = @ + 1]]
      /\ UNCHANGED <<nextPtr, stmt, vals>> /\ vals = <<>> /\ stmt.kind = "none"
      /\ funcs \in Seq(FuncSet) /\ Top \in FuncSet
  BY InItem, InBlock DEF EndFunc, Top
<1>2. DOMAIN funcs = 1 .. k /\ k \in Nat /\ Len(funcs') = k
  <2>1. DOMAIN funcs' = DOMAIN funcs
    BY <1>1
  <2>2. funcs' \in Seq(FuncSet)
    BY DEF Inv, TypeInv
  <2> QED BY <1>1, <2>1, <2>2, LenProperties
<1>3. ASSUME NEW i \in 1 .. k PROVE SameParts(funcs[i], funcs'[i])
  BY <1>1, <1>2 DEF SameParts, Top, FuncSet
<1>4. ProgInv'
  BY <1>1, <1>2, <1>3, SamePartsProgram DEF CodeInv
<1>5. Len(stack') = 0
  <2>1. AtTop'
    BY <1>1, InItem DEF AtTop, EndFunc, Inv, NoInternalPanic
  <2> QED BY <2>1 DEF AtTop, Inv, ScopesBalanced
<1>6. TablesMatch'
  BY <1>5 DEF TablesMatch
<1> QED BY <1>1, <1>4, <1>6, NoStmtMatches, NoValsMatch DEF CodeInv

LEMMA BeginFuncMatches == ASSUME Inv, CodeInv, BeginFunc PROVE CodeInv'
<1> DEFINE k == Len(funcs)
<1>1. AtTop /\ open' = 1 /\ funcs' = Append(funcs, NewFunc) /\ stack = <<>>
      /\ stack' = EnterBlockScope(EnterFuncScope(stack, k + 1))
      /\ UNCHANGED <<nextPtr, stmt, vals>> /\ vals = <<>> /\ stmt.kind = "none"
      /\ funcs \in Seq(FuncSet)
  BY InTop DEF BeginFunc
<1>2. /\ k \in Nat /\ Len(funcs') = k + 1 /\ funcs'[k + 1] = NewFunc /\ Top' = NewFunc
      /\ \A i \in 1 .. k : funcs'[i] = funcs[i]
  <2>1. /\ k \in Nat /\ Len(funcs') = k + 1 /\ funcs'[k + 1] = NewFunc
        /\ \A i \in 1 .. k : funcs'[i] = funcs[i]
    BY <1>1, NewFuncIsFunc, AppendProperties, LenProperties
  <2> QED BY <2>1 DEF Top
<1> HIDE DEF k
<1>3. NewFunc.next_inst_id = 0 /\ NewFunc.inst_list = <<>> /\ NewFunc.ir_blocks = 0
  BY DEF NewFunc
<1>4. LegalFunc(NewFunc) /\ UsersMatch(NewFunc)
  <2>1. <<>> = [p \in 1 .. 0 |-> p - 1]
    OBVIOUS
  <2>2. 0 .. 0 - 1 = {} /\ 1 .. 0 = {}
    OBVIOUS
  <2> QED BY <1>3, <2>1, <2>2 DEF LegalFunc, UsersMatch
<1>5. \A i \in 1 .. k + 1 : LegalFunc(funcs'[i]) /\ UsersMatch(funcs'[i])
  BY <1>2, <1>4 DEF CodeInv, ProgInv, k
<1>6. PointersApart'
  <2>1. ASSUME NEW i \in 1 .. k, NEW id
        PROVE  /\ IsAlloc(i, id)' <=> IsAlloc(i, id) /\ PointerOf(i, id)' = PointerOf(i, id)
               /\ funcs'[i].next_inst_id = funcs[i].next_inst_id
    BY <1>2 DEF IsAlloc, PointerOf
  <2>2. 0 .. funcs'[k + 1].next_inst_id - 1 = {}
    BY <1>2, <1>3
  <2>3. \A i \in 1 .. k + 1 : i \in 1 .. k \/ i = k + 1
    BY <1>2
  <2>4. PointersApart
    BY DEF CodeInv, ProgInv
  <2> QED BY <1>1, <1>2, <2>1, <2>2, <2>3, <2>4 DEF PointersApart, k
<1>7. TablesMatch'
  <2>1. 1 .. 1 = {1} /\ k + 1 \in 1 .. k + 1
    BY <1>2
  <2>2. LET st == EnterBlockScope(EnterFuncScope(<<>>, k + 1))
        IN Len(st) = 1 /\ DOMAIN st[1].global_pointer_table = {}
    BY <2>1, EnterBlockScopeFirst
  <2> QED BY <1>1, <2>1, <2>2 DEF TablesMatch
<1> QED BY <1>1, <1>2, <1>3, <1>5, <1>6, <1>7, NoStmtMatches, NoValsMatch DEF CodeInv, ProgInv

-----------------------------------------------------------------------------
LEMMA CodeInit == Init => CodeInv
<1> SUFFICES ASSUME Init PROVE CodeInv
  OBVIOUS
<1>1. Len(stack) = 0 /\ Len(funcs) = 0 /\ Len(vals) = 0 /\ open = 0 /\ stmt.kind = "none"
  BY EmptySeq DEF Init, NoStmt, Suspended
<1> QED BY <1>1 DEF CodeInv, ProgInv, PointersApart, TablesMatch, StmtMatches, ValsMatch

LEMMA CodeStep ==
  ASSUME Inv, Inv', CodeInv, [Next]_vars
  PROVE  CodeInv' /\ (CodeGrows \/ BeginFunc \/ EndFunc)
<1>1. CASE Functions
  BY <1>1, BeginFuncMatches, EndFuncMatches, FinishMatches DEF Functions
<1>2. CASE Items
  <2>1. CASE BeginBlock \/ EndBlock
    BY <2>1, BeginBlockMatches, EndBlockMatches
  <2>2. CASE \E n \in Names :
               BeginConstDef(n) \/ BeginVarDef(n) \/ VarDefOnly(n) \/ BeginAssign(n)
    BY <2>2, BeginConstDefMatches, BeginVarDefMatches, VarDefOnlyMatches, BeginAssignMatches
  <2>3. CASE \E kind \in {"return", "raw"} : BeginExpStmt(kind)
    BY <2>3, BeginExpStmtMatches
  <2>4. CASE EndConstDef \/ EndVarDef \/ EndAssign \/ EndReturn \/ EndRawExp
    BY <2>4, EndConstDefMatches, EndVarDefMatches, EndAssignMatches, EndReturnMatches,
       EndRawExpMatches
  <2> QED BY <1>2, <2>1, <2>2, <2>3, <2>4 DEF Items
<1>3. CASE Exps
  BY <1>3, ExpsMatch
<1>4. CASE UNCHANGED vars
  <2>1. UNCHANGED <<funcs, nextPtr, open, stack, stmt, vals>>
    BY <1>4 DEF vars
  <2> QED BY <2>1, QuietExp, SameValsMatch DEF CodeInv
<1> QED BY <1>1, <1>2, <1>3, <1>4 DEF Next

\* The invariant that ties the tables, the suspended statement and the results
\* to the emitted code.
THEOREM CodeInvIsInvariant == Spec => [](Inv /\ CodeInv)
<1>1. Init => Inv /\ CodeInv
  BY InitInv, CodeInit
<1>2. Inv /\ CodeInv /\ [Next]_vars => (Inv /\ CodeInv)'
  BY InvStep, CodeStep
<1> QED BY <1>1, <1>2, PTL DEF Spec

-----------------------------------------------------------------------------
(* What follows for the code.                                              *)

LEMMA LegalFacts ==
  ASSUME NEW f \in FuncSet, LegalFunc(f)
  PROVE  /\ f.next_inst_id \in Nat
         /\ DOMAIN f.inst_map = 0 .. f.next_inst_id - 1
         /\ f.inst_map \in [0 .. f.next_inst_id - 1 -> InstData]
         /\ DOMAIN f.inst_list = 1 .. f.next_inst_id /\ Len(f.inst_list) = f.next_inst_id
         /\ \A p \in 1 .. f.next_inst_id :
              /\ p - 1 \in 0 .. f.next_inst_id - 1 /\ f.inst_list[p] = p - 1
              /\ InstAt(f, p) = f.inst_map[p - 1]
              /\ InstAt(f, p) \in InstData
              /\ Fits(f, p - 1, InstAt(f, p))
<1> DEFINE n == f.next_inst_id
<1>1. /\ n \in Nat /\ DOMAIN f.inst_map = 0 .. n - 1
      /\ f.inst_map \in [0 .. n - 1 -> InstData] /\ f.inst_list \in Seq(Nat)
  BY FuncSetIsFunc DEF IsFunc
<1>2. f.inst_list = [p \in 1 .. n |-> p - 1]
  BY DEF LegalFunc
<1>3. DOMAIN f.inst_list = 1 .. n
  BY <1>2
<1>4. Len(f.inst_list) = n
  BY <1>1, <1>3, LenProperties
<1>5. ASSUME NEW p \in 1 .. n
      PROVE  /\ p - 1 \in 0 .. n - 1 /\ f.inst_list[p] = p - 1
             /\ InstAt(f, p) = f.inst_map[p - 1] /\ InstAt(f, p) \in InstData
             /\ Fits(f, p - 1, InstAt(f, p))
  <2>1. p - 1 \in 0 .. n - 1 /\ f.inst_list[p] = p - 1
    BY <1>1, <1>2
  <2>2. InstAt(f, p) = f.inst_map[p - 1]
    BY <2>1 DEF InstAt
  <2> QED BY <1>1, <2>1, <2>2 DEF LegalFunc
<1> QED BY <1>1, <1>3, <1>4, <1>5

LEMMA FuncFacts ==
  ASSUME Inv, CodeInv, NEW i \in DOMAIN funcs
  PROVE  /\ i \in 1 .. Len(funcs) /\ funcs[i] \in FuncSet /\ funcs[i].next_inst_id \in Nat
         /\ DOMAIN funcs[i].inst_map = 0 .. funcs[i].next_inst_id - 1
         /\ funcs[i].inst_map \in [0 .. funcs[i].next_inst_id - 1 -> InstData]
         /\ LegalFunc(funcs[i]) /\ UsersMatch(funcs[i])
         /\ DOMAIN funcs[i].inst_list = 1 .. funcs[i].next_inst_id
         /\ \A p \in 1 .. funcs[i].next_inst_id :
              /\ p - 1 \in 0 .. funcs[i].next_inst_id - 1 /\ funcs[i].inst_list[p] = p - 1
              /\ InstAt(funcs[i], p) = funcs[i].inst_map[p - 1]
              /\ InstAt(funcs[i], p) \in InstData
              /\ Fits(funcs[i], p - 1, InstAt(funcs[i], p))
<1>1. i \in 1 .. Len(funcs) /\ funcs[i] \in FuncSet
  <2>1. funcs \in Seq(FuncSet) /\ DOMAIN funcs = 1 .. Len(funcs)
    BY LenProperties DEF Inv, TypeInv
  <2> QED BY <2>1, ElementOfSeq
<1>2. LegalFunc(funcs[i]) /\ UsersMatch(funcs[i])
  BY <1>1 DEF CodeInv, ProgInv
<1> QED BY <1>1, <1>2, LegalFacts

\* An operand that is an instruction is one of those before.
LEMMA OperandIsEarlier ==
  ASSUME NEW f, NEW id \in Nat, NEW inst, inst.operands \in Seq(Operand), Fits(f, id, inst),
         NEW k \in DOMAIN inst.operands, inst.operands[k].kind = "InstId"
  PROVE  Usable(f, id, inst.operands[k])
<1>1. DOMAIN inst.operands = 1 .. Len(inst.operands)
  BY LenProperties
<1>2. CASE inst.opcode \in Builder!Binary \cup {"RET"}
  BY <1>1, <1>2 DEF Fits
<1>3. CASE inst.opcode \in {"ALLOC", "LOAD"}
  <2>1. Len(inst.operands) = 1 /\ inst.operands[1].kind # "InstId"
    BY <1>3 DEF Fits, Builder!Arity, Builder!Binary, Builder!ValueOps
  <2> QED BY <1>1, <2>1
<1>4. CASE inst.opcode = "STORE"
  <2>1. Len(inst.operands) = 2 /\ inst.operands[2].kind # "InstId"
        /\ Usable(f, id, inst.operands[1])
    BY <1>4 DEF Fits, Builder!Arity, Builder!Binary, Builder!ValueOps
  <2> QED BY <1>1, <2>1
<1>5. inst.opcode \in Builder!Binary \cup {"RET", "ALLOC", "LOAD", "STORE"}
  BY DEF Fits, KoopaOpCode, ValueOps, Builder!Binary, Builder!ValueOps
<1> QED BY <1>2, <1>3, <1>4, <1>5

LEMMA CodeIsSSA == ASSUME Inv, CodeInv PROVE SSA
<1> SUFFICES ASSUME NEW i \in DOMAIN funcs
             PROVE  LET f == funcs[i] IN
    /\ f.inst_list = [p \in 1 .. f.next_inst_id |-> p - 1]
    /\ \A p \in DOMAIN f.inst_list :
         LET inst == InstAt(f, p)
         IN /\ inst.ir_obj.kind = "InstId" => inst.ir_obj.val = f.inst_list[p]
            /\ inst.typ = "Int" <=> inst.opcode \in ValueOps
            /\ \A k \in DOMAIN inst.operands : inst.operands[k].kind = "InstId" =>
                 \E q \in 1 .. p - 1 :
                   /\ f.inst_list[q] = inst.operands[k].val
                   /\ InstAt(f, q).ir_obj.kind = "InstId"
            /\ \A u \in DOMAIN f.inst_map :
                 Cardinality({k \in DOMAIN inst.users : inst.users[k] = u})
                   = Cardinality(UsesOf(f.inst_map[u], f.inst_list[p]))
  BY DEF SSA
<1> DEFINE f == funcs[i]
           n == f.next_inst_id
<1>1. /\ n \in Nat /\ DOMAIN f.inst_map = 0 .. n - 1 /\ LegalFunc(f) /\ UsersMatch(f)
      /\ DOMAIN f.inst_list = 1 .. n
      /\ \A p \in 1 .. n :
           /\ p - 1 \in 0 .. n - 1 /\ f.inst_list[p] = p - 1
           /\ InstAt(f, p) = f.inst_map[p - 1] /\ InstAt(f, p) \in InstData
           /\ Fits(f, p - 1, InstAt(f, p))
  BY FuncFacts
<1> HIDE DEF f
<1>2. f.inst_list = [p \in 1 .. n |-> p - 1]
  BY <1>1 DEF LegalFunc
<1>3. ASSUME NEW p \in 1 .. n
      PROVE  LET inst == InstAt(f, p)
             IN /\ inst.ir_obj.kind = "InstId" => inst.ir_obj.val = f.inst_list[p]
                /\ inst.typ = "Int" <=> inst.opcode \in ValueOps
                /\ \A k \in DOMAIN inst.operands : inst.operands[k].kind = "InstId" =>
                     \E q \in 1 .. p - 1 :
                       /\ f.inst_list[q] = inst.operands[k].val
                       /\ InstAt(f, q).ir_obj.kind = "InstId"
                /\ \A u \in DOMAIN f.inst_map :
                     Cardinality({k \in DOMAIN inst.users : inst.users[k] = u})
                       = Cardinality(UsesOf(f.inst_map[u], f.inst_list[p]))
  <2> DEFINE inst == InstAt(f, p)
  <2>1. /\ f.inst_list[p] = p - 1 /\ inst \in InstData /\ Fits(f, p - 1, inst)
        /\ inst = f.inst_map[p - 1] /\ p - 1 \in 0 .. n - 1 /\ p - 1 \in Nat
        /\ inst.operands \in Seq(Operand)
    BY <1>1 DEF InstData
  <2> HIDE DEF inst
  <2>2. inst.ir_obj.kind = "InstId" => inst.ir_obj.val = f.inst_list[p]
    <3>1. inst.opcode \in Builder!Binary \cup {"ALLOC", "LOAD", "STORE", "RET"}
      BY <2>1 DEF Fits, KoopaOpCode, ValueOps, Builder!Binary, Builder!ValueOps
    <3> QED BY <2>1, <3>1 DEF Fits, InstIdObj, Obj
  <2>3. inst.typ = "Int" <=> inst.opcode \in ValueOps
    BY <2>1 DEF Fits
  <2>4. ASSUME NEW k \in DOMAIN inst.operands, inst.operands[k].kind = "InstId"
        PROVE  \E q \in 1 .. p - 1 :
                 /\ f.inst_list[q] = inst.operands[k].val
                 /\ InstAt(f, q).ir_obj.kind = "InstId"
    <3> DEFINE v == inst.operands[k].val
    <3>1. Usable(f, p - 1, inst.operands[k])
      BY <2>1, <2>4, OperandIsEarlier
    <3>2. v \in 0 .. p - 1 - 1 /\ f.inst_map[v].opcode \in ValueOps \ {"ALLOC"}
      BY <2>4, <3>1 DEF Usable
    <3> HIDE DEF v
    <3>3. PICK q \in 1 .. p - 1 : q \in 1 .. n /\ q - 1 = v
      <4> DEFINE w == v + 1
      <4>1. w \in 1 .. p - 1 /\ w \in 1 .. n /\ w - 1 = v
        BY <1>1, <3>2
      <4> HIDE DEF w
      <4> QED BY <4>1
    <3>4. f.inst_list[q] = v /\ InstAt(f, q) = f.inst_map[v] /\ Fits(f, v, InstAt(f, q))
      BY <1>1, <3>3
    <3>5. InstAt(f, q).opcode \in Builder!Binary \cup {"LOAD"}
      BY <3>2, <3>4 DEF Builder!Binary, Builder!ValueOps, ValueOps
    <3>6. InstAt(f, q).ir_obj.kind = "InstId"
      BY <3>4, <3>5 DEF Fits, InstIdObj, Obj
    <3> QED BY <3>3, <3>4, <3>6 DEF v
  <2>5. ASSUME NEW u \in DOMAIN f.inst_map
        PROVE  Cardinality({k \in DOMAIN inst.users : inst.users[k] = u})
                 = Cardinality(UsesOf(f.inst_map[u], f.inst_list[p]))
    <3>1. Cardinality(EntriesOf(f.inst_map[p - 1].users, u))
            = Cardinality(UsesOf(f.inst_map[u], p - 1))
      BY <1>1, <2>1 DEF UsersMatch
    <3> QED BY <2>1, <3>1 DEF EntriesOf
  <2> QED BY <2>2, <2>3, <2>4, <2>5 DEF inst
<1> QED BY <1>1, <1>2, <1>3 DEF f

\* The places of the program, and what is at them.
LEMMA PlaceFacts ==
  ASSUME Inv, CodeInv
  PROVE  /\ \A place \in Places :
              \E i \in DOMAIN funcs : \E p \in 1 .. funcs[i].next_inst_id :
                place = <<i, p>>
         /\ \A i \in DOMAIN funcs : \A p \in 1 .. funcs[i].next_inst_id :
              <<i, p>> \in Places /\ At(<<i, p>>) = InstAt(funcs[i], p)
<1>1. \A i \in DOMAIN funcs : DOMAIN funcs[i].inst_list = 1 .. funcs[i].next_inst_id
  BY FuncFacts
<1>2. ASSUME NEW place \in Places
      PROVE  \E i \in DOMAIN funcs : \E p \in 1 .. funcs[i].next_inst_id : place = <<i, p>>
  <2>1. PICK i \in DOMAIN funcs : place \in {i} \X DOMAIN funcs[i].inst_list
    BY DEF Places
  <2>2. PICK p \in DOMAIN funcs[i].inst_list : place = <<i, p>>
    BY <2>1
  <2> QED BY <1>1, <2>2
<1>3. ASSUME NEW i \in DOMAIN funcs, NEW p \in 1 .. funcs[i].next_inst_id
      PROVE  <<i, p>> \in Places /\ At(<<i, p>>) = InstAt(funcs[i], p)
  <2>1. <<i, p>> \in {i} \X DOMAIN funcs[i].inst_list
    BY <1>1
  <2> QED BY <2>1 DEF Places, At
<1> QED BY <1>2, <1>3

\* A pointer has one ALLOC in the whole program.
LEMMA AllocIsAlone ==
  ASSUME Inv, CodeInv, NEW i \in DOMAIN funcs, NEW p \in 1 .. funcs[i].next_inst_id,
         InstAt(funcs[i], p).opcode = "ALLOC"
  PROVE  AllocsOf(InstAt(funcs[i], p).ir_obj.val) = {<<i, p>>}
<1> DEFINE ptr == InstAt(funcs[i], p).ir_obj.val
<1>1. <<i, p>> \in AllocsOf(ptr)
  BY PlaceFacts DEF AllocsOf
<1>2. ASSUME NEW q \in AllocsOf(ptr) PROVE q = <<i, p>>
  <2>1. PICK j \in DOMAIN funcs : \E r \in 1 .. funcs[j].next_inst_id : q = <<j, r>>
    BY PlaceFacts DEF AllocsOf
  <2>2. PICK r \in 1 .. funcs[j].next_inst_id : q = <<j, r>>
    BY <2>1
  <2>3. InstAt(funcs[j], r).opcode = "ALLOC" /\ InstAt(funcs[j], r).ir_obj.val = ptr
    <3>1. At(q) = InstAt(funcs[j], r)
      BY <2>2, PlaceFacts
    <3> QED BY <3>1 DEF AllocsOf
  <2>4. /\ i \in 1 .. Len(funcs) /\ p - 1 \in 0 .. funcs[i].next_inst_id - 1
        /\ InstAt(funcs[i], p) = funcs[i].inst_map[p - 1]
    BY FuncFacts
  <2>5. /\ j \in 1 .. Len(funcs) /\ r - 1 \in 0 .. funcs[j].next_inst_id - 1
        /\ InstAt(funcs[j], r) = funcs[j].inst_map[r - 1]
    BY FuncFacts
  <2>6. IsAlloc(i, p - 1) /\ IsAlloc(j, r - 1) /\ PointerOf(j, r - 1) = PointerOf(i, p - 1)
    BY <2>3, <2>4, <2>5 DEF IsAlloc, PointerOf
  <2>7. i = j /\ p - 1 = r - 1
    BY <2>4, <2>5, <2>6 DEF CodeInv, ProgInv, PointersApart
  <2> QED BY <2>2, <2>7
<1> QED BY <1>1, <1>2

LEMMA MemoryIsDisciplined == ASSUME Inv, CodeInv PROVE MemoryDiscipline
<1> SUFFICES ASSUME NEW i \in DOMAIN funcs, NEW p \in 1 .. funcs[i].next_inst_id,
                    InstAt(funcs[i], p).opcode \in {"LOAD", "STORE"}
             PROVE  LET inst   == InstAt(funcs[i], p)
                        before == {i} \X (1 .. p - 1)
                    IN /\ \E q \in before : AllocsOf(Address(inst)) = {q}
                       /\ inst.opcode = "LOAD" =>
                            \E q \in before :
                              At(q).opcode = "STORE" /\ Address(At(q)) = Address(inst)
  <2>1. ASSUME NEW place \in Places, At(place).opcode \in {"LOAD", "STORE"}
        PROVE  LET inst   == At(place)
                   before == {place[1]} \X (1 .. place[2] - 1)
               IN /\ \E q \in before : AllocsOf(Address(inst)) = {q}
                  /\ inst.opcode = "LOAD" =>
                       \E q \in before :
                         At(q).opcode = "STORE" /\ Address(At(q)) = Address(inst)
    <3>1. PICK i \in DOMAIN funcs : \E p \in 1 .. funcs[i].next_inst_id : place = <<i, p>>
      BY PlaceFacts
    <3>2. PICK p \in 1 .. funcs[i].next_inst_id : place = <<i, p>>
      BY <3>1
    <3>3. place[1] = i /\ place[2] = p /\ At(place) = InstAt(funcs[i], p)
      BY <3>2, PlaceFacts
    <3> QED BY <2>1, <3>3
  <2> QED BY <2>1 DEF MemoryDiscipline
<1> DEFINE f    == funcs[i]
           inst == InstAt(f, p)
<1>1. /\ f.next_inst_id \in Nat /\ Fits(f, p - 1, inst)
      /\ \A q \in 1 .. f.next_inst_id : InstAt(f, q) = f.inst_map[q - 1]
  BY FuncFacts
<1>2. AllocIn(f, p - 1, Address(inst))
  BY <1>1 DEF Fits, Address
<1>3. inst.opcode = "LOAD" => StoreIn(f, p - 1, Address(inst))
  BY <1>1 DEF Fits, Address
<1> HIDE DEF inst, f
<1>4. ASSUME NEW j \in 0 .. p - 1 - 1
      PROVE  /\ j + 1 \in 1 .. p - 1 /\ j + 1 \in 1 .. f.next_inst_id
             /\ InstAt(f, j + 1) = f.inst_map[j]
  <2>1. j + 1 \in 1 .. p - 1 /\ j + 1 \in 1 .. f.next_inst_id /\ j + 1 - 1 = j
    BY <1>1 DEF f
  <2> QED BY <1>1, <2>1
<1>5. \E q \in {i} \X (1 .. p - 1) : AllocsOf(Address(inst)) = {q}
  <2>1. PICK j \in 0 .. p - 1 - 1 :
          f.inst_map[j].opcode = "ALLOC" /\ f.inst_map[j].ir_obj.val = Address(inst)
    BY <1>2 DEF AllocIn
  <2>2. InstAt(f, j + 1).opcode = "ALLOC" /\ InstAt(f, j + 1).ir_obj.val = Address(inst)
    BY <1>4, <2>1
  <2>3. AllocsOf(Address(inst)) = {<<i, j + 1>>}
    BY <1>4, <2>2, AllocIsAlone DEF f
  <2> QED BY <1>4, <2>3
<1>6. ASSUME inst.opcode = "LOAD"
      PROVE  \E q \in {i} \X (1 .. p - 1) :
               At(q).opcode = "STORE" /\ Address(At(q)) = Address(inst)
  <2>1. PICK j \in 0 .. p - 1 - 1 :
          f.inst_map[j].opcode = "STORE" /\ f.inst_map[j].operands[2].val = Address(inst)
    BY <1>3, <1>6 DEF StoreIn
  <2>2. At(<<i, j + 1>>) = f.inst_map[j]
    BY <1>4, PlaceFacts DEF f
  <2>3. Address(At(<<i, j + 1>>)) = Address(inst)
    BY <2>1, <2>2 DEF Address
  <2> QED BY <1>4, <2>1, <2>2, <2>3
<1> QED BY <1>5, <1>6 DEF inst, f

-----------------------------------------------------------------------------
(* What a step may never do to the code.                                   *)

LEMMA SameCodeSame ==
  ASSUME NEW a \in InstData, NEW b \in InstData, SameCode(a, b)
  PROVE  [a EXCEPT !.users = <<>>] = [b EXCEPT !.users = <<>>]
  BY DEF SameCode, InstData

AppendStep ==
  /\ \A i \in DOMAIN funcs :
       /\ i \in DOMAIN funcs'
       /\ i < Len(funcs') => funcs'[i].inst_map = funcs[i].inst_map
       /\ funcs[i].ir_blocks > 0 => funcs'[i] = funcs[i]
       /\ \A id \in DOMAIN funcs[i].inst_map :
            [funcs'[i].inst_map[id] EXCEPT !.users = <<>>]
              = [funcs[i].inst_map[id] EXCEPT !.users = <<>>]
  /\ status # "run" => UNCHANGED funcs

LEMMA EmitsAppends ==
  ASSUME Inv, Inv', CodeInv, NEW inst \in InstData, Emits(inst)
  PROVE  AppendStep
<1> DEFINE k == Len(funcs)
<1>1. /\ status = "run" /\ open > 0 /\ Len(funcs') = k /\ k \in Nat \ {0}
      /\ \A i \in 1 .. k - 1 : funcs'[i] = funcs[i]
      /\ Top' = funcs'[k] /\ Top' \in FuncSet /\ Grown(Top, Top', inst)
  BY EmitGrows DEF Emits
<1>2. DOMAIN funcs = 1 .. k /\ DOMAIN funcs' = 1 .. k /\ Top = funcs[k] /\ Top \in FuncSet
  <2>1. funcs \in Seq(FuncSet) /\ funcs' \in Seq(FuncSet)
    BY DEF Inv, TypeInv
  <2> QED BY <1>1, <2>1, LenProperties, InBlock DEF Top
<1>3. Top.ir_blocks = 0
  BY <1>1 DEF CodeInv
<1>4. ASSUME NEW id \in DOMAIN Top.inst_map
      PROVE  [Top'.inst_map[id] EXCEPT !.users = <<>>] = [Top.inst_map[id] EXCEPT !.users = <<>>]
  <2>1. /\ id \in 0 .. Top.next_inst_id - 1 /\ Top.next_inst_id \in Nat
        /\ Top'.next_inst_id = Top.next_inst_id + 1
        /\ Top.inst_map \in [0 .. Top.next_inst_id - 1 -> InstData]
        /\ Top'.inst_map \in [0 .. Top'.next_inst_id - 1 -> InstData]
    BY <1>1, <1>2, FuncSetIsFunc DEF IsFunc, Grown
  <2>2. Top'.inst_map[id] \in InstData /\ Top.inst_map[id] \in InstData
    BY <2>1
  <2>3. SameCode(Top'.inst_map[id], Top.inst_map[id])
    <3>1. Entry(Top, inst, id) = Top.inst_map[id]
      BY <2>1 DEF Entry
    <3>2. SameCode(Top'.inst_map[id], Entry(Top, inst, id))
      BY <1>1, <2>1 DEF Grown
    <3> QED BY <3>1, <3>2
  <2> QED BY <2>2, <2>3, SameCodeSame
<1> HIDE DEF k
<1>5. ASSUME NEW i \in 1 .. k
      PROVE  /\ i < Len(funcs') => funcs'[i].inst_map = funcs[i].inst_map
             /\ funcs[i].ir_blocks > 0 => funcs'[i] = funcs[i]
             /\ \A id \in DOMAIN funcs[i].inst_map :
                  [funcs'[i].inst_map[id] EXCEPT !.users = <<>>]
                    = [funcs[i].inst_map[id] EXCEPT !.users = <<>>]
  <2>1. CASE i = k
    BY <1>1, <1>2, <1>3, <1>4, <2>1
  <2>2. CASE i # k
    <3>1. i \in 1 .. k - 1
      BY <1>1, <2>2
    <3> QED BY <1>1, <3>1
  <2> QED BY <2>1, <2>2
<1> QED BY <1>1, <1>2, <1>5 DEF AppendStep

LEMMA BeginFuncAppends == ASSUME Inv, BeginFunc PROVE AppendStep
<1>1. AtTop /\ funcs' = Append(funcs, NewFunc) /\ funcs \in Seq(FuncSet)
  BY InTop DEF BeginFunc
<1>2. /\ Len(funcs) \in Nat /\ Len(funcs') = Len(funcs) + 1 /\ funcs' \in Seq(FuncSet)
      /\ \A i \in 1 .. Len(funcs) : funcs'[i] = funcs[i]
  BY <1>1, NewFuncIsFunc, AppendProperties, LenProperties
<1>3. DOMAIN funcs = 1 .. Len(funcs) /\ DOMAIN funcs' = 1 .. Len(funcs) + 1
  BY <1>1, <1>2, LenProperties
<1> QED BY <1>1, <1>2, <1>3 DEF AppendStep, AtTop

\* What EndFunc changes in the program, and in the status.
LEMMA EndFuncKeeps ==
  ASSUME Inv, Inv', CodeInv, EndFunc
  PROVE  /\ status = "run" /\ status' = "run"
         /\ DOMAIN funcs = 1 .. Len(funcs) /\ DOMAIN funcs' = 1 .. Len(funcs)
         /\ Len(funcs') = Len(funcs) /\ Len(funcs) \in Nat /\ Top.ir_blocks = 0
         /\ \A i \in 1 .. Len(funcs) : /\ SameParts(funcs[i], funcs'[i])
                                       /\ i < Len(funcs) => funcs'[i] = funcs[i]
<1> DEFINE k == Len(funcs)
<1>1. AtItem /\ funcs' = [funcs EXCEPT ![k] = [Top EXCEPT !.ir_blocks = @ + 1]]
      /\ status = "run" /\ open > 0 /\ funcs \in Seq(FuncSet) /\ Top \in FuncSet
  BY InItem, InBlock DEF EndFunc, Top
<1>2. DOMAIN funcs = 1 .. k /\ k \in Nat /\ Len(funcs') = k /\ DOMAIN funcs' = 1 .. k
  <2>1. DOMAIN funcs' = DOMAIN funcs
    BY <1>1
  <2>2. funcs' \in Seq(FuncSet)
    BY DEF Inv, TypeInv
  <2> QED BY <1>1, <2>1, <2>2, LenProperties
<1>3. ASSUME NEW i \in 1 .. k
      PROVE  SameParts(funcs[i], funcs'[i]) /\ (i < k => funcs'[i] = funcs[i])
  BY <1>1, <1>2 DEF SameParts, Top, FuncSet
<1>4. status' = "run"
  BY DEF EndFunc, Inv, NoInternalPanic
<1> QED BY <1>1, <1>2, <1>3, <1>4 DEF CodeInv

LEMMA EndFuncAppends == ASSUME Inv, Inv', CodeInv, EndFunc PROVE AppendStep
<1>1. /\ status = "run" /\ Len(funcs) \in Nat
      /\ DOMAIN funcs = 1 .. Len(funcs) /\ DOMAIN funcs' = 1 .. Len(funcs)
      /\ Len(funcs') = Len(funcs) /\ funcs[Len(funcs)].ir_blocks = 0
      /\ \A i \in 1 .. Len(funcs) : /\ SameParts(funcs[i], funcs'[i])
                                    /\ i < Len(funcs) => funcs'[i] = funcs[i]
  BY EndFuncKeeps DEF Top
<1> QED BY <1>1 DEF AppendStep, SameParts

LEMMA NextAppends ==
  ASSUME Inv, Inv', CodeInv, [Next]_vars
  PROVE  [AppendStep]_vars
<1>1. CASE \E inst \in InstData : Emits(inst)
  BY <1>1, EmitsAppends
<1>2. CASE UNCHANGED funcs
  <2>1. DOMAIN funcs = 1 .. Len(funcs)
    BY LenProperties DEF Inv, TypeInv
  <2> QED BY <1>2, <2>1 DEF AppendStep
<1> QED BY <1>1, <1>2, CodeStep, BeginFuncAppends, EndFuncAppends DEF CodeGrows

-----------------------------------------------------------------------------
(* The refinement.                                                         *)

Sayings == {Said(inst) : inst \in InstData}

LEMMA BodyFacts ==
  ASSUME NEW f \in FuncSet, LegalFunc(f)
  PROVE  /\ Body(f) \in Seq(Sayings) /\ Len(Body(f)) = f.next_inst_id
         /\ f.next_inst_id \in Nat /\ DOMAIN Body(f) = 1 .. f.next_inst_id
         /\ \A p \in 1 .. f.next_inst_id : Body(f)[p] = Said(f.inst_map[p - 1])
<1> DEFINE n == f.next_inst_id
           b == Body(f)
<1>1. n \in Nat /\ f.inst_map \in [0 .. n - 1 -> InstData]
  BY FuncSetIsFunc DEF IsFunc
<1>2. f.inst_list = [p \in 1 .. n |-> p - 1]
  BY DEF LegalFunc
<1>3. DOMAIN f.inst_list = 1 .. n /\ \A p \in 1 .. n : f.inst_list[p] = p - 1
  BY <1>2
<1>4. b = [p \in 1 .. n |-> Said(InstAt(f, p))]
  BY <1>3 DEF Body
<1>5. ASSUME NEW p \in 1 .. n
      PROVE  InstAt(f, p) = f.inst_map[p - 1] /\ Said(InstAt(f, p)) \in Sayings
  <2>1. InstAt(f, p) = f.inst_map[p - 1] /\ p - 1 \in 0 .. n - 1
    BY <1>1, <1>3 DEF InstAt
  <2>2. InstAt(f, p) \in InstData
    BY <1>1, <2>1
  <2> QED BY <2>1, <2>2 DEF Sayings
<1> HIDE DEF n, b
<1>6. b \in [1 .. n -> Sayings] /\ DOMAIN b = 1 .. n
  BY <1>4, <1>5
<1>7. b \in Seq(Sayings)
  BY <1>1, <1>6, SeqDef
<1>8. Len(b) = n
  BY <1>1, <1>6, <1>7, LenProperties
<1>9. \A p \in 1 .. n : b[p] = Said(f.inst_map[p - 1])
  BY <1>4, <1>5
<1> QED BY <1>1, <1>6, <1>7, <1>8, <1>9 DEF n, b

LEMMA SaidSame == ASSUME NEW a, NEW b, SameCode(a, b) PROVE Said(a) = Said(b)
  BY DEF SameCode, Said

LEMMA BodyGrows ==
  ASSUME NEW f \in FuncSet, LegalFunc(f), NEW g \in FuncSet, LegalFunc(g),
         NEW inst \in InstData, Grown(f, g, inst)
  PROVE  Body(g) = Append(Body(f), Said(inst))
<1> DEFINE n == f.next_inst_id
           b == Body(f)
           c == Body(g)
           d == Append(b, Said(inst))
<1>1. /\ b \in Seq(Sayings) /\ Len(b) = n /\ n \in Nat
      /\ \A p \in 1 .. n : b[p] = Said(f.inst_map[p - 1])
  BY BodyFacts
<1>2. g.next_inst_id = n + 1
  BY DEF Grown
<1>3. /\ c \in Seq(Sayings) /\ Len(c) = n + 1
      /\ \A p \in 1 .. n + 1 : c[p] = Said(g.inst_map[p - 1])
  BY <1>2, BodyFacts
<1>4. Said(inst) \in Sayings
  BY DEF Sayings
<1> HIDE DEF b, c
<1>5. /\ d \in Seq(Sayings) /\ Len(d) = n + 1
      /\ \A p \in 1 .. n + 1 : d[p] = IF p = n + 1 THEN Said(inst) ELSE b[p]
  BY <1>1, <1>4, AppendProperties
<1>6. ASSUME NEW p \in 1 .. n + 1 PROVE c[p] = d[p]
  <2>1. p - 1 \in 0 .. n /\ c[p] = Said(g.inst_map[p - 1])
    BY <1>1, <1>3
  <2>2. SameCode(g.inst_map[p - 1], Entry(f, inst, p - 1))
    BY <2>1 DEF Grown
  <2>3. c[p] = Said(Entry(f, inst, p - 1))
    BY <2>1, <2>2, SaidSame
  <2>4. CASE p = n + 1
    BY <1>1, <1>5, <2>3, <2>4 DEF Entry
  <2>5. CASE p # n + 1
    <3>1. p \in 1 .. n /\ p - 1 # n
      BY <1>1, <2>5
    <3> QED BY <1>1, <1>5, <2>3, <2>5, <3>1 DEF Entry
  <2> QED BY <2>4, <2>5
<1> HIDE DEF d
<1>7. c = d
  BY <1>3, <1>5, <1>6, SeqEqual
<1> QED BY <1>7 DEF b, c, d

LEMMA BodySame ==
  ASSUME NEW f, NEW g, SameParts(f, g) PROVE Body(g) = Body(f)
  BY DEF SameParts, Body, InstAt

\* The refined program is a sequence of such bodies.
Built ==
  /\ BuiltCode \in Seq(Seq(Sayings)) /\ Len(BuiltCode) = Len(funcs)
  /\ Len(funcs) \in Nat /\ DOMAIN BuiltCode = 1 .. Len(funcs)
  /\ \A i \in 1 .. Len(funcs) :
       BuiltCode[i] = Body(funcs[i]) /\ funcs[i] \in FuncSet /\ LegalFunc(funcs[i])

LEMMA BuiltFacts == Inv /\ CodeInv => Built
<1> SUFFICES ASSUME Inv, CodeInv PROVE Built
  OBVIOUS
<1> DEFINE k == Len(funcs)
<1>1. funcs \in Seq(FuncSet) /\ k \in Nat /\ DOMAIN funcs = 1 .. k
  BY LenProperties DEF Inv, TypeInv
<1>2. \A i \in 1 .. k : funcs[i] \in FuncSet /\ LegalFunc(funcs[i])
  BY <1>1, FuncFacts
<1>3. BuiltCode = [i \in 1 .. k |-> Body(funcs[i])]
  BY <1>1 DEF BuiltCode
<1>4. \A i \in 1 .. k : Body(funcs[i]) \in Seq(Sayings)
  BY <1>2, BodyFacts
<1> HIDE DEF k
<1>5. BuiltCode \in [1 .. k -> Seq(Sayings)] /\ DOMAIN BuiltCode = 1 .. k
  BY <1>3, <1>4
<1>6. BuiltCode \in Seq(Seq(Sayings))
  BY <1>1, <1>5, SeqDef
<1>7. Len(BuiltCode) = k
  BY <1>1, <1>5, <1>6, LenProperties
<1>8. \A i \in 1 .. k : BuiltCode[i] = Body(funcs[i])
  BY <1>3
<1> QED BY <1>1, <1>2, <1>5, <1>6, <1>7, <1>8 DEF Built, k

LEMMA SaidFields ==
  ASSUME NEW inst
  PROVE  /\ Said(inst).typ = inst.typ /\ Said(inst).ir_obj = inst.ir_obj
         /\ Said(inst).opcode = inst.opcode /\ Said(inst).operands = inst.operands
  BY DEF Said

\* An instruction that fits is legal in KoopaBuilder.
LEMMA FitsIsLegal ==
  ASSUME Inv, CodeInv, status = "run", open > 0,
         NEW inst \in InstData, Fits(Top, Top.next_inst_id, inst),
         inst.opcode = "ALLOC" => inst.ir_obj.val = nextPtr
  PROVE  Builder!Legal(Body(Top), Said(inst))
<1> DEFINE n == Top.next_inst_id
           b == Body(Top)
           said == Said(inst)
<1>1. Top \in FuncSet /\ LegalFunc(Top) /\ n \in Nat /\ Len(funcs) \in 1 .. Len(funcs)
  <2>1. Top \in FuncSet /\ Len(funcs) \in Nat \ {0} /\ n \in Nat
    BY InBlock
  <2>2. Len(funcs) \in 1 .. Len(funcs)
    BY <2>1
  <2> QED BY <2>1, <2>2, BuiltFacts DEF Built, Top
<1>2. /\ Len(b) = n /\ DOMAIN b = 1 .. n
      /\ \A p \in 1 .. n : b[p] = Said(Top.inst_map[p - 1])
  BY <1>1, BodyFacts
<1>3. /\ said.typ = inst.typ /\ said.ir_obj = inst.ir_obj
      /\ said.opcode = inst.opcode /\ said.operands = inst.operands
      /\ DOMAIN inst.operands = 1 .. Len(inst.operands)
  <2>1. inst.operands \in Seq(Operand)
    BY DEF InstData
  <2> QED BY <2>1, SaidFields, LenProperties
<1> HIDE DEF b, said
<1>4. ASSUME NEW j \in 0 .. n - 1
      PROVE  /\ j + 1 \in DOMAIN b
             /\ b[j + 1].opcode = Top.inst_map[j].opcode
             /\ b[j + 1].ir_obj = Top.inst_map[j].ir_obj
             /\ b[j + 1].operands = Top.inst_map[j].operands
  <2>1. j + 1 \in 1 .. n /\ j + 1 - 1 = j
    BY <1>1
  <2>2. b[j + 1] = Said(Top.inst_map[j])
    BY <1>2, <2>1
  <2> QED BY <1>2, <2>1, <2>2, SaidFields
<1>5. ASSUME NEW o, Usable(Top, n, o) PROVE Builder!IsValue(b, o)
  <2>1. CASE o.kind = "Const"
    BY <2>1 DEF Builder!IsValue
  <2>2. CASE o.kind # "Const"
    <3>1. o.kind = "InstId" /\ o.val \in 0 .. n - 1
          /\ Top.inst_map[o.val].opcode \in ValueOps \ {"ALLOC"}
      BY <1>5, <2>2 DEF Usable
    <3> QED BY <1>4, <3>1 DEF Builder!IsValue, Builder!ValueOps, ValueOps
  <2> QED BY <2>1, <2>2
<1>6. ASSUME NEW ptr, AllocIn(Top, n, ptr) PROVE ptr \in Builder!AllocatedIn(b)
  <2>1. PICK j \in 0 .. n - 1 :
          Top.inst_map[j].opcode = "ALLOC" /\ Top.inst_map[j].ir_obj.val = ptr
    BY <1>6 DEF AllocIn
  <2> QED BY <1>4, <2>1 DEF Builder!AllocatedIn
<1>7. ASSUME NEW ptr, StoreIn(Top, n, ptr) PROVE ptr \in Builder!StoredIn(b)
  <2>1. PICK j \in 0 .. n - 1 :
          Top.inst_map[j].opcode = "STORE" /\ Top.inst_map[j].operands[2].val = ptr
    BY <1>7 DEF StoreIn
  <2> QED BY <1>4, <2>1 DEF Builder!StoredIn
<1>8. nextPtr \notin Builder!Allocated
  <2> SUFFICES ASSUME NEW i \in 1 .. Len(funcs), nextPtr \in Builder!AllocatedIn(BuiltCode[i])
               PROVE  FALSE
    BY BuiltFacts DEF Built, Builder!Allocated
  <2> DEFINE f == funcs[i]
  <2>1. BuiltCode[i] = Body(f) /\ f \in FuncSet /\ LegalFunc(f)
    BY BuiltFacts DEF Built
  <2>2. /\ DOMAIN Body(f) = 1 .. f.next_inst_id /\ f.next_inst_id \in Nat
        /\ \A p \in 1 .. f.next_inst_id : Body(f)[p] = Said(f.inst_map[p - 1])
    BY <2>1, BodyFacts
  <2>3. PICK p \in 1 .. f.next_inst_id :
          Body(f)[p].opcode = "ALLOC" /\ Body(f)[p].ir_obj.val = nextPtr
    BY <2>1, <2>2 DEF Builder!AllocatedIn
  <2>4. p - 1 \in 0 .. f.next_inst_id - 1 /\ f.inst_map[p - 1].opcode = "ALLOC"
        /\ f.inst_map[p - 1].ir_obj.val = nextPtr
    BY <2>2, <2>3, SaidFields
  <2>5. IsAlloc(i, p - 1) /\ PointerOf(i, p - 1) = nextPtr
    BY <2>4 DEF IsAlloc, PointerOf
  <2>6. nextPtr \in 0 .. nextPtr - 1 /\ nextPtr \in Nat
    BY <2>4, <2>5 DEF CodeInv, ProgInv, PointersApart, Inv, TypeInv
  <2> QED BY <2>6
<1>9. KoopaOpCode = Builder!KoopaOpCode /\ ValueOps = Builder!ValueOps
      /\ InstIdObj(n) = Builder!InstIdObj(n)
  BY DEF KoopaOpCode, Builder!KoopaOpCode, ValueOps, Builder!ValueOps, InstIdObj, Obj,
         Builder!InstIdObj, Builder!Obj
<1>10. /\ said.opcode \in Builder!KoopaOpCode
       /\ Len(said.operands) = Builder!Arity(said.opcode)
       /\ said.typ = (IF said.opcode \in Builder!ValueOps THEN "Int" ELSE "Void")
       /\ said.opcode \in Builder!Binary \cup {"LOAD"} =>
            said.ir_obj = Builder!InstIdObj(Len(b))
  BY <1>2, <1>3, <1>9 DEF Fits
<1>11. said.opcode \in Builder!Binary \cup {"RET"} =>
         \A k \in DOMAIN said.operands : Builder!IsValue(b, said.operands[k])
  BY <1>3, <1>5 DEF Fits
<1>12. said.opcode = "ALLOC" => said.ir_obj.val \notin Builder!Allocated
  BY <1>3, <1>8
<1>13. said.opcode = "STORE" => /\ Builder!IsValue(b, said.operands[1])
                                /\ said.operands[2].kind = "Pointer"
                                /\ said.operands[2].val \in Builder!AllocatedIn(b)
  BY <1>3, <1>5, <1>6 DEF Fits
<1>14. said.opcode = "LOAD" =>
         /\ said.operands[1].kind = "Pointer"
         /\ said.operands[1].val \in Builder!AllocatedIn(b) \cap Builder!StoredIn(b)
  BY <1>3, <1>6, <1>7 DEF Fits
<1>15. Builder!Legal(b, said)
  BY <1>10, <1>11, <1>12, <1>13, <1>14 DEF Builder!Legal
<1> QED BY <1>15 DEF b, said

LEMMA InitBuilds == Init => Builder!Init
<1> SUFFICES ASSUME Init PROVE Builder!Init
  OBVIOUS
<1>1. funcs = <<>> /\ status = "run"
  BY DEF Init
<1>2. BuiltCode = <<>>
  BY <1>1 DEF BuiltCode
<1> QED BY <1>1, <1>2 DEF Builder!Init

LEMMA EmitsBuilds ==
  ASSUME Inv, Inv', CodeInv, CodeInv', NEW inst \in InstData, Emits(inst)
  PROVE  Builder!AppendInst
<1> DEFINE k    == Len(funcs)
           said == Said(inst)
           body == Body(Top)
<1>1. /\ status = "run" /\ status' = "run" /\ Len(funcs') = k /\ k \in Nat \ {0}
      /\ \A i \in 1 .. k - 1 : funcs'[i] = funcs[i]
      /\ Top' = funcs'[k] /\ Top' \in FuncSet /\ Grown(Top, Top', inst) /\ Top \in FuncSet
  BY EmitGrows, InBlock DEF Emits
<1>2. /\ BuiltCode \in Seq(Seq(Sayings)) /\ Len(BuiltCode) = k /\ DOMAIN BuiltCode = 1 .. k
      /\ \A i \in 1 .. k : BuiltCode[i] = Body(funcs[i]) /\ LegalFunc(funcs[i])
  BY BuiltFacts DEF Built
<1>3. /\ Len(BuiltCode') = Len(funcs') /\ DOMAIN BuiltCode' = 1 .. Len(funcs')
      /\ BuiltCode' \in Seq(Seq(Sayings))
      /\ \A i \in 1 .. Len(funcs') : BuiltCode'[i] = Body(funcs'[i]) /\ LegalFunc(funcs'[i])
  <2>1. (Inv /\ CodeInv => Built)'
    BY BuiltFacts, PTL
  <2> QED BY <2>1 DEF Built
<1>4. k \in 1 .. k /\ BuiltCode[k] = body
  BY <1>1, <1>2 DEF Top
<1>5. BuiltCode'[k] = Append(body, said)
  <2>1. LegalFunc(Top) /\ LegalFunc(Top')
    BY <1>1, <1>2, <1>3, <1>4 DEF Top
  <2>2. Body(Top') = Append(Body(Top), Said(inst))
    BY <1>1, <2>1, BodyGrows
  <2> QED BY <1>1, <1>3, <1>4, <2>2
<1>6. Builder!Legal(body, said)
  BY FitsIsLegal DEF Emits
<1>7. /\ body \in Seq(Sayings) /\ said \in Sayings
  <2>1. body \in Seq(Sayings)
    BY <1>1, <1>2, <1>4, BodyFacts DEF Top
  <2> QED BY <2>1 DEF Sayings
<1> HIDE DEF k, said, body
<1>8. /\ Len(Append(body, said)) = Len(body) + 1 /\ Append(body, said)[Len(body) + 1] = said
  <2>1. Len(body) \in Nat
    BY <1>7, LenProperties
  <2> QED BY <1>7, <2>1, AppendProperties
<1>9. ASSUME NEW i \in 1 .. k, i # k PROVE BuiltCode'[i] = BuiltCode[i]
  <2>1. i \in 1 .. k - 1
    BY <1>1, <1>9
  <2> QED BY <1>1, <1>2, <1>3, <2>1
<1>10. BuiltCode' = [BuiltCode EXCEPT ![k] = Append(BuiltCode[k], said)]
  <2> DEFINE new == [BuiltCode EXCEPT ![k] = Append(BuiltCode[k], said)]
  <2>1. DOMAIN new = 1 .. k /\ \A i \in 1 .. k :
          new[i] = IF i = k THEN Append(body, said) ELSE BuiltCode[i]
    BY <1>2, <1>4
  <2>2. DOMAIN BuiltCode' = 1 .. k /\ \A i \in 1 .. k :
          BuiltCode'[i] = IF i = k THEN Append(body, said) ELSE BuiltCode[i]
    BY <1>1, <1>3, <1>5, <1>9
  <2>3. new = [i \in 1 .. k |-> new[i]] /\ BuiltCode' = [i \in 1 .. k |-> BuiltCode'[i]]
    <3>1. new \in [1 .. k -> {new[i] : i \in 1 .. k}]
      BY <2>1
    <3>2. BuiltCode' = [i \in 1 .. k |-> BuiltCode'[i]]
      BY <1>1, <1>3 DEF BuiltCode
    <3> QED BY <3>1, <3>2
  <2> HIDE DEF new
  <2>4. [i \in 1 .. k |-> new[i]] = [i \in 1 .. k |-> BuiltCode'[i]]
    BY <2>1, <2>2
  <2> QED BY <2>3, <2>4 DEF new
<1>11. BuiltCode # <<>>
  BY <1>1, <1>2, EmptySeq
<1>12. /\ Len(BuiltCode') = Len(BuiltCode)
       /\ Len(BuiltCode'[Len(BuiltCode)]) = Len(BuiltCode[Len(BuiltCode)]) + 1
       /\ BuiltCode'[Len(BuiltCode)][Len(BuiltCode[Len(BuiltCode)]) + 1] = said
       /\ Builder!Legal(BuiltCode[Len(BuiltCode)], said)
  BY <1>1, <1>2, <1>3, <1>4, <1>5, <1>6, <1>8
<1>13. BuiltCode' = [BuiltCode EXCEPT ![Len(BuiltCode)] = Append(@, said)]
  BY <1>2, <1>10
<1> QED BY <1>1, <1>11, <1>12, <1>13 DEF Builder!AppendInst

LEMMA BeginFuncBuilds == ASSUME Inv, BeginFunc PROVE Builder!NewFunction
<1> DEFINE k == Len(funcs)
<1>1. status = "run" /\ status' = status /\ funcs' = Append(funcs, NewFunc)
      /\ funcs \in Seq(FuncSet)
  BY InTop DEF BeginFunc
<1>2. /\ k \in Nat /\ DOMAIN funcs = 1 .. k /\ DOMAIN funcs' = 1 .. k + 1
      /\ funcs'[k + 1] = NewFunc /\ \A i \in 1 .. k : funcs'[i] = funcs[i]
  <2>1. /\ k \in Nat /\ funcs' \in Seq(FuncSet) /\ Len(funcs') = k + 1
        /\ funcs'[k + 1] = NewFunc /\ \A i \in 1 .. k : funcs'[i] = funcs[i]
    BY <1>1, NewFuncIsFunc, AppendProperties, LenProperties
  <2> QED BY <1>1, <2>1, LenProperties
<1>3. Body(NewFunc) = <<>>
  <2>1. NewFunc.inst_list = <<>>
    BY DEF NewFunc
  <2> QED BY <2>1 DEF Body
<1> HIDE DEF k
<1>4. BuiltCode = [i \in 1 .. k |-> Body(funcs[i])]
      /\ BuiltCode' = [i \in 1 .. k + 1 |-> Body(funcs'[i])]
  BY <1>2 DEF BuiltCode
<1>5. BuiltCode' = Append(BuiltCode, <<>>)
  <2> DEFINE S == {Body(funcs'[i]) : i \in 1 .. k + 1}
  <2>1. BuiltCode \in [1 .. k -> S] /\ BuiltCode' \in [1 .. k + 1 -> S] /\ <<>> \in S
    BY <1>2, <1>3, <1>4
  <2>2. BuiltCode \in Seq(S) /\ BuiltCode' \in Seq(S) /\ Len(BuiltCode) = k
        /\ Len(BuiltCode') = k + 1
    <3> HIDE DEF S
    <3>1. BuiltCode \in Seq(S) /\ BuiltCode' \in Seq(S)
      BY <1>2, <2>1, SeqDef
    <3> QED BY <1>2, <2>1, <3>1, LenProperties
  <2> HIDE DEF S
  <2>3. /\ Append(BuiltCode, <<>>) \in Seq(S) /\ Len(Append(BuiltCode, <<>>)) = k + 1
        /\ \A i \in 1 .. k + 1 :
             Append(BuiltCode, <<>>)[i] = IF i = k + 1 THEN <<>> ELSE BuiltCode[i]
    BY <1>2, <2>1, <2>2, AppendProperties
  <2>4. ASSUME NEW i \in 1 .. k + 1
        PROVE  BuiltCode'[i] = IF i = k + 1 THEN <<>> ELSE BuiltCode[i]
    BY <1>2, <1>3, <1>4
  <2> QED BY <2>2, <2>3, <2>4, SeqEqual
<1> QED BY <1>1, <1>5 DEF Builder!NewFunction

\* Nothing happens after the end.
LEMMA NextRuns == Next => status = "run"
<1> SUFFICES ASSUME Next PROVE status = "run"
  OBVIOUS
<1>1. CASE Functions
  BY <1>1 DEF Functions, BeginFunc, EndFunc, Finish, AtTop, AtItem
<1>2. CASE Items
  BY <1>2 DEF Items, BeginBlock, EndBlock, BeginConstDef, BeginVarDef, VarDefOnly, BeginAssign,
              BeginExpStmt, EndConstDef, EndVarDef, EndAssign, EndReturn, EndRawExp, AtItem,
              Complete
<1>3. CASE Exps
  <2> USE DEF InVarExp, InConstExp
  <2>1. CASE \E c \in Literals : Number(c)
    BY <2>1 DEF Number
  <2>2. CASE \E n \in Names : LValVar(n) \/ LValConst(n)
    BY <2>2 DEF LValVar, LValConst
  <2>3. CASE \E op \in Operators \cap UnaryOps : UnaryVar(op) \/ UnaryConst(op)
    BY <2>3 DEF UnaryVar, UnaryConst
  <2>4. CASE \E op \in Operators \ UnaryOps :
               \/ LOrExpVar(op)   \/ LAndExpVar(op)   \/ EqExpVar(op)
               \/ RelExpVar(op)   \/ MulExpVar(op)    \/ AddExpVar(op)
    BY <2>4 DEF LOrExpVar, LAndExpVar, EqExpVar, RelExpVar, MulExpVar, AddExpVar, BinaryVar
  <2>5. CASE \E op \in Operators \ UnaryOps :
               \/ LOrExpConst(op) \/ LAndExpConst(op) \/ EqExpConst(op)
               \/ RelExpConst(op) \/ MulExpConst(op)  \/ AddExpConst(op)
    BY <2>5 DEF LOrExpConst, LAndExpConst, EqExpConst, RelExpConst, MulExpConst, AddExpConst,
                BinaryConst
  <2> QED BY <1>3, <2>1, <2>2, <2>3, <2>4, <2>5 DEF Exps
<1> QED BY <1>1, <1>2, <1>3 DEF Next

LEMMA NextBuilds ==
  ASSUME Inv, Inv', CodeInv, CodeInv', [Next]_vars
  PROVE  [Builder!Next]_<<BuiltCode, status # "run">>
<1>1. CASE \E inst \in InstData : Emits(inst)
  BY <1>1, EmitsBuilds DEF Builder!Next
<1>2. CASE BeginFunc
  BY <1>2, BeginFuncBuilds DEF Builder!Next
<1>3. CASE EndFunc
  <2>1. /\ status = "run" /\ status' = "run"
        /\ DOMAIN funcs = 1 .. Len(funcs) /\ DOMAIN funcs' = 1 .. Len(funcs)
        /\ \A i \in 1 .. Len(funcs) : SameParts(funcs[i], funcs'[i])
    BY <1>3, EndFuncKeeps
  <2>2. \A i \in 1 .. Len(funcs) : Body(funcs'[i]) = Body(funcs[i])
    BY <2>1, BodySame
  <2>3. BuiltCode' = BuiltCode
    BY <2>1, <2>2 DEF BuiltCode
  <2> QED BY <2>1, <2>3
<1>4. CASE UNCHANGED funcs
  <2>1. BuiltCode' = BuiltCode
    BY <1>4 DEF BuiltCode
  <2>2. CASE UNCHANGED vars
    BY <2>1, <2>2 DEF vars
  <2>3. CASE Next
    <3>1. status = "run"
      BY <2>3, NextRuns
    <3>2. CASE status' = "run"
      BY <2>1, <3>1, <3>2
    <3>3. CASE status' # "run"
      BY <2>1, <3>1, <3>3 DEF Builder!Next, Builder!Stop
    <3> QED BY <3>2, <3>3
  <2> QED BY <2>2, <2>3
<1> QED BY <1>1, <1>2, <1>3, <1>4, CodeStep DEF CodeGrows

-----------------------------------------------------------------------------
\* Whatever the program, the code of every function is in static single
\* assignment form, and users is the inverse of the operands.
THEOREM CodeStaysSSA == Spec => []SSA
<1>1. Inv /\ CodeInv => SSA
  BY CodeIsSSA
<1> QED BY <1>1, CodeInvIsInvariant, PTL

\* Every LOAD and STORE goes to the one ALLOC of its pointer, and no LOAD comes
\* before the first STORE: what the "initialized" flags promise is in the code.
THEOREM MemoryStaysDisciplined == Spec => []MemoryDiscipline
<1>1. Inv /\ CodeInv => MemoryDiscipline
  BY MemoryIsDisciplined
<1> QED BY <1>1, CodeInvIsInvariant, PTL

\* What has been emitted stays as it was, but for its users.
THEOREM CodeOnlyGrows == Spec => AppendOnly
<1>1. Inv /\ Inv' /\ CodeInv /\ [Next]_vars => [AppendStep]_vars
  BY NextAppends
<1> QED BY <1>1, CodeInvIsInvariant, PTL DEF Spec, AppendOnly, AppendStep

\* The front end, with its tables, graphs and suspended statements, implements
\* KoopaBuilder: it appends legal instructions to the last function.
THEOREM FrontEndBuilds == Spec => ImplementsKoopaBuilder
<1>1. Inv /\ Inv' /\ CodeInv /\ CodeInv' /\ [Next]_vars
        => [Builder!Next]_<<BuiltCode, status # "run">>
  BY NextBuilds
<1> QED BY <1>1, InitBuilds, CodeInvIsInvariant, PTL
        DEF Spec, ImplementsKoopaBuilder, Builder!Spec
=============================================================================
