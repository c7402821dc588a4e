---------------------------- MODULE MeaningProofs ----------------------------
(***************************************************************************)
(* What is written means what was read, for every program and every width: *)
(* a function returns what its source returns, on the core and in the      *)
(* Koopa text.                                                             *)
(*                                                                         *)
(* SimInv follows one machine, which starts anew with each function, so    *)
(* that by the time a function is lowered or printed nothing is left of    *)
(* what its code has computed.  A trace of the Koopa machine over the code *)
(* brings it back: the front end has built one for each function           *)
(* (FrontMeans), the core runs beside it (OnTheWay), and a reader of the   *)
(* printed lines goes along it (ReaderFollows).                            *)
(***************************************************************************)
EXTENDS MachineProofs

-----------------------------------------------------------------------------
(* What a function computes.                                               *)

\* t is the machine before the code of f, after its first instruction, and so
\* on; m is the machine after all of it.
TraceOf(f, t) ==
  /\ t \in [0 .. f.next_inst_id -> Machines] /\ t[0] = NewMachine
  /\ \A i \in 0 .. f.next_inst_id - 1 : t[i + 1] = Execute(t[i], f.inst_map[i], BitwiseLogic)

EndsIn(f, m) == \E t : TraceOf(f, t) /\ t[f.next_inst_id] = m

\* Only the code counts.
LEMMA TraceSame ==
  ASSUME NEW f, NEW g, SameParts(f, g), NEW m, EndsIn(f, m)
  PROVE  EndsIn(g, m)
<1>1. PICK t : TraceOf(f, t) /\ t[f.next_inst_id] = m
  BY DEF EndsIn
<1>2. TraceOf(g, t) /\ t[g.next_inst_id] = m
  BY <1>1 DEF SameParts, TraceOf
<1> QED BY <1>2 DEF EndsIn

\* One more instruction, one more step.
LEMMA TraceGrows ==
  ASSUME NEW f, f.next_inst_id \in Nat, NEW g, NEW inst, Grown(f, g, inst),
         NEW m, EndsIn(f, m), NEW k, k \in Machines, k = Execute(m, inst, BitwiseLogic)
  PROVE  EndsIn(g, k)
<1> DEFINE n == f.next_inst_id
<1>1. PICK t : TraceOf(f, t) /\ t[n] = m
  BY DEF EndsIn
<1>2. n \in Nat /\ g.next_inst_id = n + 1
  BY DEF Grown
<1> DEFINE u == [i \in 0 .. n + 1 |-> IF i = n + 1 THEN k ELSE t[i]]
<1>3. t \in [0 .. n -> Machines] /\ t[0] = NewMachine
  BY <1>1 DEF TraceOf
<1>4. u \in [0 .. n + 1 -> Machines]
  <2> SUFFICES ASSUME NEW i \in 0 .. n + 1, i # n + 1 PROVE t[i] \in Machines
    OBVIOUS
  <2>1. i \in 0 .. n
    BY <1>2
  <2> QED BY <1>3, <2>1
<1>5. \A i \in 0 .. n : u[i] = t[i] /\ i \in 0 .. n + 1
  BY <1>2
<1>6. u[n + 1] = k /\ n + 1 \in 0 .. n + 1 /\ u[0] = NewMachine
  <2>1. 0 \in 0 .. n
    BY <1>2
  <2> QED BY <1>2, <1>3, <1>5, <2>1
<1> HIDE DEF u
<1>7. ASSUME NEW i \in 0 .. n PROVE u[i + 1] = Execute(u[i], g.inst_map[i], BitwiseLogic)
  <2>1. SameCode(g.inst_map[i], Entry(f, inst, i))
    BY DEF Grown
  <2>2. Execute(u[i], g.inst_map[i], BitwiseLogic) = Execute(u[i], Entry(f, inst, i), BitwiseLogic)
    BY <2>1, ExecuteSame
  <2>3. CASE i = n
    BY <1>1, <1>5, <1>6, <2>2, <2>3 DEF Entry
  <2>4. CASE i # n
    <3>1. i \in 0 .. n - 1 /\ i + 1 \in 0 .. n
      BY <1>2, <2>4
    <3>2. t[i + 1] = Execute(t[i], f.inst_map[i], BitwiseLogic)
      BY <1>1, <3>1 DEF TraceOf
    <3>3. Entry(f, inst, i) = f.inst_map[i]
      BY <2>4 DEF Entry
    <3> QED BY <1>5, <2>2, <3>1, <3>2, <3>3
  <2> QED BY <2>3, <2>4
<1>8. TraceOf(g, u)
  <2>1. n + 1 - 1 = n
    BY <1>2
  <2> QED BY <1>2, <1>4, <1>6, <1>7, <2>1 DEF TraceOf
<1> QED BY <1>2, <1>6, <1>8 DEF EndsIn

LEMMA TraceBegins ==
  ASSUME NEW f, f.next_inst_id = 0
  PROVE  EndsIn(f, NewMachine)
<1> DEFINE t == [i \in 0 .. 0 |-> NewMachine]
<1>1. NewMachine \in Machines
  BY NewMachineFacts
<1>2. t \in [0 .. 0 -> Machines] /\ t[0] = NewMachine
  BY <1>1
<1>3. 0 .. 0 - 1 = {}
  OBVIOUS
<1>4. TraceOf(f, t)
  BY <1>2, <1>3 DEF TraceOf
<1> QED BY <1>2, <1>4 DEF EndsIn

-----------------------------------------------------------------------------
(* What the source has returned.                                           *)

\* Only the function being read returns.
LastReturns(s, t) == \E v : t.rets = [s.rets EXCEPT ![Len(s.rets)] = v]

NextReturns ==
  \/ src'.rets = src.rets
  \/ BeginFunc /\ src'.rets = Append(src.rets, Undef)
  \/ EndReturn /\ LastReturns(src, src')

LEMMA SimReturns ==
  ASSUME IsSource(src), SimNext
  PROVE  NextReturns
<1>1. CASE SimFunctions
  BY <1>1, EnterFunctionFacts, LeaveFacts DEF SimFunctions, Records, NextReturns
<1>2. CASE SimItems
  <2>1. CASE (BeginBlock /\ Records(Enter(src))) \/ (EndBlock /\ Records(Leave(src)))
    BY <2>1, EnterFacts, LeaveFacts DEF Records, NextReturns
  <2>2. ASSUME NEW n \in Names,
               \/ Records(CheckFresh(src, n)) \/ Records(CheckTarget(src, n))
               \/ Records(Declare(CheckFresh(src, n), n, "var", Undef))
        PROVE  NextReturns
    <3>1. CASE Records(CheckFresh(src, n))
      BY <3>1, CheckFreshFacts DEF Records, NextReturns
    <3>2. CASE Records(CheckTarget(src, n))
      BY <3>2, CheckTargetFacts DEF Records, NextReturns
    <3>3. CASE Records(Declare(CheckFresh(src, n), n, "var", Undef))
      <4>1. src' = Declare(CheckFresh(src, n), n, "var", Undef)
        BY <3>3 DEF Records
      <4>2. src'.rets = src.rets
        BY <4>1, DeclareFreshFacts
      <4> QED BY <4>2 DEF NextReturns
    <3> QED BY <2>2, <3>1, <3>2, <3>3
  <2>3. CASE Records(src) \/ Records(Discard(src))
    BY <2>3, DiscardFacts DEF Records, NextReturns
  <2>4. CASE EndReturn /\ Records(Return(src))
    <3> DEFINE v == IF src.rets[Len(src.rets)] = Undef THEN src.vals[1]
                    ELSE src.rets[Len(src.rets)]
    <3>1. src' = [src EXCEPT !.vals = <<>>, !.rets = [src.rets EXCEPT ![Len(src.rets)] = v]]
      BY <2>4 DEF Records, Return
    <3> HIDE DEF v
    <3>2. src'.rets = [src.rets EXCEPT ![Len(src.rets)] = v]
      BY <3>1 DEF IsSource
    <3> QED BY <2>4, <3>2 DEF NextReturns, LastReturns
  <2>5. ASSUME NEW n, NEW kind, NEW v, Records(Declare(src, n, kind, v)) \/ Records(Assign(src, n))
        PROVE  NextReturns
    <3>1. src' = Declare(src, n, kind, v) \/ src' = Assign(src, n)
      BY <2>5 DEF Records
    <3>2. CASE src' = Declare(src, n, kind, v)
      <4>1. src'.rets = src.rets
        BY <3>2, DeclareFacts
      <4> QED BY <4>1 DEF NextReturns
    <3>3. CASE src' = Assign(src, n)
      BY <3>3, AssignFacts DEF NextReturns
    <3> QED BY <3>1, <3>2, <3>3
  <2> QED BY <1>2, <2>1, <2>2, <2>3, <2>4, <2>5 DEF SimItems
<1>3. CASE SimExps
  <2>1. CASE \E c \in Literals : Records(Push(src, c))
    BY <2>1, PushFacts DEF Records, NextReturns
  <2>2. CASE \E n \in Names : Records(Use(src, n)) \/ Records(UseConst(src, n))
    BY <2>2, UseFacts, UseConstFacts DEF Records, NextReturns
  <2>3. CASE \E op : Records(Unary(src, op)) \/ Records(Binary(src, op))
    BY <2>3, ReplaceLastFacts DEF Records, NextReturns, Unary, Binary
  <2>4. CASE \E op : Records(UnaryConstant(src, op)) \/ Records(BinaryConstant(src, op))
    BY <2>4, UnaryConstantFacts, BinaryConstantFacts DEF Records, NextReturns
  <2> QED BY <1>3, <2>1, <2>2, <2>3, <2>4 DEF SimExps
<1> QED BY <1>1, <1>2, <1>3 DEF SimNext

\* Every step records what it means.
LEMMA SimRecords == SimNext => \E m : Records(m)
<1>1. SimFunctions => \E m : Records(m)
  BY DEF SimFunctions
<1>2. SimItems => \E m : Records(m)
  BY DEF SimItems
<1>3. SimExps => \E m : Records(m)
  BY DEF SimExps
<1> QED BY <1>1, <1>2, <1>3 DEF SimNext

-----------------------------------------------------------------------------
(* What has been compiled returns what the source returns.                 *)

ReturnsMean ==
  /\ Len(src.rets) = Len(funcs)
  /\ \A i \in 1 .. Len(funcs) : \E m : EndsIn(funcs[i], m) /\ m.ret = src.rets[i]

TopRuns == Len(funcs) > 0 => EndsIn(Top, machine)

FrontMeans ==
  src.verdict = "legal" /\ status \in {"run", "ok"} =>
    ReturnsMean /\ (status = "run" => TopRuns)

LEMMA FrontMeansInit == SimInit => FrontMeans
<1> SUFFICES ASSUME SimInit PROVE ReturnsMean /\ TopRuns
  BY DEF FrontMeans
<1>1. funcs = <<>> /\ src = SrcInit
  BY DEF SimInit, Init
<1>2. src.rets = <<>>
  BY <1>1 DEF SrcInit
<1>3. Len(funcs) = 0 /\ Len(src.rets) = 0
  BY <1>1, <1>2, EmptySeq
<1> QED BY <1>3 DEF ReturnsMean, TopRuns

\* What a function that is complete returns is settled.
SettledKept(k) == \A i \in 1 .. k - 1 : funcs'[i] = funcs[i] /\ src'.rets[i] = src.rets[i]

LEMMA SettledReturns ==
  ASSUME ReturnsMean, NEW k, k = Len(funcs), k \in Nat, Len(funcs') = k, Len(src'.rets) = k,
         SettledKept(k),
         k > 0 => EndsIn(funcs'[k], machine') /\ machine'.ret = src'.rets[k]
  PROVE  ReturnsMean'
<1>1. ASSUME NEW i \in 1 .. k PROVE \E m : EndsIn(funcs'[i], m) /\ m.ret = src'.rets[i]
  <2>1. CASE i = k
    BY <2>1
  <2>2. CASE i # k
    <3>1. i \in 1 .. k - 1
      BY <2>2
    <3> QED BY <3>1 DEF SettledKept, ReturnsMean
  <2> QED BY <2>1, <2>2
<1> QED BY <1>1 DEF ReturnsMean, EndsIn, TraceOf

LEMMA BeginFuncMeans ==
  ASSUME Inv, Agree, ReturnsMean, BeginFunc, SimNext, src'.rets = Append(src.rets, Undef)
  PROVE  ReturnsMean' /\ TopRuns'
<1> DEFINE k == Len(funcs) + 1
<1>1. funcs' = Append(funcs, NewFunc) /\ funcs \in Seq(FuncSet) /\ Len(funcs) \in Nat
  BY InTop DEF BeginFunc
<1>2. /\ Len(funcs') = k /\ funcs'[k] = NewFunc /\ k \in Nat \ {0}
      /\ \A i \in 1 .. Len(funcs) : funcs'[i] = funcs[i]
  BY <1>1, NewFuncIsFunc, AppendProperties
<1>3. /\ src.rets \in Seq(Int) /\ Len(src.rets) = Len(funcs) /\ Undef \in Int
  BY UndefFacts DEF Agree, SourceStates, RetsAgree
<1>4. /\ Len(src'.rets) = k /\ src'.rets[k] = Undef
      /\ \A i \in 1 .. Len(funcs) : src'.rets[i] = src.rets[i]
  <2>1. /\ Len(Append(src.rets, Undef)) = Len(src.rets) + 1
        /\ Append(src.rets, Undef)[Len(src.rets) + 1] = Undef
        /\ \A i \in 1 .. Len(src.rets) : Append(src.rets, Undef)[i] = src.rets[i]
    BY <1>3, AppendProperties
  <2> QED BY <1>3, <2>1
<1>5. machine' = NewMachine
  <2>1. Len(funcs') > Len(funcs)
    BY <1>1, <1>2
  <2> QED BY <2>1, SimRecords DEF Records
<1>6. EndsIn(NewFunc, NewMachine) /\ NewMachine.ret = Undef
  <2>1. NewFunc.next_inst_id = 0
    BY DEF NewFunc
  <2> QED BY <2>1, TraceBegins, NewMachineFacts
<1>7. ASSUME NEW i \in 1 .. k PROVE \E m : EndsIn(funcs'[i], m) /\ m.ret = src'.rets[i]
  <2>1. CASE i = k
    BY <1>2, <1>4, <1>6, <2>1
  <2>2. CASE i # k
    <3>1. i \in 1 .. Len(funcs)
      BY <1>1, <2>2
    <3> QED BY <1>2, <1>4, <3>1 DEF ReturnsMean
  <2> QED BY <2>1, <2>2
<1>8. Top' = NewFunc
  BY <1>2 DEF Top
<1> QED BY <1>2, <1>4, <1>5, <1>6, <1>7, <1>8 DEF ReturnsMean, TopRuns, EndsIn, TraceOf

LEMMA EndFuncMeans ==
  ASSUME Inv, Inv', CodeInv, Agree, ReturnsMean, TopRuns, EndFunc, SimNext, src'.rets = src.rets
  PROVE  ReturnsMean' /\ TopRuns'
<1> DEFINE k == Len(funcs)
<1>1. /\ Len(funcs') = k /\ k \in Nat
      /\ \A i \in 1 .. k : SameParts(funcs[i], funcs'[i])
  BY EndFuncKeeps
<1>2. Len(src'.rets) = k
  BY DEF Agree, RetsAgree
<1>3. ASSUME NEW i \in 1 .. k PROVE \E m : EndsIn(funcs'[i], m) /\ m.ret = src'.rets[i]
  <2>1. PICK m : EndsIn(funcs[i], m) /\ m.ret = src.rets[i]
    BY <1>3 DEF ReturnsMean
  <2>2. EndsIn(funcs'[i], m)
    BY <1>1, <2>1, TraceSame
  <2> QED BY <2>1, <2>2
<1>4. ASSUME k > 0 PROVE EndsIn(funcs'[k], machine')
  <2>1. k \in 1 .. k
    BY <1>1, <1>4
  <2>2. SameParts(funcs[k], funcs'[k])
    BY <1>1, <2>1
  <2>3. funcs'[k].next_inst_id = funcs[k].next_inst_id
    BY <2>2 DEF SameParts
  <2>4. machine' = machine
    <3>1. ~(Len(funcs') > k)
      BY <1>1
    <3> QED BY <2>3, <3>1, SimRecords DEF Records
  <2>5. EndsIn(funcs[k], machine)
    BY <1>4 DEF TopRuns, Top
  <2> QED BY <2>2, <2>4, <2>5, TraceSame
<1> QED BY <1>1, <1>2, <1>3, <1>4 DEF ReturnsMean, TopRuns, Top, EndsIn, TraceOf

\* A step that emits nothing.
LEMMA QuietMeans ==
  ASSUME Inv, ReturnsMean, TopRuns, RetsAgree', SimNext, UNCHANGED funcs, SettledKept(Len(funcs))
  PROVE  ReturnsMean' /\ TopRuns'
<1> DEFINE k == Len(funcs)
<1>1. k \in Nat /\ Len(funcs') = k
  BY LenProperties DEF Inv, TypeInv
<1>2. machine' = machine
  BY SimRecords, RecordsQuiet
<1>3. Len(src'.rets) = k /\ (k > 0 => machine'.ret = src'.rets[k])
  BY <1>1 DEF RetsAgree
<1>4. k > 0 => EndsIn(funcs'[k], machine')
  BY <1>2 DEF TopRuns, Top
<1>5. ReturnsMean'
  BY <1>1, <1>3, <1>4, SettledReturns
<1> QED BY <1>1, <1>4, <1>5 DEF TopRuns, Top, EndsIn, TraceOf

\* A step that emits an instruction.
LEMMA EmitMeans ==
  ASSUME Inv, NoInternalPanic', ReturnsMean, TopRuns, RetsAgree', machine' \in Machines, SimNext,
         NEW inst \in InstData, Emits(inst), SettledKept(Len(funcs))
  PROVE  ReturnsMean' /\ TopRuns'
<1> DEFINE k == Len(funcs)
<1>1. status = "run" /\ open > 0 /\ Emit(inst) /\ Fits(Top, Top.next_inst_id, inst)
  BY DEF Emits
<1>2. /\ Len(funcs') = k /\ k \in Nat \ {0}
      /\ Top' = funcs'[k] /\ Grown(Top, Top', inst)
  BY <1>1, EmitGrows
<1>3. Top.next_inst_id \in Nat
  BY <1>1, InBlock
<1>4. machine' = Execute(machine, inst, BitwiseLogic)
  <2>1. PICK m : Records(m)
    BY SimRecords
  <2> QED BY <1>1, <2>1, EmitExecutes
<1>5. k > 0 /\ EndsIn(Top, machine)
  BY <1>2 DEF TopRuns
<1>6. EndsIn(Top', machine')
  BY <1>2, <1>3, <1>4, <1>5, TraceGrows
<1>7. Len(src'.rets) = k /\ machine'.ret = src'.rets[k]
  BY <1>2, <1>5 DEF RetsAgree
<1>8. ReturnsMean'
  BY <1>2, <1>6, <1>7, SettledReturns
<1> QED BY <1>2, <1>6, <1>8 DEF TopRuns, Top, EndsIn, TraceOf

LEMMA FrontMeansStep ==
  ASSUME OnTruths, Inv, Inv', CodeInv, SimInv, SimInv', FrontMeans, SimNext
  PROVE  FrontMeans'
<1> SUFFICES ASSUME src'.verdict = "legal", status' \in {"run", "ok"}
             PROVE  ReturnsMean' /\ (status' = "run" => TopRuns')
  BY DEF FrontMeans
<1> DEFINE k == Len(funcs)
<1>1. Next /\ status = "run" /\ IsSource(src)
  BY SimStepIsStep, NextRuns DEF SimInv
<1>2. src.verdict = "legal"
  BY <1>1, FaultStays DEF KeepsFault
<1>3. Agree /\ ReturnsMean /\ TopRuns /\ k \in Nat
  BY <1>1, <1>2, LenProperties DEF SimInv, FrontMeans, Inv, TypeInv
<1>4. status' = "run" => /\ RetsAgree' /\ machine' \in Machines
  BY DEF SimInv, Agree
<1>5. /\ src.rets \in Seq(Int) /\ Len(src.rets) = k
  BY <1>3 DEF Agree, SourceStates, RetsAgree
<1>6. NextReturns
  BY <1>1, SimReturns
<1>7. EndReturn => open > 0 /\ stmt.kind = "return"
  BY InComplete DEF EndReturn
<1>8. CASE BeginFunc
  <2>1. status' = "run" /\ open = 0 /\ Len(funcs') = k + 1
    <3>1. AtTop /\ funcs' = Append(funcs, NewFunc) /\ UNCHANGED status
      BY <1>8 DEF BeginFunc
    <3>2. funcs \in Seq(FuncSet) /\ open = 0
      BY <3>1, InTop
    <3>3. Len(funcs') = k + 1
      BY <3>1, <3>2, NewFuncIsFunc, AppendProperties
    <3> QED BY <1>1, <3>1, <3>2, <3>3
  <2>2. src'.rets # src.rets
    BY <1>3, <1>4, <1>5, <2>1 DEF RetsAgree
  <2>3. src'.rets = Append(src.rets, Undef)
    BY <1>6, <1>7, <2>1, <2>2 DEF NextReturns
  <2> QED BY <1>3, <1>8, <2>3, BeginFuncMeans
<1>9. CASE EndFunc
  <2>1. AtItem /\ open = 1
    BY <1>9 DEF EndFunc
  <2>2. src'.rets = src.rets
    BY <1>6, <1>7, <2>1 DEF NextReturns, AtItem, BeginFunc, AtTop
  <2> QED BY <1>3, <1>9, <2>2, EndFuncMeans
<1>10. CASE ~BeginFunc /\ ~EndFunc
  <2>1. CodeGrows
    BY <1>1, <1>10, CodeStep
  <2>2. SettledKept(k)
    <3>1. ASSUME NEW i \in 1 .. k - 1 PROVE funcs'[i] = funcs[i]
      <4>1. CASE UNCHANGED funcs
        BY <4>1
      <4>2. CASE \E inst \in InstData : Emits(inst)
        <5>1. PICK inst \in InstData : Emits(inst)
          BY <4>2
        <5>2. status = "run" /\ open > 0 /\ Emit(inst) /\ Fits(Top, Top.next_inst_id, inst)
          BY <5>1 DEF Emits
        <5> QED BY <3>1, <5>2, EmitGrows
      <4> QED BY <2>1, <4>1, <4>2 DEF CodeGrows
    <3>2. ASSUME NEW i \in 1 .. k - 1 PROVE src'.rets[i] = src.rets[i]
      <4>1. CASE src'.rets = src.rets
        BY <4>1
      <4>2. CASE LastReturns(src, src')
        <5>1. PICK v : src'.rets = [src.rets EXCEPT ![Len(src.rets)] = v]
          BY <4>2 DEF LastReturns
        <5>2. i # Len(src.rets) /\ i \in DOMAIN src.rets
          BY <1>3, <1>5, LenProperties
        <5> QED BY <5>1, <5>2
      <4> QED BY <1>6, <1>10, <4>1, <4>2 DEF NextReturns
    <3> QED BY <3>1, <3>2 DEF SettledKept
  <2>3. CASE status' = "ok"
    <3>1. AtTop /\ UNCHANGED funcs
      BY <1>1, <2>3, OnlyFinishSucceeds DEF Finish
    <3>2. src'.rets = src.rets
      BY <1>6, <1>7, <1>10, <3>1 DEF NextReturns, AtTop
    <3>3. ReturnsMean'
      BY <1>3, <3>1, <3>2 DEF ReturnsMean, EndsIn, TraceOf
    <3> QED BY <2>3, <3>3
  <2>4. CASE status' = "run"
    <3>1. RetsAgree' /\ machine' \in Machines /\ NoInternalPanic'
      BY <1>4, <2>4 DEF Inv
    <3>2. CASE UNCHANGED funcs
      BY <1>3, <2>2, <3>1, <3>2, QuietMeans
    <3>3. CASE \E inst \in InstData : Emits(inst)
      <4>1. PICK inst \in InstData : Emits(inst)
        BY <3>3
      <4> QED BY <1>3, <2>2, <3>1, <4>1, EmitMeans
    <3> QED BY <2>1, <3>2, <3>3 DEF CodeGrows
  <2> QED BY <2>3, <2>4
<1> QED BY <1>8, <1>9, <1>10

-----------------------------------------------------------------------------
(* ... and the machine runs it beside the core.                            *)

\* Within the back end, machine is on the way to what the source returns.
OnTheWay(f, n, ret) ==
  \E t : TraceOf(f, t) /\ t[f.next_inst_id].ret = ret /\ machine = t[n]

MeaningInv ==
  /\ SimInv /\ FrontMeans
  /\ phase = "inst" /\ src.verdict = "legal" =>
       OnTheWay(funcs[fn], pos - 1, src.rets[fn])

LEMMA MeaningInit == CompilerInit => MeaningInv
<1> SUFFICES ASSUME CompilerInit PROVE MeaningInv
  OBVIOUS
<1>1. SimInit /\ phase = "func"
  BY DEF CompilerInit, Gen!GenInit
<1> QED BY <1>1, SimInitInv, FrontMeansInit DEF MeaningInv

\* The back end and printing leave the program and its meaning as they are.
LEMMA MeaningStands ==
  ASSUME status = "ok", SimInv, FrontMeans, UNCHANGED <<status, src, funcs>>
  PROVE  SimInv' /\ FrontMeans'
<1>1. SimInv'
  BY DEF SimInv, FaultsRejected, RejectionsJustified, Rejections
<1>2. FrontMeans'
  BY DEF FrontMeans, ReturnsMean, EndsIn, TraceOf
<1> QED BY <1>1, <1>2

LEMMA AtInstFacts ==
  ASSUME NEW f, NEW n, NEW map, AtInst(f, n, map)
  PROVE  n \in 0 .. f.next_inst_id - 1 /\ Gen!Data = f.inst_map[n]
<1>1. n \in Nat /\ n < f.next_inst_id /\ f.next_inst_id \in Nat
  BY DEF AtInst
<1>2. n \in 0 .. f.next_inst_id - 1
  BY <1>1
<1> QED BY <1>2 DEF AtInst

LEMMA MeaningInvStep ==
  ASSUME OnTruths, CompilerInv, MeaningInv, [CompilerNext]_allvars
  PROVE  MeaningInv'
<1>1. CASE FrontEnd
  <2>1. SimNext /\ Next /\ status = "run" /\ UNCHANGED phase
    BY <1>1, SimStepIsStep, NextRuns DEF FrontEnd, backvars
  <2>2. Inv /\ CodeInv /\ phase # "inst" /\ SimInv /\ FrontMeans
    BY <2>1 DEF CompilerInv, Fresh, MeaningInv
  <2>3. Inv'
    BY <2>1, <2>2, InvStep
  <2>4. SimInv'
    <3>1. BitwiseLogic = FALSE
      BY DEF OnTruths
    <3> QED BY <2>1, <2>2, <2>3, <3>1, SimStep
  <2>5. FrontMeans'
    BY <2>1, <2>2, <2>3, <2>4, FrontMeansStep
  <2> QED BY <2>1, <2>2, <2>4, <2>5 DEF MeaningInv
<1>2. CASE BackEnd
  <2>1. status = "ok" /\ FrontDone
    BY <1>2 DEF BackEnd, FrontDone
  <2>2. UNCHANGED <<status, src>>
    BY <2>1 DEF FrontDone
  <2>3. CASE Gen!BeginAsmBlock
    <3>1. machine' = NewMachine
      BY <1>2, <2>3, BackEndBegins
    <3>2. pos' = 1 /\ UNCHANGED <<funcs, fn>> /\ fn <= Len(funcs) /\ 1 - 1 = 0
      BY <2>3 DEF Gen!BeginAsmBlock
    <3>3. SimInv' /\ FrontMeans'
      BY <2>1, <2>2, <3>2, MeaningStands DEF MeaningInv
    <3>4. fn \in 1 .. Len(funcs)
      BY <2>1, <3>2, LenProperties DEF CompilerInv
    <3>5. ASSUME src.verdict = "legal" PROVE OnTheWay(funcs[fn], 0, src.rets[fn])'
      <4>1. PICK m : EndsIn(funcs[fn], m) /\ m.ret = src.rets[fn]
        BY <2>1, <3>4, <3>5 DEF MeaningInv, FrontMeans, ReturnsMean
      <4>2. PICK t : TraceOf(funcs[fn], t) /\ t[funcs[fn].next_inst_id] = m
        BY <4>1 DEF EndsIn
      <4>3. machine' = t[0]
        BY <3>1, <4>2 DEF TraceOf
      <4> QED BY <2>2, <3>2, <4>1, <4>2, <4>3 DEF OnTheWay, TraceOf
    <3> QED BY <2>2, <3>2, <3>3, <3>5 DEF MeaningInv, OnTheWay, TraceOf
  <2>4. CASE Gen!EndAsmBlock \/ Gen!FinishAsm
    <3>1. UNCHANGED funcs /\ phase' # "inst"
      BY <2>4 DEF Gen!EndAsmBlock, Gen!FinishAsm
    <3> QED BY <2>1, <2>2, <3>1, MeaningStands DEF MeaningInv
  <2>5. CASE Gen!Lower
    <3>1. phase = "inst" /\ machine' = Execute(machine, Gen!Data, BitwiseLogic)
      BY <1>2, <2>5, BackEndLowers
    <3> DEFINE f == funcs[fn]
               n == pos - 1
    <3>2. PICK map : AtInst(f, n, map)
      BY <2>1, <2>5, <3>1, LowerFacts
    <3> HIDE DEF f, n
    <3>3. n \in 0 .. f.next_inst_id - 1 /\ Gen!Data = f.inst_map[n]
      BY <3>2, AtInstFacts
    <3>4. n \in Nat /\ n + 1 = pos' - 1 /\ UNCHANGED <<funcs, fn>>
      <4>1. pos' = pos + 1 /\ UNCHANGED <<funcs, fn>>
        BY <3>2 DEF AtInst, Lowered
      <4>2. n = pos - 1 /\ n \in Nat /\ pos \in Nat
        BY <2>1, <3>1, InsideFacts DEF Inside, n
      <4> QED BY <4>1, <4>2
    <3>5. SimInv' /\ FrontMeans'
      BY <2>1, <2>2, <3>4, MeaningStands DEF MeaningInv
    <3>6. ASSUME src.verdict = "legal"
          PROVE  \E t : /\ TraceOf(f, t) /\ t[f.next_inst_id].ret = src.rets[fn]
                        /\ machine' = t[n + 1]
      <4>1. OnTheWay(f, n, src.rets[fn])
        BY <3>1, <3>6 DEF MeaningInv, f, n
      <4>2. PICK t : /\ TraceOf(f, t) /\ t[f.next_inst_id].ret = src.rets[fn]
                     /\ machine = t[n]
        BY <4>1 DEF OnTheWay
      <4>3. machine' = t[n + 1]
        BY <3>1, <3>3, <4>2 DEF TraceOf
      <4> QED BY <4>2, <4>3
    <3>7. src'.verdict = "legal" => OnTheWay(funcs[fn], pos - 1, src.rets[fn])'
      BY <2>2, <3>4, <3>6 DEF OnTheWay, TraceOf, f
    <3> QED BY <3>5, <3>7 DEF MeaningInv
  <2> QED BY <1>2, <2>3, <2>4, <2>5 DEF BackEnd
<1>3. CASE Printing
  <2>1. FrontDone /\ status = "ok" /\ UNCHANGED <<fn, pos, phase, machine>>
    BY <1>3 DEF Printing, FrontDone
  <2>2. UNCHANGED <<status, src, funcs>>
    BY <1>3 DEF Printing, FrontDone, Printer!PrinterNext, Printer!StartPrinting,
       Printer!PrintFunc, Printer!FinishPrinting
  <2>3. SimInv' /\ FrontMeans'
    BY <2>1, <2>2, MeaningStands DEF MeaningInv
  <2> QED BY <2>1, <2>2, <2>3 DEF MeaningInv, OnTheWay, TraceOf
<1>4. CASE UNCHANGED allvars
  <2>1. UNCHANGED <<status, src, funcs, machine, fn, pos, phase>> /\ UNCHANGED simvars
    BY <1>4 DEF allvars, simvars, backvars
  <2>2. SimInv'
    BY <2>1 DEF MeaningInv, SimInv, FaultsRejected, RejectionsJustified, Agree, simvars,
       MachineRuns, Top, ScopesAgree, OwnPointers, StmtAgrees, Unused, ValsAgree, RetsAgree
  <2>3. FrontMeans'
    BY <2>1 DEF MeaningInv, FrontMeans, ReturnsMean, TopRuns, Top, EndsIn, TraceOf
  <2> QED BY <2>1, <2>2, <2>3 DEF MeaningInv, OnTheWay, TraceOf
<1> QED BY <1>1, <1>2, <1>3, <1>4 DEF CompilerNext

\* What the front end knew of a function's meaning is still true when its code
\* is lowered (CompUnit::parse, then AsmBlock::from).
THEOREM MeaningIsInvariant ==
  ASSUME OnTruths
  PROVE  CompilerSpec => [](CompilerInv /\ CpuInv /\ BesideInv /\ MeaningInv)
<1>1. CompilerInv /\ MeaningInv /\ [CompilerNext]_allvars => MeaningInv'
  BY MeaningInvStep
<1> QED BY <1>1, MeaningInit, BesideInvIsInvariant, PTL DEF CompilerSpec

-----------------------------------------------------------------------------
(* What a function returns.                                                *)

\* Where a function has been lowered, its machine has run to the end.
LEMMA LoweredMeans ==
  ASSUME CompilerInv, MeaningInv, phase = "inst", src.verdict = "legal",
         pos > Len(funcs[fn].inst_list)
  PROVE  machine.ret = src.rets[fn]
<1> DEFINE f == funcs[fn]
<1>1. status = "ok"
  BY DEF CompilerInv, Fresh
<1>2. Inside /\ Len(f.inst_list) = f.next_inst_id /\ f.next_inst_id \in Nat
  BY <1>1, InsideFacts
<1>3. pos \in 1 .. f.next_inst_id + 1
  BY <1>2 DEF Inside
<1>4. pos - 1 = f.next_inst_id
  BY <1>2, <1>3
<1>5. OnTheWay(f, pos - 1, src.rets[fn])
  BY DEF MeaningInv
<1> QED BY <1>4, <1>5 DEF OnTheWay

\* A function of a legal program comes back to its caller exactly if its
\* source says "return", whatever the program (Block::parse, AsmBlock::from).
THEOREM ReturnsExactlyWhenSourceDoes ==
  ASSUME OnTruths
  PROVE  CompilerSpec => []ReturnsWhenSourceDoes
<1>1. CompilerInv /\ CpuInv /\ BesideInv /\ MeaningInv => ReturnsWhenSourceDoes
  <2> SUFFICES ASSUME CompilerInv, CpuInv, BesideInv, MeaningInv, phase = "inst",
                      src.verdict = "legal", pos > Len(funcs[fn].inst_list)
               PROVE  cpu.halted <=> src.rets[fn] # Undef
    BY DEF ReturnsWhenSourceDoes
  <2>1. machine.ret = src.rets[fn]
    BY LoweredMeans
  <2>2. Beside(funcs[fn], pos - 1, Slots, cpu, machine)
    BY DEF BesideInv
  <2>3. cpu.halted => machine.ret # Undef
    BY <2>2 DEF Beside, BesideDone
  <2>4. ~cpu.halted => machine.ret = Undef
    BY <2>2 DEF Beside, BesideRuns
  <2> QED BY <2>1, <2>3, <2>4
<1> QED BY <1>1, MeaningIsInvariant, PTL

\* What the machine has returned on the way is what it returns.
LEMMA ReturnSettled ==
  ASSUME NEW f, f.next_inst_id \in Nat, NEW t, TraceOf(f, t), NEW n \in 0 .. f.next_inst_id,
         t[n].ret # Undef
  PROVE  t[f.next_inst_id].ret = t[n].ret
<1> DEFINE r == t[n].ret
           N == f.next_inst_id
           S == {k \in 0 .. N : k >= n => t[k].ret = r}
<1>1. 0 \in S
  <2>1. 0 \in 0 .. N /\ (0 >= n => n = 0)
    OBVIOUS
  <2> QED BY <2>1
<1>2. ASSUME NEW k \in 0 .. N - 1, k \in S PROVE k + 1 \in S
  <2>1. k + 1 \in 0 .. N /\ k \in 0 .. N /\ k \in Nat
    BY <1>2
  <2>2. CASE k >= n
    <3>1. t[k].ret = r /\ t[k].ret # Undef
      BY <1>2, <2>2
    <3>2. t[k] \in Machines /\ t[k + 1] = Execute(t[k], f.inst_map[k], BitwiseLogic)
      BY <2>1 DEF TraceOf
    <3>3. t[k + 1].ret = t[k].ret
      BY <3>1, <3>2, ReturnStays
    <3> QED BY <2>1, <3>1, <3>3
  <2>3. CASE ~(k >= n)
    <3>1. k + 1 >= n => k + 1 = n
      BY <2>1, <2>3
    <3> QED BY <2>1, <3>1
  <2> QED BY <2>2, <2>3
<1> HIDE DEF S
<1>3. \A k \in 0 .. N : k \in S
  BY <1>1, <1>2, UpTo
<1>4. N \in S
  BY <1>3
<1> QED BY <1>4 DEF S

LEMMA ReturnArity == Builder!Arity("RET") = 1
  BY DEF Builder!Arity, Builder!Binary, ValueOps, Builder!ValueOps, KoopaOpCode

\* A constant 0 that is returned is the literal.
LEMMA ReturnedZero ==
  ASSUME NEW f \in FuncSet, LegalFunc(f), NEW j \in 0 .. f.next_inst_id - 1,
         f.inst_map[j].opcode = "RET", NEW o, o = f.inst_map[j].operands[1], IsZero(o)
  PROVE  o = FromParseResult(ConstObj(0))
<1> DEFINE inst == f.inst_map[j]
<1>1. inst \in InstData /\ Fits(f, j, inst)
  BY FuncSetIsFunc DEF LegalFunc, IsFunc
<1>2. inst.opcode = "RET" /\ o = inst.operands[1]
  OBVIOUS
<1> HIDE DEF inst
<1>5. inst.operands \in Seq(Operand) /\ Len(inst.operands) = 1
  <2>1. inst.operands \in Seq(Operand)
    BY <1>1 DEF InstData
  <2>2. Len(inst.operands) = 1
    BY <1>1, <1>2, ReturnArity DEF Fits
  <2> QED BY <2>1, <2>2
<1>3. o \in Operand
  BY <1>2, <1>5, ElementOfSeq
<1>4. o.kind = "Const" /\ o.val = 0
  BY DEF IsZero
<1> QED BY <1>3, <1>4 DEF Operand, FromParseResult, ConstObj, Obj

\* The first RET is where the operand comes from.
LEMMA FirstReturned ==
  ASSUME NEW f, f = funcs[fn], f \in FuncSet, LegalFunc(f), f.next_inst_id \in Nat,
         NEW j \in 0 .. f.next_inst_id - 1, FirstRet(f, j)
  PROVE  ReturnedOperand = f.inst_map[j].operands[1]
<1> DEFINE rets == {p \in DOMAIN f.inst_list : InstAt(f, p).opcode = "RET"}
<1>1. /\ DOMAIN f.inst_list = 1 .. f.next_inst_id
      /\ \A p \in 1 .. f.next_inst_id : f.inst_list[p] = p - 1
  BY DEF LegalFunc
<1>2. \A p \in 1 .. f.next_inst_id : InstAt(f, p) = f.inst_map[p - 1]
  BY <1>1 DEF InstAt
<1>3. j + 1 \in 1 .. f.next_inst_id /\ j + 1 - 1 = j
  OBVIOUS
<1>4. j + 1 \in rets
  BY <1>1, <1>2, <1>3 DEF FirstRet
<1>5. ASSUME NEW p \in rets PROVE p \in Int /\ j + 1 <= p
  <2>1. p \in 1 .. f.next_inst_id /\ f.inst_map[p - 1].opcode = "RET"
    BY <1>1, <1>2
  <2>2. p - 1 \notin 0 .. j - 1
    BY <2>1 DEF FirstRet
  <2> QED BY <2>1, <2>2
<1> HIDE DEF rets
<1>6. Min(rets) = j + 1
  <2>1. \E x \in rets : \A y \in rets : x <= y
    BY <1>4, <1>5
  <2>2. Min(rets) \in rets /\ \A y \in rets : Min(rets) <= y
    BY <2>1 DEF Min
  <2>3. Min(rets) <= j + 1 /\ j + 1 <= Min(rets) /\ Min(rets) \in Int
    BY <1>4, <1>5, <2>2
  <2> QED BY <2>3
<1>7. ReturnedOperand = InstAt(f, Min(rets)).operands[1]
  BY DEF ReturnedOperand, rets
<1> QED BY <1>2, <1>3, <1>6, <1>7

\* Whatever a legal program without <= and >= computes, a0 holds what its
\* source returns, unless that is the literal 0 (RET's lowering).
THEOREM ReturnsSourceOfStrict ==
  ASSUME OnTruths
  PROVE  CompilerSpec => [](StrictFunc(funcs[fn]) => ReturnsSourceExceptZero)
<1>1. CompilerInv /\ CpuInv /\ BesideInv /\ MeaningInv
        => (StrictFunc(funcs[fn]) => ReturnsSourceExceptZero)
  <2> SUFFICES ASSUME CompilerInv, CpuInv, BesideInv, MeaningInv, StrictFunc(funcs[fn]),
                      phase = "inst", cpu.halted, src.verdict = "legal",
                      ReturnedOperand # FromParseResult(ConstObj(0))
               PROVE  cpu.x[A0] = src.rets[fn]
    BY DEF ReturnsSourceExceptZero
  <2> DEFINE f == funcs[fn]
             n == pos - 1
  <2>1. status = "ok"
    BY DEF CompilerInv, Fresh
  <2>2. Inside /\ f \in FuncSet /\ LegalFunc(f) /\ f.next_inst_id \in Nat
    BY <2>1, InsideFacts
  <2>3. n \in 0 .. f.next_inst_id
    BY <2>2 DEF Inside
  <2>4. Beside(f, n, Slots, cpu, machine) /\ OnTheWay(f, n, src.rets[fn])
    BY DEF BesideInv, MeaningInv
  <2>5. f = funcs[fn]
    OBVIOUS
  <2> HIDE DEF f, n
  <2>6. PICK j \in 0 .. n - 1 :
          /\ FirstRet(f, j)
          /\ StrictFunc(f) /\ ~IsZero(f.inst_map[j].operands[1]) => cpu.x[A0] = machine.ret
    BY <2>4 DEF Beside, BesideDone
  <2>7. j \in 0 .. f.next_inst_id - 1
    BY <2>2, <2>3
  <2>8. ReturnedOperand = f.inst_map[j].operands[1]
    BY <2>2, <2>5, <2>6, <2>7, FirstReturned
  <2>9. cpu.x[A0] = machine.ret
    <3>1. ~IsZero(f.inst_map[j].operands[1])
      BY <2>2, <2>6, <2>7, <2>8, ReturnedZero DEF FirstRet
    <3> QED BY <2>5, <2>6, <3>1
  <2>10. machine.ret = src.rets[fn]
    <3>1. PICK t : TraceOf(f, t) /\ t[f.next_inst_id].ret = src.rets[fn] /\ machine = t[n]
      BY <2>4 DEF OnTheWay
    <3>2. t[n].ret # Undef
      BY <2>4, <3>1 DEF Beside, BesideDone
    <3> QED BY <2>2, <2>3, <3>1, <3>2, ReturnSettled
  <2> QED BY <2>9, <2>10
<1> QED BY <1>1, MeaningIsInvariant, PTL

\* End to end, for every program without these operators.
THEOREM ReturnsWhatSourceSays ==
  ASSUME OnTruths, StrictSource
  PROVE  CompilerSpec => []ReturnsSourceExceptZero
<1>1. CompilerInv /\ (StrictFunc(funcs[fn]) => ReturnsSourceExceptZero) => ReturnsSourceExceptZero
  <2> SUFFICES ASSUME CompilerInv, StrictFunc(funcs[fn]) => ReturnsSourceExceptZero
               PROVE  ReturnsSourceExceptZero
    OBVIOUS
  <2>1. CASE phase = "inst"
    BY <2>1, StrictCode
  <2>2. CASE phase # "inst"
    BY <2>2 DEF ReturnsSourceExceptZero
  <2> QED BY <2>1, <2>2
<1> QED BY <1>1, CompilerInvIsInvariant, ReturnsSourceOfStrict, PTL

-----------------------------------------------------------------------------
(* The reader of the text.                                                 *)

\* The reader after each of the first n lines of s.
ReadsLines(a, s, n) ==
  a = [k \in 0 .. n |->
         IF k = 0 THEN NewReader ELSE ReadLine(a[k - 1], s[k], BitwiseLogic)]

LEMMA ReadsLinesFacts ==
  ASSUME NEW n \in Nat, NEW a, NEW s, ReadsLines(a, s, n)
  PROVE  a[0] = NewReader /\ \A k \in 0 .. n - 1 : a[k + 1] = ReadLine(a[k], s[k + 1], BitwiseLogic)
<1>1. a[0] = NewReader
  BY DEF ReadsLines
<1>2. ASSUME NEW k \in 0 .. n - 1
      PROVE  a[k + 1] = ReadLine(a[k], s[k + 1], BitwiseLogic)
  <2> DEFINE m == k + 1
  <2>1. m \in 0 .. n /\ m # 0 /\ m - 1 = k
    OBVIOUS
  <2> HIDE DEF m
  <2>2. a[m] = ReadLine(a[m - 1], s[m], BitwiseLogic)
    BY <2>1 DEF ReadsLines
  <2> QED BY <2>1, <2>2 DEF m
<1> QED BY <1>1, <1>2

LEMMA ReadsLinesExists ==
  ASSUME NEW s, NEW N \in Nat
  PROVE  \E a : ReadsLines(a, s, N)
<1> DEFINE S == {n \in 0 .. N : \E a : ReadsLines(a, s, n)}
<1>1. 0 \in S
  <2> DEFINE a == [k \in 0 .. 0 |-> NewReader]
  <2>1. ReadsLines(a, s, 0)
    BY DEF ReadsLines
  <2> QED BY <2>1
<1>2. ASSUME NEW n \in 0 .. N - 1, n \in S PROVE n + 1 \in S
  <2>1. PICK a : ReadsLines(a, s, n)
    BY <1>2
  <2> DEFINE next == ReadLine(a[n], s[n + 1], BitwiseLogic)
             g == [k \in 0 .. n + 1 |-> IF k = n + 1 THEN next ELSE a[k]]
  <2>2. \A k \in 0 .. n : g[k] = a[k]
    OBVIOUS
  <2>3. ASSUME NEW k \in 0 .. n + 1
        PROVE  g[k] = IF k = 0 THEN NewReader ELSE ReadLine(g[k - 1], s[k], BitwiseLogic)
    <3>1. CASE k = n + 1
      <4>1. k - 1 = n /\ g[k - 1] = a[n] /\ k # 0 /\ g[k] = next
        BY <2>2, <3>1
      <4> QED BY <3>1, <4>1
    <3>2. CASE k = 0
      <4>1. a[0] = NewReader
        BY <2>1 DEF ReadsLines
      <4> QED BY <2>2, <3>2, <4>1
    <3>3. CASE k # 0 /\ k # n + 1
      <4>1. k \in 0 .. n /\ k - 1 \in 0 .. n
        BY <3>3
      <4>2. a[k] = ReadLine(a[k - 1], s[k], BitwiseLogic)
        BY <2>1, <3>3, <4>1 DEF ReadsLines
      <4>3. g[k] = a[k] /\ g[k - 1] = a[k - 1]
        BY <2>2, <4>1
      <4> HIDE DEF g
      <4> QED BY <3>3, <4>2, <4>3
    <3> QED BY <3>1, <3>2, <3>3
  <2>4. g = [k \in 0 .. n + 1 |->
               IF k = 0 THEN NewReader ELSE ReadLine(g[k - 1], s[k], BitwiseLogic)]
    <3>1. g = [k \in 0 .. n + 1 |-> g[k]]
      OBVIOUS
    <3> HIDE DEF g
    <3> QED BY <2>3, <3>1
  <2>5. ReadsLines(g, s, n + 1)
    <3> HIDE DEF g
    <3> QED BY <2>4 DEF ReadsLines
  <2> QED BY <2>5
<1>3. N \in S
  <2> HIDE DEF S
  <2> QED BY <1>1, <1>2, UpTo
<1> QED BY <1>3

LEMMA ReadTextIs ==
  ASSUME NEW s, Len(s) \in Nat
  PROVE  \E a : ReadsLines(a, s, Len(s)) /\ ReadText(s, BitwiseLogic) = a[Len(s)]
<1> DEFINE after == CHOOSE a : a = [k \in 0 .. Len(s) |->
                      IF k = 0 THEN NewReader ELSE ReadLine(a[k - 1], s[k], BitwiseLogic)]
<1>1. ReadText(s, BitwiseLogic) = after[Len(s)]
  BY DEF ReadText
<1>2. \E a : a = [k \in 0 .. Len(s) |->
                    IF k = 0 THEN NewReader ELSE ReadLine(a[k - 1], s[k], BitwiseLogic)]
  <2>1. PICK a : ReadsLines(a, s, Len(s))
    BY ReadsLinesExists
  <2>2. a = [k \in 0 .. Len(s) |->
               IF k = 0 THEN NewReader ELSE ReadLine(a[k - 1], s[k], BitwiseLogic)]
    BY <2>1 DEF ReadsLines
  <2> QED BY ONLY <2>2, Zenon
<1>3. after = [k \in 0 .. Len(s) |->
                 IF k = 0 THEN NewReader ELSE ReadLine(after[k - 1], s[k], BitwiseLogic)]
  BY <1>2
<1> HIDE DEF after
<1>4. ReadsLines(after, s, Len(s))
  BY <1>3 DEF ReadsLines
<1> QED BY <1>1, <1>4

-----------------------------------------------------------------------------
(* The reader beside the machine.                                          *)

\* w stands for v.
Knows(r, w, v) == w \in DOMAIN r.env /\ r.env[w] = v

IsReader(r) == \E env, ret : r = [env |-> env, ret |-> ret]

ReaderAt(r, f, n, mc) ==
  /\ IsReader(r) /\ r.ret = mc.ret
  /\ \A j \in 0 .. n - 1 :
       f.inst_map[j].opcode \in ValueOps \ {"ALLOC"} => Knows(r, Printer!Word("%", j), mc.vals[j + 1])
  /\ \A p : AllocIn(f, n, p) => Knows(r, Printer!Word("@", p), mc.mem[p])

LEMMA WordsApart ==
  ASSUME NEW a, NEW b
  PROVE  /\ Printer!Word("%", a) # Printer!Word("@", b)
         /\ Printer!Word("%", a) = Printer!Word("%", b) => a = b
         /\ Printer!Word("@", a) = Printer!Word("@", b) => a = b
  BY DEF Printer!Word

\* The reader d is r with w for v.
Defines(r, d, w, v) ==
  /\ IsReader(d) /\ d.ret = r.ret /\ Knows(d, w, v)
  /\ \A x, u : x # w /\ Knows(r, x, u) => Knows(d, x, u)

LEMMA DefineFacts ==
  ASSUME NEW r, IsReader(r), NEW w, NEW v, NEW d, d = Define(r, w, v)
  PROVE  Defines(r, d, w, v)
<1> DEFINE env == [x \in DOMAIN r.env \cup {w} |-> IF x = w THEN v ELSE r.env[x]]
<1>1. DOMAIN env = DOMAIN r.env \cup {w} /\ env[w] = v
      /\ \A x \in DOMAIN r.env : x # w => env[x] = r.env[x]
  OBVIOUS
<1>2. d = [r EXCEPT !.env = env]
  BY DEF Define
<1> HIDE DEF env
<1>3. d.env = env /\ d.ret = r.ret /\ IsReader(d)
  BY <1>2 DEF IsReader
<1> QED BY <1>1, <1>3 DEF Defines, Knows

\* A line says what the instruction has.
LEMMA LineFacts ==
  ASSUME NEW n, NEW inst \in InstData, NEW l, l = Printer!Line(n, inst)
  PROVE  /\ l.mnemonic = Printer!Mnemonic[inst.opcode] /\ l.lhs = Printer!ResultWord(n, inst)
         /\ \A k \in 1 .. Len(inst.operands) :
              inst.opcode # "RET" \/ k = 1 => l.words[k] = Printer!OperandWord(inst.operands[k])
<1>1. DOMAIN inst.operands = 1 .. Len(inst.operands)
  BY LenProperties DEF InstData
<1>2. \A k \in 1 .. Len(inst.operands) :
        Printer!Words(inst)[k] = Printer!OperandWord(inst.operands[k])
  BY <1>1 DEF Printer!Words
<1>3. l.mnemonic = Printer!Mnemonic[inst.opcode] /\ l.lhs = Printer!ResultWord(n, inst)
  BY DEF Printer!Line
<1>4. inst.opcode = "RET" => l.words[1] = Printer!Words(inst)[1]
  BY DEF Printer!Line
<1>5. inst.opcode # "RET" => l.words = Printer!Words(inst)
  BY DEF Printer!Line
<1>6. ASSUME NEW k \in 1 .. Len(inst.operands), inst.opcode # "RET" \/ k = 1
      PROVE  l.words[k] = Printer!OperandWord(inst.operands[k])
  BY <1>2, <1>4, <1>5, <1>6
<1> QED BY <1>3, <1>6

\* What a line uses stands for what the instruction reads.
LEMMA OperandDenotes ==
  ASSUME NEW r, NEW f, NEW n, NEW mc, ReaderAt(r, f, n, mc), NEW o, Usable(f, n, o)
  PROVE  Denotes(r, Printer!OperandWord(o)) = Read(mc, o)
<1>1. CASE o.kind = "Const"
  BY <1>1 DEF Denotes, Printer!OperandWord, Printer!Word, Read
<1>2. CASE o.kind = "InstId"
  <2>1. o.val \in 0 .. n - 1 /\ f.inst_map[o.val].opcode \in ValueOps \ {"ALLOC"}
    BY <1>2 DEF Usable
  <2>2. Knows(r, Printer!Word("%", o.val), mc.vals[o.val + 1])
    BY <2>1 DEF ReaderAt
  <2>3. Printer!OperandWord(o) = Printer!Word("%", o.val) /\ Printer!Word("%", o.val).sigil = "%"
    BY <1>2 DEF Printer!OperandWord, Printer!Word
  <2>4. Read(mc, o) = mc.vals[o.val + 1]
    BY <1>2 DEF Read
  <2> QED BY <2>2, <2>3, <2>4 DEF Denotes, Knows
<1> QED BY <1>1, <1>2 DEF Usable

LEMMA PointerDenotes ==
  ASSUME NEW r, NEW f, NEW n, NEW mc, ReaderAt(r, f, n, mc), NEW o,
         o.kind = "Pointer", AllocIn(f, n, o.val)
  PROVE  Denotes(r, Printer!OperandWord(o)) = Read(mc, o)
<1>1. Knows(r, Printer!Word("@", o.val), mc.mem[o.val])
  BY DEF ReaderAt
<1>2. Printer!OperandWord(o) = Printer!Word("@", o.val) /\ Printer!Word("@", o.val).sigil = "@"
  BY DEF Printer!OperandWord, Printer!Word
<1>3. Read(mc, o) = mc.mem[o.val]
  BY DEF Read
<1> QED BY <1>1, <1>2, <1>3 DEF Denotes, Knows

\* The names of the operations can be read back.
LEMMA MnemonicsReadBack ==
  ASSUME NEW op \in Builder!Binary, FromSource(op), NEW m, m = Printer!Mnemonic[op]
  PROVE  m # "alloc" /\ m # "load" /\ m # "store" /\ m # "ret" /\ Operation[m] = op
<1>1. op \in {"NE", "EQ", "GT", "LT", "GE", "LE", "ADD", "SUB", "MUL", "DIV", "MOD", "AND", "OR"}
  BY DEF Builder!Binary, ValueOps, Builder!ValueOps, FromSource, KoopaOpCode
<1>2. CASE op \in {"NE", "EQ", "GT", "LT"}
  BY <1>2 DEF Printer!Mnemonic, Operation
<1>3. CASE op \in {"GE", "LE", "ADD", "SUB"}
  BY <1>3 DEF Printer!Mnemonic, Operation
<1>4. CASE op \in {"MUL", "DIV", "MOD", "AND", "OR"}
  BY <1>4 DEF Printer!Mnemonic, Operation
<1> QED BY <1>1, <1>2, <1>3, <1>4

\* A line that gives a result.
LEMMA ReaderResult ==
  ASSUME NEW f, NEW n \in Nat, NEW r, NEW mc, ReaderAt(r, f, n, mc),
         NEW t, NEW v, HasNext(f, n, mc, t, v), t.ret = mc.ret, t.mem = mc.mem,
         f.inst_map[n].opcode \in ValueOps \ {"ALLOC"},
         NEW d, Defines(r, d, Printer!Word("%", n), v)
  PROVE  ReaderAt(d, f, n + 1, t)
<1> DEFINE k == n + 1
<1>1. IsReader(d) /\ d.ret = t.ret
  BY DEF Defines, ReaderAt
<1>2. ASSUME NEW j \in 0 .. k - 1, f.inst_map[j].opcode \in ValueOps \ {"ALLOC"}
      PROVE  Knows(d, Printer!Word("%", j), t.vals[j + 1])
  <2>1. CASE j = n
    BY <2>1 DEF Defines, HasNext
  <2>2. CASE j # n
    <3>1. j \in 0 .. n - 1
      BY <2>2
    <3>2. Knows(r, Printer!Word("%", j), mc.vals[j + 1])
      BY <1>2, <3>1 DEF ReaderAt
    <3>3. t.vals[j + 1] = mc.vals[j + 1]
      BY <3>1 DEF HasNext, OlderKept
    <3>4. Printer!Word("%", j) # Printer!Word("%", n)
      BY <2>2, WordsApart
    <3> QED BY <3>2, <3>3, <3>4 DEF Defines
  <2> QED BY <2>1, <2>2
<1>3. ASSUME NEW p, AllocIn(f, k, p) PROVE Knows(d, Printer!Word("@", p), t.mem[p])
  <2>1. f.inst_map[n].opcode # "ALLOC"
    OBVIOUS
  <2>2. AllocIn(f, n, p)
    BY <1>3, <2>1, NextUses
  <2>3. Knows(r, Printer!Word("@", p), mc.mem[p])
    BY <2>2 DEF ReaderAt
  <2>4. Printer!Word("%", n) # Printer!Word("@", p)
    BY WordsApart
  <2> QED BY <2>3, <2>4 DEF Defines
<1> HIDE DEF k
<1>4. ReaderAt(d, f, k, t)
  BY <1>1, <1>2, <1>3 DEF ReaderAt
<1> QED BY <1>4 DEF k

\* A line that defines what is stored at a pointer.
MemorySet(f, n, p, v, mc, t) ==
  /\ t.mem[p] = v
  /\ \A q : AllocIn(f, n + 1, q) /\ q # p => AllocIn(f, n, q) /\ t.mem[q] = mc.mem[q]

LEMMA ReaderPointer ==
  ASSUME NEW f, NEW n \in Nat, NEW r, NEW mc, ReaderAt(r, f, n, mc),
         NEW t, HasNext(f, n, mc, t, Undef), t.ret = mc.ret,
         f.inst_map[n].opcode \in {"ALLOC", "STORE"},
         NEW p, NEW v, MemorySet(f, n, p, v, mc, t),
         NEW d, Defines(r, d, Printer!Word("@", p), v)
  PROVE  ReaderAt(d, f, n + 1, t)
<1> DEFINE k == n + 1
<1>1. IsReader(d) /\ d.ret = t.ret
  BY DEF Defines, ReaderAt
<1>2. ASSUME NEW j \in 0 .. k - 1, f.inst_map[j].opcode \in ValueOps \ {"ALLOC"}
      PROVE  Knows(d, Printer!Word("%", j), t.vals[j + 1])
  <2>1. j # n
    BY <1>2 DEF ValueOps
  <2>2. j \in 0 .. n - 1
    BY <2>1
  <2>3. Knows(r, Printer!Word("%", j), mc.vals[j + 1])
    BY <1>2, <2>2 DEF ReaderAt
  <2>4. t.vals[j + 1] = mc.vals[j + 1]
    BY <2>2 DEF HasNext, OlderKept
  <2>5. Printer!Word("%", j) # Printer!Word("@", p)
    BY WordsApart
  <2> QED BY <2>3, <2>4, <2>5 DEF Defines
<1>3. ASSUME NEW q, AllocIn(f, k, q) PROVE Knows(d, Printer!Word("@", q), t.mem[q])
  <2>1. CASE q = p
    BY <2>1 DEF Defines, MemorySet
  <2>2. CASE q # p
    <3>1. AllocIn(f, n, q) /\ t.mem[q] = mc.mem[q]
      BY <1>3, <2>2 DEF MemorySet
    <3>2. Knows(r, Printer!Word("@", q), mc.mem[q])
      BY <3>1 DEF ReaderAt
    <3>3. Printer!Word("@", q) # Printer!Word("@", p)
      BY <2>2, WordsApart
    <3> QED BY <3>1, <3>2, <3>3 DEF Defines
  <2> QED BY <2>1, <2>2
<1> HIDE DEF k
<1>4. ReaderAt(d, f, k, t)
  BY <1>1, <1>2, <1>3 DEF ReaderAt
<1> QED BY <1>4 DEF k

\* The line of a return.
LEMMA ReaderReturn ==
  ASSUME NEW f, NEW n \in Nat, NEW r, NEW mc, ReaderAt(r, f, n, mc),
         NEW t, HasNext(f, n, mc, t, Undef), t.mem = mc.mem, f.inst_map[n].opcode = "RET",
         NEW d, IsReader(d), d.env = r.env, d.ret = t.ret
  PROVE  ReaderAt(d, f, n + 1, t)
<1> DEFINE k == n + 1
<1>1. ASSUME NEW j \in 0 .. k - 1, f.inst_map[j].opcode \in ValueOps \ {"ALLOC"}
      PROVE  Knows(d, Printer!Word("%", j), t.vals[j + 1])
  <2>1. j # n
    BY <1>1 DEF ValueOps
  <2>2. j \in 0 .. n - 1
    BY <2>1
  <2>3. Knows(r, Printer!Word("%", j), mc.vals[j + 1])
    BY <1>1, <2>2 DEF ReaderAt
  <2>4. t.vals[j + 1] = mc.vals[j + 1]
    BY <2>2 DEF HasNext, OlderKept
  <2> QED BY <2>3, <2>4 DEF Knows
<1>2. ASSUME NEW q, AllocIn(f, k, q) PROVE Knows(d, Printer!Word("@", q), t.mem[q])
  <2>1. AllocIn(f, n, q)
    BY <1>2, NextUses
  <2>2. Knows(r, Printer!Word("@", q), mc.mem[q])
    BY <2>1 DEF ReaderAt
  <2> QED BY <2>2 DEF Knows
<1> HIDE DEF k
<1>3. ReaderAt(d, f, k, t)
  BY <1>1, <1>2 DEF ReaderAt
<1> QED BY <1>3 DEF k

\* The reader at an instruction the machine is about to execute.
ReaderStands(f, n, inst, r, mc) ==
  /\ n \in Nat /\ inst = f.inst_map[n] /\ inst \in InstData /\ Fits(f, n, inst)
  /\ MachineFits(f, n, mc) /\ ReaderAt(r, f, n, mc)
  /\ inst.opcode = "ALLOC" => inst.ir_obj.val \in Nat

LEMMA ReadsBinary ==
  ASSUME OnTruths, NEW f, NEW n, NEW inst, NEW r, NEW mc, ReaderStands(f, n, inst, r, mc),
         inst.opcode \in Builder!Binary, NEW t, t = Execute(mc, inst, BitwiseLogic),
         NEW l, l = Printer!Line(n, inst), NEW d, d = ReadLine(r, l, BitwiseLogic)
  PROVE  ReaderAt(d, f, n + 1, t)
<1> DEFINE o == inst.operands
           op == inst.opcode
           v == Compute(op, BitwiseLogic, Read(mc, o[1]), Read(mc, o[2]))
<1>1. /\ n \in Nat /\ mc \in Machines /\ Int32 \subseteq Int /\ FromSource(op)
      /\ inst \in InstData /\ Fits(f, n, inst) /\ inst = f.inst_map[n]
      /\ MachineFits(f, n, mc) /\ ReaderAt(r, f, n, mc) /\ IsReader(r)
  BY UndefFacts DEF ReaderStands, MachineFits, Fits, ReaderAt
<1>2. Len(o) = 2 /\ 1 \in 1 .. Len(o) /\ 2 \in 1 .. Len(o) /\ op # "RET"
  <2>1. Len(o) = 2
    BY <1>1 DEF Fits, Builder!Arity, Builder!Binary
  <2>2. op # "RET"
    BY DEF Builder!Binary, Builder!ValueOps
  <2> QED BY <2>1, <2>2
<1>3. Usable(f, n, o[1]) /\ Usable(f, n, o[2])
  BY <1>1, <1>2 DEF Fits
<1>4. v \in Int32 /\ v \in Int
  <2>1. Read(mc, o[1]) \in Int32 /\ Read(mc, o[2]) \in Int32
    BY <1>1, <1>3, UsableReads
  <2> QED BY <1>1, <2>1, ComputeInt32 DEF OnTruths
<1>5. Gives(mc, t, v)
  BY <1>1, <1>4, ExecuteValue
<1>6. l.words[1] = Printer!OperandWord(o[1]) /\ l.words[2] = Printer!OperandWord(o[2])
      /\ l.mnemonic = Printer!Mnemonic[op] /\ l.lhs = Printer!ResultWord(n, inst)
  BY <1>1, <1>2, LineFacts
<1>7. l.lhs = Printer!Word("%", n)
  <2>1. inst.ir_obj.kind = "InstId"
    BY <1>1 DEF Fits, InstIdObj, Obj
  <2> QED BY <1>2, <1>6, <2>1 DEF Printer!ResultWord
<1>8. d = Define(r, Printer!Word("%", n), v)
  <2>1. Denotes(r, l.words[1]) = Read(mc, o[1]) /\ Denotes(r, l.words[2]) = Read(mc, o[2])
    BY <1>1, <1>3, <1>6, OperandDenotes
  <2>2. /\ l.mnemonic # "alloc" /\ l.mnemonic # "load" /\ l.mnemonic # "store"
        /\ l.mnemonic # "ret" /\ Operation[l.mnemonic] = op
    BY <1>1, <1>6, MnemonicsReadBack
  <2>3. d = Define(r, l.lhs, Compute(Operation[l.mnemonic], BitwiseLogic,
                                     Denotes(r, l.words[1]), Denotes(r, l.words[2])))
    BY <2>2 DEF ReadLine
  <2> QED BY <1>7, <2>1, <2>2, <2>3
<1>9. f.inst_map[n].opcode \in ValueOps \ {"ALLOC"}
  BY <1>1 DEF Builder!Binary, Builder!ValueOps, ValueOps
<1> HIDE DEF v, o, op
<1>10. Defines(r, d, Printer!Word("%", n), v)
  BY <1>1, <1>8, DefineFacts
<1>11. HasNext(f, n, mc, t, v) /\ t.ret = mc.ret /\ t.mem = mc.mem
  <2>1. t.vals = Append(mc.vals, v) /\ t.ret = mc.ret /\ t.mem = mc.mem
        /\ (f.inst_map[n].opcode \in ValueOps \ {"ALLOC"} => v \in Int32)
    BY <1>4, <1>5 DEF Gives
  <2> QED BY <1>1, <1>4, <2>1, NextResult
<1> QED BY <1>1, <1>9, <1>10, <1>11, ReaderResult

LEMMA ReadsLoad ==
  ASSUME NEW f, NEW n, NEW inst, NEW r, NEW mc, ReaderStands(f, n, inst, r, mc),
         inst.opcode = "LOAD", NEW t, t = Execute(mc, inst, BitwiseLogic),
         NEW l, l = Printer!Line(n, inst), NEW d, d = ReadLine(r, l, BitwiseLogic)
  PROVE  ReaderAt(d, f, n + 1, t)
<1> DEFINE o == inst.operands[1]
           v == Read(mc, o)
<1>1. /\ n \in Nat /\ mc \in Machines /\ Int32 \subseteq Int
      /\ inst \in InstData /\ Fits(f, n, inst) /\ inst = f.inst_map[n]
      /\ MachineFits(f, n, mc) /\ ReaderAt(r, f, n, mc) /\ IsReader(r)
  BY UndefFacts DEF ReaderStands, MachineFits, ReaderAt
<1>2. o.kind = "Pointer" /\ AllocIn(f, n, o.val) /\ StoreIn(f, n, o.val)
      /\ 1 \in 1 .. Len(inst.operands)
  BY <1>1 DEF Fits, Builder!Arity, Builder!Binary
<1>3. v \in Int32 /\ v \in Int
  <2>1. v = mc.mem[o.val]
    BY <1>2 DEF Read
  <2> QED BY <1>1, <1>2, <2>1 DEF MachineFits
<1>4. Gives(mc, t, v)
  BY <1>1, <1>3, ExecuteValue
<1>5. l.words[1] = Printer!OperandWord(o) /\ l.mnemonic = Printer!Mnemonic["LOAD"]
      /\ l.lhs = Printer!ResultWord(n, inst)
  BY <1>1, <1>2, LineFacts
<1>6. l.lhs = Printer!Word("%", n)
  <2>1. inst.ir_obj.kind = "InstId"
    BY <1>1 DEF Fits, InstIdObj, Obj
  <2> QED BY <1>5, <2>1 DEF Printer!ResultWord
<1>7. d = Define(r, Printer!Word("%", n), v)
  <2>1. Denotes(r, l.words[1]) = v
    BY <1>1, <1>2, <1>5, PointerDenotes
  <2>2. l.mnemonic = "load"
    BY <1>5 DEF Printer!Mnemonic
  <2>3. d = Define(r, l.lhs, Denotes(r, l.words[1]))
    BY <2>2 DEF ReadLine
  <2> QED BY <1>6, <2>1, <2>3
<1>8. f.inst_map[n].opcode \in ValueOps \ {"ALLOC"}
  BY <1>1 DEF ValueOps
<1> HIDE DEF v, o
<1>9. Defines(r, d, Printer!Word("%", n), v)
  BY <1>1, <1>7, DefineFacts
<1>10. HasNext(f, n, mc, t, v) /\ t.ret = mc.ret /\ t.mem = mc.mem
  <2>1. t.vals = Append(mc.vals, v) /\ t.ret = mc.ret /\ t.mem = mc.mem
        /\ (f.inst_map[n].opcode \in ValueOps \ {"ALLOC"} => v \in Int32)
    BY <1>3, <1>4 DEF Gives
  <2> QED BY <1>1, <1>3, <2>1, NextResult
<1> QED BY <1>1, <1>8, <1>9, <1>10, ReaderResult

LEMMA ReadsAlloc ==
  ASSUME NEW f, NEW n, NEW inst, NEW r, NEW mc, ReaderStands(f, n, inst, r, mc),
         inst.opcode = "ALLOC", NEW t, t = Execute(mc, inst, BitwiseLogic),
         NEW l, l = Printer!Line(n, inst), NEW d, d = ReadLine(r, l, BitwiseLogic)
  PROVE  ReaderAt(d, f, n + 1, t)
<1> DEFINE q == inst.ir_obj.val
<1>1. /\ n \in Nat /\ mc \in Machines /\ Undef \in Int /\ q \in Nat
      /\ inst \in InstData /\ Fits(f, n, inst) /\ inst = f.inst_map[n]
      /\ MachineFits(f, n, mc) /\ ReaderAt(r, f, n, mc) /\ IsReader(r)
  BY UndefFacts DEF ReaderStands, MachineFits, ReaderAt
<1>2. /\ t.vals = Append(mc.vals, Undef) /\ t.ret = mc.ret
      /\ DOMAIN t.mem = DOMAIN mc.mem \cup {q}
      /\ \A p \in DOMAIN t.mem : t.mem[p] = IF p = q THEN Undef ELSE mc.mem[p]
  BY <1>1, ExecuteAlloc
<1>3. MemorySet(f, n, q, Undef, mc, t)
  <2>1. t.mem[q] = Undef
    BY <1>2
  <2>2. ASSUME NEW p, AllocIn(f, n + 1, p), p # q
        PROVE  AllocIn(f, n, p) /\ t.mem[p] = mc.mem[p]
    <3>1. AllocIn(f, n, p)
      BY <1>1, <2>2, NextUses
    <3>2. p \in DOMAIN t.mem
      BY <1>1, <1>2, <3>1 DEF MachineFits
    <3> QED BY <1>2, <2>2, <3>1, <3>2
  <2> QED BY <2>1, <2>2 DEF MemorySet
<1>4. l.mnemonic = "alloc" /\ l.lhs = Printer!Word("@", q)
  <2>1. l.mnemonic = Printer!Mnemonic["ALLOC"] /\ l.lhs = Printer!ResultWord(n, inst)
    BY <1>1, LineFacts
  <2>2. inst.ir_obj.kind = "Pointer"
    BY <1>1 DEF Fits
  <2>3. l.mnemonic = "alloc"
    BY <2>1 DEF Printer!Mnemonic
  <2> QED BY <2>1, <2>2, <2>3 DEF Printer!ResultWord
<1> HIDE DEF q
<1>5. d = Define(r, Printer!Word("@", q), Undef)
  BY <1>4 DEF ReadLine
<1>6. Defines(r, d, Printer!Word("@", q), Undef)
  BY <1>1, <1>5, DefineFacts
<1>7. HasNext(f, n, mc, t, Undef)
  <2>1. f.inst_map[n].opcode \in ValueOps \ {"ALLOC"} => Undef \in Int32
    BY <1>1
  <2> QED BY <1>1, <1>2, <2>1, NextResult
<1>8. f.inst_map[n].opcode \in {"ALLOC", "STORE"}
  BY <1>1
<1> QED BY <1>1, <1>2, <1>3, <1>6, <1>7, <1>8, ReaderPointer

LEMMA ReadsStore ==
  ASSUME NEW f, NEW n, NEW inst, NEW r, NEW mc, ReaderStands(f, n, inst, r, mc),
         inst.opcode = "STORE", NEW t, t = Execute(mc, inst, BitwiseLogic),
         NEW l, l = Printer!Line(n, inst), NEW d, d = ReadLine(r, l, BitwiseLogic)
  PROVE  ReaderAt(d, f, n + 1, t)
<1> DEFINE o == inst.operands[1]
           v == Read(mc, o)
           q == inst.operands[2].val
<1>1. /\ n \in Nat /\ mc \in Machines /\ Undef \in Int /\ Int32 \subseteq Int
      /\ inst \in InstData /\ Fits(f, n, inst) /\ inst = f.inst_map[n]
      /\ MachineFits(f, n, mc) /\ ReaderAt(r, f, n, mc) /\ IsReader(r)
  BY UndefFacts DEF ReaderStands, MachineFits, ReaderAt
<1>2. /\ Usable(f, n, o) /\ inst.operands[2].kind = "Pointer" /\ AllocIn(f, n, q)
      /\ 1 \in 1 .. Len(inst.operands) /\ 2 \in 1 .. Len(inst.operands)
  BY <1>1 DEF Fits, Builder!Arity
<1>3. v \in Int
  BY <1>1, <1>2, UsableReads
<1>4. /\ t.vals = Append(mc.vals, Undef) /\ t.ret = mc.ret
      /\ \A p \in DOMAIN mc.mem : t.mem[p] = IF p = q THEN v ELSE mc.mem[p]
  BY <1>1, <1>3, ExecuteStore
<1>5. MemorySet(f, n, q, v, mc, t)
  <2>1. t.mem[q] = v
    BY <1>1, <1>2, <1>4 DEF MachineFits
  <2>2. ASSUME NEW p, AllocIn(f, n + 1, p), p # q
        PROVE  AllocIn(f, n, p) /\ t.mem[p] = mc.mem[p]
    <3>1. AllocIn(f, n, p)
      BY <1>1, <2>2, NextUses
    <3>2. p \in DOMAIN mc.mem
      BY <1>1, <3>1 DEF MachineFits
    <3> QED BY <1>4, <2>2, <3>1, <3>2
  <2> QED BY <2>1, <2>2 DEF MemorySet
<1>6. /\ l.mnemonic = "store" /\ l.words[1] = Printer!OperandWord(o)
      /\ l.words[2] = Printer!Word("@", q)
  <2>1. /\ l.mnemonic = Printer!Mnemonic["STORE"] /\ l.words[1] = Printer!OperandWord(o)
        /\ l.words[2] = Printer!OperandWord(inst.operands[2])
    BY <1>1, <1>2, LineFacts
  <2>2. l.mnemonic = "store"
    BY <2>1 DEF Printer!Mnemonic
  <2>3. Printer!OperandWord(inst.operands[2]) = Printer!Word("@", q)
    BY <1>2 DEF Printer!OperandWord
  <2> QED BY <2>1, <2>2, <2>3
<1>7. Denotes(r, l.words[1]) = v
  BY <1>1, <1>2, <1>6, OperandDenotes
<1> HIDE DEF q, v, o
<1>8. d = Define(r, Printer!Word("@", q), v)
  BY <1>6, <1>7 DEF ReadLine
<1>9. Defines(r, d, Printer!Word("@", q), v)
  BY <1>1, <1>8, DefineFacts
<1>10. HasNext(f, n, mc, t, Undef)
  <2>1. f.inst_map[n].opcode \in ValueOps \ {"ALLOC"} => Undef \in Int32
    BY <1>1 DEF ValueOps
  <2> QED BY <1>1, <1>4, <2>1, NextResult
<1>11. f.inst_map[n].opcode \in {"ALLOC", "STORE"}
  BY <1>1
<1> QED BY <1>1, <1>4, <1>5, <1>9, <1>10, <1>11, ReaderPointer

LEMMA ReadsRet ==
  ASSUME NEW f, NEW n, NEW inst, NEW r, NEW mc, ReaderStands(f, n, inst, r, mc),
         inst.opcode = "RET", NEW t, t = Execute(mc, inst, BitwiseLogic),
         NEW l, l = Printer!Line(n, inst), NEW d, d = ReadLine(r, l, BitwiseLogic)
  PROVE  ReaderAt(d, f, n + 1, t)
<1> DEFINE o == inst.operands[1]
           v == Read(mc, o)
<1>1. /\ n \in Nat /\ mc \in Machines /\ Undef \in Int /\ Int32 \subseteq Int
      /\ inst \in InstData /\ Fits(f, n, inst) /\ inst = f.inst_map[n]
      /\ MachineFits(f, n, mc) /\ ReaderAt(r, f, n, mc) /\ IsReader(r) /\ r.ret = mc.ret
  BY UndefFacts DEF ReaderStands, MachineFits, ReaderAt
<1>2. Usable(f, n, o) /\ 1 \in 1 .. Len(inst.operands)
  <2>1. Len(inst.operands) = 1
    BY <1>1, ReturnArity DEF Fits
  <2>2. inst.opcode \in Builder!Binary \cup {"RET"} /\ 1 \in 1 .. Len(inst.operands)
    BY <2>1
  <2>3. \A k \in 1 .. Len(inst.operands) : Usable(f, n, inst.operands[k])
    BY <1>1, <2>2 DEF Fits
  <2> QED BY <2>2, <2>3
<1>3. v \in Int
  BY <1>1, <1>2, UsableReads
<1>4. /\ t.vals = Append(mc.vals, Undef) /\ t.mem = mc.mem
      /\ t.ret = IF mc.ret = Undef THEN v ELSE mc.ret
  BY <1>1, <1>3, ExecuteRet
<1>5. l.mnemonic = "ret" /\ l.words[1] = Printer!OperandWord(o)
  <2>1. l.mnemonic = Printer!Mnemonic["RET"] /\ l.words[1] = Printer!OperandWord(o)
    BY <1>1, <1>2, LineFacts
  <2> QED BY <2>1 DEF Printer!Mnemonic
<1>6. Denotes(r, l.words[1]) = v
  BY <1>1, <1>2, <1>5, OperandDenotes
<1> HIDE DEF v, o
<1>7. d = [r EXCEPT !.ret = IF r.ret = Undef THEN v ELSE r.ret]
  BY <1>5, <1>6 DEF ReadLine
<1>8. IsReader(d) /\ d.env = r.env /\ d.ret = t.ret
  <2> DEFINE u == IF r.ret = Undef THEN v ELSE r.ret
  <2>1. d = [r EXCEPT !.ret = u] /\ t.ret = u
    BY <1>1, <1>4, <1>7
  <2> HIDE DEF u
  <2> QED BY <1>1, <2>1 DEF IsReader
<1>9. HasNext(f, n, mc, t, Undef)
  <2>1. f.inst_map[n].opcode \in ValueOps \ {"ALLOC"} => Undef \in Int32
    BY <1>1 DEF ValueOps
  <2> QED BY <1>1, <1>4, <2>1, NextResult
<1> QED BY <1>1, <1>4, <1>8, <1>9, ReaderReturn


\* Whatever the line, the reader stays beside the machine.
LEMMA ReaderStep ==
  ASSUME OnTruths, NEW f, NEW n, NEW inst, NEW r, NEW mc, ReaderStands(f, n, inst, r, mc),
         NEW t, t = Execute(mc, inst, BitwiseLogic),
         NEW l, l = Printer!Line(n, inst), NEW d, d = ReadLine(r, l, BitwiseLogic)
  PROVE  ReaderAt(d, f, n + 1, t)
<1>1. inst.opcode \in Builder!Binary \cup {"ALLOC", "LOAD", "STORE", "RET"}
  BY DEF ReaderStands, Fits, KoopaOpCode, ValueOps, Builder!Binary, Builder!ValueOps
<1>2. CASE inst.opcode \in Builder!Binary
  BY <1>2, ReadsBinary
<1>3. CASE inst.opcode = "ALLOC"
  BY <1>3, ReadsAlloc
<1>4. CASE inst.opcode = "LOAD"
  BY <1>4, ReadsLoad
<1>5. CASE inst.opcode = "STORE"
  BY <1>5, ReadsStore
<1>6. CASE inst.opcode = "RET"
  BY <1>6, ReadsRet
<1> QED BY <1>1, <1>2, <1>3, <1>4, <1>5, <1>6

\* Reading the whole text of a function returns what its code returns.
LEMMA ReaderFollows ==
  ASSUME OnTruths, ProgInv, NEW i \in 1 .. Len(funcs), NEW f, f = funcs[i], f \in FuncSet,
         NEW m, EndsIn(f, m)
  PROVE  ReadText(Text(f), BitwiseLogic).ret = m.ret
<1> DEFINE N == f.next_inst_id
           s == Text(f)
<1>1. LegalFunc(f) /\ N \in Nat /\ \A j \in 0 .. N - 1 : f.inst_map[j] \in InstData
  BY FuncSetIsFunc DEF ProgInv, IsFunc
<1>2. /\ Len(s) = N
      /\ \A k \in 0 .. N - 1 : s[k + 1] = Printer!Line(k, f.inst_map[k])
  <2>1. DOMAIN s = 1 .. N /\ \A k \in 1 .. N : s[k] = Printer!Line(k - 1, f.inst_map[k - 1])
    BY DEF Text
  <2>2. Len(s) = N
    BY <1>1, <2>1 DEF Text
  <2>3. ASSUME NEW k \in 0 .. N - 1 PROVE s[k + 1] = Printer!Line(k, f.inst_map[k])
    <3> DEFINE j == k + 1
    <3>1. j \in 1 .. N /\ j - 1 = k
      BY <1>1
    <3> HIDE DEF j, s
    <3>2. s[j] = Printer!Line(j - 1, f.inst_map[j - 1])
      BY <2>1, <3>1
    <3> QED BY <3>1, <3>2 DEF j
  <2> QED BY <2>2, <2>3
<1>3. PICK t : TraceOf(f, t) /\ t[N] = m
  BY DEF EndsIn
<1> HIDE DEF s
<1>4. PICK a : ReadsLines(a, s, N) /\ ReadText(s, BitwiseLogic) = a[N]
  BY <1>1, <1>2, ReadTextIs
<1>5. a[0] = NewReader /\ \A k \in 0 .. N - 1 : a[k + 1] = ReadLine(a[k], s[k + 1], BitwiseLogic)
  BY <1>1, <1>4, ReadsLinesFacts
<1> DEFINE S == {k \in 0 .. N : ReaderAt(a[k], f, k, t[k]) /\ MachineFits(f, k, t[k])}
<1>6. 0 \in S
  <2>1. t[0] = NewMachine
    BY <1>3 DEF TraceOf
  <2>2. \A p : ~AllocIn(f, 0, p) /\ ~StoreIn(f, 0, p)
    BY DEF AllocIn, StoreIn
  <2>3. MachineFits(f, 0, NewMachine)
    BY <2>2, NewMachineFacts DEF MachineFits, ValuesFit
  <2>4. IsReader(NewReader) /\ NewReader.ret = NewMachine.ret
    BY NewMachineFacts DEF IsReader, NewReader
  <2>5. ReaderAt(NewReader, f, 0, NewMachine)
    BY <2>2, <2>4 DEF ReaderAt
  <2> QED BY <1>1, <1>5, <2>1, <2>3, <2>5
<1>7. ASSUME NEW k \in 0 .. N - 1, k \in S PROVE k + 1 \in S
  <2> DEFINE inst == f.inst_map[k]
             l == s[k + 1]
             r == a[k]
             mc == t[k]
  <2>1. k \in Nat /\ k + 1 \in 0 .. N /\ ReaderAt(r, f, k, mc) /\ MachineFits(f, k, mc)
    BY <1>1, <1>7
  <2>2. inst = f.inst_map[k] /\ inst \in InstData /\ Fits(f, k, inst)
    BY <1>1 DEF LegalFunc
  <2>3. l = Printer!Line(k, inst)
    BY <1>2
  <2>4. a[k + 1] = ReadLine(r, l, BitwiseLogic)
    BY <1>5
  <2>5. t[k + 1] = Execute(mc, inst, BitwiseLogic)
    BY <1>3 DEF TraceOf
  <2> HIDE DEF inst, l, r, mc
  <2>6. inst.opcode = "ALLOC" => inst.ir_obj.val \in Nat /\ ~AllocIn(f, k, inst.ir_obj.val)
    BY <1>1, <2>2, AllocatedOnce
  <2>7. \A p : StoreIn(f, k, p) => AllocIn(f, k, p)
    <3>1. k \in 0 .. N
      BY <1>1
    <3> QED BY <1>1, <3>1, StoredAllocated
  <2>8. MachineFits(f, k + 1, t[k + 1])
    BY <2>1, <2>2, <2>5, <2>6, <2>7, MachineSteps
  <2>9. ReaderStands(f, k, inst, r, mc)
    BY <2>1, <2>2, <2>6 DEF ReaderStands
  <2>10. ReaderAt(a[k + 1], f, k + 1, t[k + 1])
    BY <2>3, <2>4, <2>5, <2>9, ReaderStep
  <2> QED BY <2>1, <2>8, <2>10
<1> HIDE DEF S
<1>8. N \in S
  <2>1. \A k \in 0 .. N : k \in S
    BY <1>1, <1>6, <1>7, UpTo
  <2> QED BY <1>1, <2>1
<1>9. a[N].ret = m.ret
  BY <1>3, <1>8 DEF S, ReaderAt
<1> QED BY <1>4, <1>9 DEF s

\* The Koopa text alone, read back line by line, returns what the source of
\* each function returns, whatever the program (KoopaPrinter: Program::print).
THEOREM TextSaysWhatSourceSays ==
  ASSUME OnTruths
  PROVE  CompilerSpec => []TextMeansSource
<1>1. CompilerInv /\ CpuInv /\ BesideInv /\ MeaningInv => TextMeansSource
  <2> SUFFICES ASSUME CompilerInv, MeaningInv, src.verdict = "legal", NEW i \in DOMAIN printed
               PROVE  ReadText(printed[i], BitwiseLogic).ret = src.rets[i]
    BY DEF TextMeansSource
  <2>1. status = "ok"
    BY DEF CompilerInv, Fresh
  <2>2. funcs \in Seq(FuncSet) /\ ProgInv /\ GoodText
    BY <2>1 DEF CompilerInv
  <2>3. i \in 1 .. Len(printed) /\ i \in 1 .. Len(funcs)
    <3>1. printed \in Seq({Text(f) : f \in FuncSet}) /\ Len(printed) <= Len(funcs)
      BY <2>2 DEF GoodText
    <3>2. DOMAIN printed = 1 .. Len(printed) /\ Len(printed) \in Nat /\ Len(funcs) \in Nat
      BY <2>2, <3>1, LenProperties
    <3> QED BY <3>1, <3>2
  <2>4. printed[i] = Text(funcs[i])
    BY <2>2, <2>3 DEF GoodText
  <2>5. funcs[i] \in FuncSet
    BY <2>2, <2>3, ElementOfSeq
  <2>6. PICK m : EndsIn(funcs[i], m) /\ m.ret = src.rets[i]
    BY <2>1, <2>3 DEF MeaningInv, FrontMeans, ReturnsMean
  <2>7. ReadText(Text(funcs[i]), BitwiseLogic).ret = m.ret
    BY <2>2, <2>3, <2>5, <2>6, ReaderFollows
  <2> QED BY <2>4, <2>6, <2>7
<1> QED BY <1>1, MeaningIsInvariant, PTL
=============================================================================
