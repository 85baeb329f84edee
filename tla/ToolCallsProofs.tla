-------------------------- MODULE ToolCallsProofs --------------------------
(***************************************************************************)
(* Theorems about ToolCalls: exclusive calls are barriers, the pool is     *)
(* never overfull, results are logged in model order and none is missing,  *)
(* for any number of calls and any size of the pool.                       *)
(***************************************************************************)
EXTENDS ToolCalls, FiniteSetTheorems, SequenceTheorems, NaturalsInduction,
        WellFoundedInduction, TLAPS

\* The group loop has neither ended nor failed.
Working == pc \notin {"drain", "done"}

\* A running body is in the pool, the pool is within its cap, and a call is being prepared
\* only while there is room for it.
PoolInv ==
    /\ \A i \in Calls : body[i] = "running" => i \in inFlight
    /\ Cardinality(inFlight) <= MaxParallel
    /\ pc = "prepare" => Cardinality(inFlight) < MaxParallel

\* Everything before the current group is committed, and calls from its first one on ran in
\* its mode if they ran at all.
GroupInv ==
    /\ first <= committed
    /\ mode = "exclusive" => last = first
    /\ \A k \in Calls : ranAs[k] # "none" => k <= last
    /\ \A k \in Calls : k >= first => ranAs[k] \in {"none", mode}

\* Started calls are those before nextToStart; an uncommitted one is in the pool or settled,
\* and when the scheduler turns to filling the pool only calls in it may have settled.
OrderInv ==
    /\ committed <= nextToStart
    /\ \A k \in Calls : ranAs[k] # "none" => k < nextToStart \/ (pc = "prepare" /\ k = nextToStart)
    /\ \A k \in Calls : slot[k] # "none" \/ k \in inFlight => k < nextToStart
    /\ \A k \in Calls : committed <= k /\ k < nextToStart => slot[k] # "none" \/ k \in inFlight
    /\ \A k \in Calls : body[k] = "settled" => slot[k] # "none" \/ failure
    /\ pc # "classify" => nextToStart <= last + 1
    /\ pc = "classify" => committed = nextToStart /\ nextToStart <= N /\ inFlight = {}
    /\ pc = "prepare" => nextToStart <= last
    /\ pc = "finalize" => Ready
    /\ pc = "fill" => (Ready => committed \in inFlight)

SchedInv == TypeOK /\ PoolInv /\ GroupInv /\ (Working => OrderInv)

LEMMA InFlightFinite ==
    ASSUME TypeOK
    PROVE  IsFiniteSet(inFlight) /\ Cardinality(inFlight) \in Nat
<1>1. IsFiniteSet(Calls)
  BY NAssumption, FS_Interval DEF Calls
<1>2. IsFiniteSet(inFlight)
  BY <1>1, FS_Subset DEF TypeOK
<1> QED BY <1>2, FS_CardinalityType

LEMMA InitSched == Init => SchedInv
<1> SUFFICES ASSUME Init PROVE SchedInv
  OBVIOUS
<1> USE NAssumption, MaxAssumption
<1>1. TypeOK
  <2>1. first \in 1..(N + 1) /\ nextToStart \in 1..(N + 1) /\ committed \in 1..(N + 1)
    BY DEF Init
  <2>2. last \in 0..N
    BY DEF Init
  <2>3. /\ slot \in [Calls -> {"none", "post", "final"}]
        /\ body \in [Calls -> {"off", "running", "settled"}]
        /\ ranAs \in [Calls -> Modes \cup {"none"}]
    BY DEF Init
  <2> QED BY <2>1, <2>2, <2>3 DEF Init, TypeOK, Modes
<1>2. PoolInv
  BY FS_EmptySet DEF Init, PoolInv
<1>3. GroupInv
  BY DEF Init, GroupInv, Calls
<1>4. OrderInv
  BY DEF Init, OrderInv, Calls
<1> QED BY <1>1, <1>2, <1>3, <1>4 DEF SchedInv

\* The scheduler's step keeps the invariant, action by action.
LEMMA StepSched == SchedInv /\ [Next]_vars => SchedInv'
<1> SUFFICES ASSUME SchedInv, [Next]_vars PROVE SchedInv'
  OBVIOUS
<1> USE NAssumption, MaxAssumption
<1>0. /\ TypeOK /\ PoolInv /\ GroupInv
      /\ Working => OrderInv
      /\ IsFiniteSet(inFlight) /\ Cardinality(inFlight) \in Nat
  BY InFlightFinite DEF SchedInv
<1> USE DEF group, Calls
<1>1. ASSUME NEW m \in Modes, Classify(m) PROVE SchedInv'
  <2>1. OrderInv
    BY <1>0, <1>1 DEF Working, Classify
  <2>2. TypeOK'
    BY <1>0, <1>1, <2>1 DEF TypeOK, Classify, OrderInv, Modes
  <2>3. PoolInv'
    BY <1>0, <1>1 DEF PoolInv, Classify
  <2>4. GroupInv'
    BY <1>0, <1>1, <2>1 DEF GroupInv, Classify, OrderInv, TypeOK, Modes
  <2>5. OrderInv'
    BY <1>0, <1>1, <2>1 DEF Classify, OrderInv, TypeOK, Modes, Ready
  <2> QED BY <2>2, <2>3, <2>4, <2>5 DEF SchedInv
<1>2. ASSUME StartCall PROVE SchedInv'
  <2>1. OrderInv
    BY <1>0, <1>2 DEF Working, StartCall
  <2>2. TypeOK'
    BY <1>0, <1>2 DEF TypeOK, StartCall, PoolOpen
  <2>3. PoolInv'
    BY <1>0, <1>2 DEF PoolInv, StartCall, PoolOpen
  <2>4. GroupInv'
    BY <1>0, <1>2 DEF GroupInv, StartCall, PoolOpen, TypeOK, Modes
  <2>5. OrderInv'
    BY <1>0, <1>2, <2>1 DEF StartCall, PoolOpen, OrderInv, TypeOK
  <2> QED BY <2>2, <2>3, <2>4, <2>5 DEF SchedInv
<1>3. ASSUME Prepared PROVE SchedInv'
  <2>1. OrderInv
    BY <1>0, <1>3 DEF Working, Prepared
  <2>2. nextToStart \in 1..N
    BY <1>0, <1>3, <2>1 DEF Prepared, OrderInv, TypeOK
  <2>3. CASE Throw /\ UNCHANGED <<nextToStart, slot, body, inFlight>>
    BY <1>0, <1>3, <2>3 DEF Prepared, Throw, SchedInv, TypeOK, PoolInv, GroupInv, Working
  <2>4. CASE /\ ~failure
             /\ body' = [body EXCEPT ![nextToStart] = "running"]
             /\ inFlight' = inFlight \cup {nextToStart}
             /\ nextToStart' = nextToStart + 1 /\ pc' = "commit"
             /\ UNCHANGED <<slot, failure>>
    <3>1. TypeOK'
      BY <1>0, <1>3, <2>2, <2>4 DEF Prepared, TypeOK
    <3>2. Cardinality(inFlight') <= MaxParallel
      <4>1. Cardinality(inFlight) < MaxParallel
        BY <1>0, <1>3 DEF Prepared, PoolInv
      <4>2. Cardinality(inFlight') <= Cardinality(inFlight) + 1
        BY <1>0, <2>4, FS_AddElement
      <4>3. Cardinality(inFlight') \in Nat
        BY <1>0, <2>4, FS_AddElement, FS_CardinalityType
      <4> QED BY <1>0, <4>1, <4>2, <4>3
    <3>3. PoolInv'
      BY <1>0, <2>2, <2>4, <3>2 DEF PoolInv, TypeOK
    <3>4. GroupInv'
      BY <1>0, <1>3, <2>4 DEF Prepared, GroupInv
    <3>5. OrderInv'
      BY <1>0, <1>3, <2>1, <2>2, <2>4 DEF Prepared, OrderInv, TypeOK
    <3> QED BY <3>1, <3>3, <3>4, <3>5 DEF SchedInv
  <2>5. CASE /\ ~failure
             /\ \E kind \in {"post", "final"} : slot' = [slot EXCEPT ![nextToStart] = kind]
             /\ nextToStart' = nextToStart + 1 /\ pc' = "commit"
             /\ UNCHANGED <<body, inFlight, failure>>
    <3>1. TypeOK'
      BY <1>0, <1>3, <2>2, <2>5 DEF Prepared, TypeOK
    <3>2. PoolInv'
      BY <1>0, <2>5 DEF PoolInv
    <3>3. GroupInv'
      BY <1>0, <1>3, <2>5 DEF Prepared, GroupInv
    <3>4. OrderInv'
      BY <1>0, <1>3, <2>1, <2>2, <2>5 DEF Prepared, OrderInv, TypeOK
    <3> QED BY <3>1, <3>2, <3>3, <3>4 DEF SchedInv
  <2> QED BY <1>3, <2>3, <2>4, <2>5 DEF Prepared
<1>4. ASSUME NEW i \in Calls, SettleBody(i) PROVE SchedInv'
  <2>1. TypeOK'
    BY <1>0, <1>4 DEF TypeOK, SettleBody
  <2>2. PoolInv' /\ i \in inFlight
    BY <1>0, <1>4 DEF PoolInv, SettleBody, TypeOK
  <2>3. GroupInv'
    BY <1>0, <1>4 DEF GroupInv, SettleBody
  <2>4. ASSUME OrderInv PROVE OrderInv'
    <3>1. CASE failure' = TRUE /\ UNCHANGED slot
      BY <1>0, <1>4, <2>4, <3>1 DEF SettleBody, OrderInv, Ready, TypeOK
    <3>2. CASE /\ \E kind \in {"post", "final"} : slot' = [slot EXCEPT ![i] = kind]
               /\ UNCHANGED failure
      BY <1>0, <1>4, <2>2, <2>4, <3>2 DEF SettleBody, OrderInv, Ready, TypeOK
    <3> QED BY <1>4, <3>1, <3>2 DEF SettleBody
  <2> QED BY <1>0, <1>4, <2>1, <2>2, <2>3, <2>4 DEF SchedInv, Working, SettleBody
<1>5. ASSUME CommitFinal \/ Finalized PROVE SchedInv'
  <2>1. OrderInv /\ Ready
    BY <1>0, <1>5 DEF Working, CommitFinal, Finalized, OrderInv
  <2>2. /\ pc \in {"commit", "finalize"} /\ Record
        /\ UNCHANGED <<signal, aborted, group, nextToStart, slot, body, inFlight, ranAs, outcome>>
    BY <1>5 DEF CommitFinal, Finalized
  <2>3. CASE Throw /\ UNCHANGED <<log, committed>>
    BY <1>0, <2>2, <2>3 DEF Throw, SchedInv, TypeOK, PoolInv, GroupInv, Working
  <2>4. CASE committed' = committed + 1 /\ (Throw \/ (pc' = "commit" /\ UNCHANGED failure))
    <3>1. committed \in Calls /\ committed < nextToStart
      BY <1>0, <2>1, <2>2 DEF Ready, OrderInv, TypeOK
    <3>2. TypeOK'
      <4>1. committed' \in 1..(N + 1)
        BY <2>4, <3>1
      <4>2. failure \in BOOLEAN
        BY <1>0 DEF TypeOK
      <4>3. pc' \in {"commit", "drain"} /\ failure' \in BOOLEAN
        BY <2>4, <4>2, Zenon DEF Throw
      <4> QED BY <1>0, <2>2, <4>1, <4>3 DEF TypeOK
    <3>3. PoolInv' /\ GroupInv'
      BY <1>0, <2>2, <2>4, <3>1 DEF PoolInv, GroupInv, TypeOK, Throw
    <3>4. ASSUME pc' = "commit" PROVE OrderInv'
      BY <1>0, <2>1, <2>2, <2>4, <3>1, <3>4 DEF OrderInv, TypeOK, Throw
    <3> QED BY <2>4, <3>2, <3>3, <3>4 DEF SchedInv, Working, Throw
  <2> QED BY <2>2, <2>3, <2>4 DEF Record
<1>6. ASSUME AwaitFinalize \/ AwaitRace PROVE SchedInv'
  <2>1. OrderInv
    BY <1>0, <1>6 DEF Working, AwaitFinalize, AwaitRace
  <2>2. TypeOK' /\ PoolInv' /\ GroupInv'
    BY <1>0, <1>6 DEF AwaitFinalize, AwaitRace, TypeOK, PoolInv, GroupInv
  <2>3. OrderInv'
    BY <1>6, <2>1 DEF AwaitFinalize, AwaitRace, OrderInv, Ready
  <2> QED BY <2>2, <2>3 DEF SchedInv
<1>7. ASSUME /\ Throw
             /\ UNCHANGED <<signal, aborted, group, nextToStart, committed, slot, body, inFlight,
                            ranAs, outcome>>
      PROVE SchedInv'
  BY <1>0, <1>7 DEF Throw, SchedInv, TypeOK, PoolInv, GroupInv, Working
<1>8. ASSUME ModeRaises PROVE SchedInv'
  BY <1>0, <1>8 DEF ModeRaises, Throw, SchedInv, TypeOK, PoolInv, GroupInv, Working
<1>9. ASSUME CommitDone PROVE SchedInv'
  <2>1. OrderInv
    BY <1>0, <1>9 DEF Working, CommitDone
  <2>2. CASE failure /\ Throw /\ UNCHANGED aborted
    BY <1>7, <1>9, <2>2 DEF CommitDone
  <2>3. CASE ~failure /\ aborted' = (aborted \/ signal) /\ pc' = "fill" /\ UNCHANGED failure
    <3>1. TypeOK' /\ PoolInv' /\ GroupInv'
      BY <1>0, <1>9, <2>3 DEF CommitDone, TypeOK, PoolInv, GroupInv
    <3>2. OrderInv'
      BY <1>9, <2>1, <2>3 DEF CommitDone, OrderInv, Ready
    <3> QED BY <3>1, <3>2 DEF SchedInv
  <2> QED BY <1>9, <2>2, <2>3 DEF CommitDone
<1>10. ASSUME NEW i \in Calls, Raced(i) PROVE SchedInv'
  <2>1. OrderInv
    BY <1>0, <1>10 DEF Working, Raced
  <2>2. Cardinality(inFlight') <= MaxParallel
    <3>1. Cardinality(inFlight') <= Cardinality(inFlight)
      BY <1>0, <1>10, FS_RemoveElement DEF Raced
    <3>2. Cardinality(inFlight') \in Nat
      BY <1>0, <1>10, FS_RemoveElement, FS_CardinalityType DEF Raced
    <3> QED BY <1>0, <3>1, <3>2 DEF PoolInv
  <2>3. TypeOK'
    BY <1>0, <1>10 DEF Raced, Throw, TypeOK
  <2>4. PoolInv'
    BY <1>0, <1>10, <2>2 DEF Raced, Throw, PoolInv
  <2>5. GroupInv'
    BY <1>0, <1>10 DEF Raced, GroupInv
  <2>6. ASSUME pc' = "commit" PROVE OrderInv'
    BY <1>0, <1>10, <2>1, <2>6 DEF Raced, OrderInv, Throw, TypeOK
  <2> QED BY <1>10, <2>3, <2>4, <2>5, <2>6 DEF SchedInv, Working, Raced, Throw
<1>11. ASSUME GroupDone PROVE SchedInv'
  <2>1. OrderInv
    BY <1>0, <1>11 DEF Working, GroupDone
  <2>2. TypeOK' /\ PoolInv' /\ GroupInv'
    BY <1>0, <1>11 DEF GroupDone, TypeOK, PoolInv, GroupInv
  <2>3. committed = nextToStart
    BY <1>0, <1>11, <2>1 DEF GroupDone, OrderInv, Ready, TypeOK
  <2>4. ASSUME pc' = "classify" PROVE OrderInv'
    BY <1>11, <2>1, <2>3, <2>4 DEF GroupDone, OrderInv
  <2> QED BY <1>11, <2>2, <2>4 DEF SchedInv, Working, GroupDone
<1>12. ASSUME Drained PROVE SchedInv'
  BY <1>0, <1>12 DEF Drained, SchedInv, TypeOK, PoolInv, GroupInv, Working
<1>13. ASSUME Abort PROVE SchedInv'
  BY <1>0, <1>13 DEF Abort, SchedInv, TypeOK, PoolInv, GroupInv, OrderInv, Ready, Working
<1>14. ASSUME CrashAndResume PROVE SchedInv'
  BY <1>0, <1>14, FS_EmptySet DEF CrashAndResume, SchedInv, TypeOK, PoolInv, GroupInv, Working
<1>15. ASSUME UNCHANGED vars PROVE SchedInv'
  BY <1>0, <1>15 DEF vars, SchedInv, TypeOK, PoolInv, GroupInv, OrderInv, Ready, Working
<1> QED
  BY <1>1, <1>2, <1>3, <1>4, <1>5, <1>6, <1>8, <1>9, <1>10, <1>11, <1>12, <1>13, <1>14, <1>15
     DEF Next, Scheduler

LEMMA SchedAlways == Spec => []SchedInv
<1>1. Init => SchedInv
  BY InitSched
<1>2. SchedInv /\ [Next]_vars => SchedInv'
  BY StepSched
<1> QED BY <1>1, <1>2, PTL DEF Spec

\* Every reachable state of the scheduler is well typed: indexes stay within the calls of the
\* message although a group may be left early (tool-calls.ts, executeToolCalls).
THEOREM TypeCorrect == Spec => []TypeOK
<1>1. SchedInv => TypeOK
  BY DEF SchedInv
<1> QED BY <1>1, SchedAlways, PTL

LEMMA SchedImpliesBarrier == SchedInv => ExclusiveIsBarrier
<1> SUFFICES ASSUME SchedInv PROVE ExclusiveIsBarrier
  OBVIOUS
<1> USE NAssumption, MaxAssumption DEF Calls
<1>1. TypeOK /\ PoolInv /\ GroupInv
  BY DEF SchedInv
<1> DEFINE running == {i \in Calls : body[i] = "running"}
<1>2. Cardinality(running) <= MaxParallel
  <2>1. running \in SUBSET inFlight
    BY <1>1 DEF PoolInv
  <2>2. IsFiniteSet(inFlight) /\ Cardinality(inFlight) \in Nat
    BY <1>1, InFlightFinite
  <2> HIDE DEF running
  <2>3. IsFiniteSet(running) /\ Cardinality(running) <= Cardinality(inFlight)
    BY <2>1, <2>2, FS_Subset
  <2>4. Cardinality(running) \in Nat
    BY <2>3, FS_CardinalityType
  <2> QED BY <1>1, <2>2, <2>3, <2>4 DEF PoolInv
<1>3. ASSUME NEW i \in Calls, NEW j \in Calls, i < j, ranAs[j] # "none",
             "exclusive" \in {ranAs[i], ranAs[j]}
      PROVE i < committed
  <2>1. i < first
    <3>1. CASE j < first
      BY <1>1, <1>3, <3>1 DEF TypeOK
    <3>2. CASE j >= first /\ mode = "exclusive"
      BY <1>1, <1>3, <3>2 DEF GroupInv, TypeOK
    <3>3. CASE j >= first /\ mode = "parallel"
      BY <1>1, <1>3, <3>3 DEF GroupInv, TypeOK
    <3> QED BY <1>1, <3>1, <3>2, <3>3 DEF TypeOK, Modes
  <2> QED BY <1>1, <2>1 DEF GroupInv, TypeOK
<1> QED BY <1>2, <1>3 DEF ExclusiveIsBarrier

\* An exclusive call is a barrier in both directions and the pool never exceeds its cap, for
\* any number of calls, whatever is reclassified, fails or is aborted (runGroup, fillPool).
THEOREM BarrierHolds == Spec => []ExclusiveIsBarrier
BY SchedAlways, SchedImpliesBarrier, PTL

----------------------------------------------------------------------------
(* The log of a step *)

Kinds == {"real", "skipped", "unknown", "notStarted"}
Event == {CallEvent(i) : i \in Calls} \cup {ResultEvent(i, k) : i \in Calls, k \in Kinds}

IsResult(e) == e.type = "tool/result"

\* Results come in the order of their calls and none is left out before the last one; a
\* result follows its call event unless it is the repair of a call not recorded as started.
GoodLog(s) ==
    /\ s \in Seq(Event)
    /\ \A j, k \in 1..Len(s) : IsResult(s[j]) /\ IsResult(s[k]) /\ j < k => s[j].call < s[k].call
    /\ \A k \in 1..Len(s), i \in Calls : IsResult(s[k]) /\ i < s[k].call => Answered(s, i)
    /\ \A k \in 1..Len(s) :
         IsResult(s[k]) /\ s[k].kind # "notStarted"
           => \E j \in 1..Len(s) : j < k /\ s[j] = CallEvent(s[k].call)

\* The calls with a result are those before c.
AnsweredBefore(s, c) == \A i \in Calls : Answered(s, i) <=> i < c

LEMMA Events ==
    /\ \A i \in Calls : /\ CallEvent(i) \in Event
                        /\ ~IsResult(CallEvent(i)) /\ CallEvent(i).call = i
    /\ \A i \in Calls, k \in Kinds :
         /\ ResultEvent(i, k) \in Event /\ IsResult(ResultEvent(i, k))
         /\ ResultEvent(i, k).call = i /\ ResultEvent(i, k).kind = k
    /\ \A e \in Event : e.call \in Calls
<1>1. ASSUME NEW i \in Calls
      PROVE  CallEvent(i) \in Event /\ ~IsResult(CallEvent(i)) /\ CallEvent(i).call = i
  <2>1. CallEvent(i) \in Event
    BY DEF Event
  <2> QED BY <2>1 DEF CallEvent, IsResult
<1>2. ASSUME NEW i \in Calls, NEW k \in Kinds
      PROVE  /\ ResultEvent(i, k) \in Event /\ IsResult(ResultEvent(i, k))
             /\ ResultEvent(i, k).call = i /\ ResultEvent(i, k).kind = k
  <2>1. ResultEvent(i, k) \in Event
    BY DEF Event
  <2> QED BY <2>1 DEF ResultEvent, IsResult
<1>3. ASSUME NEW e \in Event PROVE e.call \in Calls
  <2>1. CASE \E i \in Calls : e = CallEvent(i)
    BY <1>1, <2>1
  <2>2. CASE \E i \in Calls, k \in Kinds : e = ResultEvent(i, k)
    BY <1>2, <2>2
  <2> QED BY <2>1, <2>2 DEF Event
<1> QED BY <1>1, <1>2, <1>3

LEMMA AnsweredIn ==
    ASSUME NEW s \in Seq(Event), NEW i
    PROVE  Answered(s, i) <=> \E k \in 1..Len(s) : IsResult(s[k]) /\ s[k].call = i
BY DEF Answered, IsResult

LEMMA StartedIn ==
    ASSUME NEW s \in Seq(Event), NEW i
    PROVE  Started(s, i) <=> \E k \in 1..Len(s) : s[k] = CallEvent(i)
BY DEF Started

\* StartCall: a call event disturbs no result.
LEMMA LogCall ==
    ASSUME NEW s, GoodLog(s), NEW i \in Calls
    PROVE  LET t == Append(s, CallEvent(i))
           IN  /\ GoodLog(t)
               /\ Started(t, i)
               /\ \A j \in Calls : Started(s, j) => Started(t, j)
               /\ \A j \in Calls : Answered(t, j) <=> Answered(s, j)
<1> DEFINE t == Append(s, CallEvent(i))
<1> USE NAssumption DEF Calls
<1>1. s \in Seq(Event) /\ CallEvent(i) \in Event /\ ~IsResult(CallEvent(i))
  BY Events DEF GoodLog
<1>2. /\ t \in Seq(Event) /\ Len(t) = Len(s) + 1
      /\ \A k \in 1..Len(s) : t[k] = s[k]
      /\ t[Len(s) + 1] = CallEvent(i)
      /\ Len(s) \in Nat
  BY <1>1, AppendProperties
<1> HIDE DEF t
<1>3. \A k \in 1..Len(t) : IsResult(t[k]) => k \in 1..Len(s) /\ t[k] = s[k]
  BY <1>1, <1>2
<1>4. \A j \in Calls : Answered(t, j) <=> Answered(s, j)
  BY <1>1, <1>2, <1>3, AnsweredIn
<1>5. GoodLog(t)
  <2>1. \A j, k \in 1..Len(t) : IsResult(t[j]) /\ IsResult(t[k]) /\ j < k => t[j].call < t[k].call
    BY <1>3 DEF GoodLog
  <2>2. \A k \in 1..Len(t), j \in Calls : IsResult(t[k]) /\ j < t[k].call => Answered(t, j)
    BY <1>3, <1>4 DEF GoodLog
  <2>3. ASSUME NEW k \in 1..Len(t), IsResult(t[k]), t[k].kind # "notStarted"
        PROVE  \E j \in 1..Len(t) : j < k /\ t[j] = CallEvent(t[k].call)
    <3>1. PICK j \in 1..Len(s) : j < k /\ s[j] = CallEvent(s[k].call)
      BY <1>3, <2>3 DEF GoodLog
    <3> QED BY <1>2, <1>3, <2>3, <3>1
  <2> QED BY <1>2, <2>1, <2>2, <2>3 DEF GoodLog
<1>6. Started(t, i) /\ \A j \in Calls : Started(s, j) => Started(t, j)
  BY <1>1, <1>2, StartedIn
<1> QED BY <1>4, <1>5, <1>6 DEF t

\* A good log followed by events that answer the remaining calls in order is good, and
\* answers every call.
LEMMA LogJoin ==
    ASSUME NEW s, GoodLog(s), NEW c \in Nat, AnsweredBefore(s, c), NEW t \in Seq(Event),
           \A j, k \in 1..Len(t) : IsResult(t[j]) /\ IsResult(t[k]) /\ j < k => t[j].call < t[k].call,
           \A k \in 1..Len(t) : IsResult(t[k]) => c <= t[k].call,
           NEW d \in Nat, c <= d,
           \A k \in 1..Len(t) : IsResult(t[k]) => t[k].call < d,
           \A i \in Calls : c <= i /\ i < d => Answered(t, i),
           \A k \in 1..Len(t) : IsResult(t[k]) /\ t[k].kind # "notStarted" =>
               \/ Started(s, t[k].call)
               \/ \E j \in 1..Len(t) : j < k /\ t[j] = CallEvent(t[k].call)
    PROVE  /\ GoodLog(s \o t) /\ AnsweredBefore(s \o t, d)
           /\ \A i \in Calls : Started(s, i) => Started(s \o t, i)
<1> DEFINE u == s \o t
<1> USE NAssumption DEF Calls
<1>1. s \in Seq(Event)
  BY DEF GoodLog
<1>2. /\ u \in Seq(Event) /\ Len(u) = Len(s) + Len(t)
      /\ Len(s) \in Nat /\ Len(t) \in Nat
      /\ \A k \in 1..Len(u) : u[k] = IF k <= Len(s) THEN s[k] ELSE t[k - Len(s)]
  BY <1>1, ConcatProperties
<1> HIDE DEF u
<1>3. \A k \in 1..Len(s) : k \in 1..Len(u) /\ u[k] = s[k]
  BY <1>2
<1>4. ASSUME NEW k \in 1..Len(t) PROVE Len(s) + k \in 1..Len(u) /\ u[Len(s) + k] = t[k]
  <2>1. Len(s) + k \in 1..Len(u) /\ ~(Len(s) + k <= Len(s)) /\ (Len(s) + k) - Len(s) = k
    BY <1>2
  <2> QED BY <1>2, <2>1
<1>5. \A k \in 1..Len(u) : \/ k \in 1..Len(s) /\ u[k] = s[k]
                           \/ /\ k > Len(s) /\ k - Len(s) \in 1..Len(t)
                              /\ u[k] = t[k - Len(s)]
  BY <1>2
<1>6. ASSUME NEW i \in Calls PROVE Answered(u, i) <=> Answered(s, i) \/ Answered(t, i)
  <2>1. Answered(s, i) => Answered(u, i)
    BY <1>1, <1>2, <1>3, AnsweredIn
  <2>2. ASSUME Answered(t, i) PROVE Answered(u, i)
    <3>1. PICK k \in 1..Len(t) : IsResult(t[k]) /\ t[k].call = i
      BY <2>2, AnsweredIn
    <3>2. Len(s) + k \in 1..Len(u) /\ u[Len(s) + k] = t[k]
      BY <1>4
    <3> QED BY <1>2, <3>1, <3>2, AnsweredIn
  <2>3. ASSUME Answered(u, i) PROVE Answered(s, i) \/ Answered(t, i)
    <3>1. PICK k \in 1..Len(u) : IsResult(u[k]) /\ u[k].call = i
      BY <1>2, <2>3, AnsweredIn
    <3>2. CASE k \in 1..Len(s) /\ u[k] = s[k]
      BY <1>1, <3>1, <3>2, AnsweredIn
    <3>3. CASE k - Len(s) \in 1..Len(t) /\ u[k] = t[k - Len(s)]
      BY <3>1, <3>3, AnsweredIn
    <3> QED BY <1>5, <3>2, <3>3
  <2> QED BY <2>1, <2>2, <2>3
<1>7. AnsweredBefore(u, d)
  <2>1. \A i \in Calls : Answered(t, i) => i < d
    BY AnsweredIn
  <2> QED BY <1>6, <2>1 DEF AnsweredBefore
<1>8. \A j, k \in 1..Len(u) : IsResult(u[j]) /\ IsResult(u[k]) /\ j < k => u[j].call < u[k].call
  <2> SUFFICES ASSUME NEW j \in 1..Len(u), NEW k \in 1..Len(u),
                      IsResult(u[j]), IsResult(u[k]), j < k
               PROVE  u[j].call < u[k].call
    OBVIOUS
  <2>1. CASE k \in 1..Len(s) /\ u[k] = s[k]
    <3>1. j \in 1..Len(s) /\ u[j] = s[j]
      BY <1>2, <1>3, <2>1
    <3> QED BY <2>1, <3>1 DEF GoodLog
  <2>2. CASE k > Len(s) /\ k - Len(s) \in 1..Len(t) /\ u[k] = t[k - Len(s)]
    <3>1. CASE j \in 1..Len(s) /\ u[j] = s[j]
      <4>1. u[j].call \in Calls /\ u[k].call \in Calls
        BY <1>2, Events, ElementOfSeq
      <4>2. Answered(s, u[j].call)
        BY <1>1, <3>1, AnsweredIn
      <4>3. u[j].call < c
        BY <4>1, <4>2 DEF AnsweredBefore
      <4>4. c <= u[k].call
        BY <2>2
      <4> QED BY <4>1, <4>3, <4>4
    <3>2. CASE j > Len(s) /\ j - Len(s) \in 1..Len(t) /\ u[j] = t[j - Len(s)]
      <4>1. j - Len(s) < k - Len(s)
        BY <1>2
      <4> QED BY <2>2, <3>2, <4>1
    <3> QED BY <1>5, <3>1, <3>2
  <2> QED BY <1>5, <2>1, <2>2
<1>9. \A k \in 1..Len(u), i \in Calls : IsResult(u[k]) /\ i < u[k].call => Answered(u, i)
  <2> SUFFICES ASSUME NEW k \in 1..Len(u), NEW i \in Calls, IsResult(u[k]), i < u[k].call
               PROVE  i < d
    BY <1>7 DEF AnsweredBefore
  <2>1. u[k].call \in Calls
    BY <1>2, Events, ElementOfSeq
  <2>2. Answered(u, u[k].call)
    BY <1>2, AnsweredIn
  <2> QED BY <1>7, <2>1, <2>2 DEF AnsweredBefore
<1>10. ASSUME NEW k \in 1..Len(u), IsResult(u[k]), u[k].kind # "notStarted"
       PROVE  \E j \in 1..Len(u) : j < k /\ u[j] = CallEvent(u[k].call)
  <2>1. CASE k \in 1..Len(s) /\ u[k] = s[k]
    <3>1. PICK j \in 1..Len(s) : j < k /\ s[j] = CallEvent(s[k].call)
      BY <1>10, <2>1 DEF GoodLog
    <3> QED BY <1>3, <2>1, <3>1
  <2>2. CASE k > Len(s) /\ k - Len(s) \in 1..Len(t) /\ u[k] = t[k - Len(s)]
    <3>1. CASE Started(s, u[k].call)
      <4>1. PICK j \in 1..Len(s) : s[j] = CallEvent(u[k].call)
        BY <1>1, <3>1, StartedIn
      <4>2. j < k
        BY <1>2, <2>2
      <4> QED BY <1>3, <4>1, <4>2
    <3>2. CASE \E j \in 1..Len(t) : j < k - Len(s) /\ t[j] = CallEvent(u[k].call)
      <4>1. PICK j \in 1..Len(t) : j < k - Len(s) /\ t[j] = CallEvent(u[k].call)
        BY <3>2
      <4>2. Len(s) + j < k
        BY <1>2, <4>1
      <4> QED BY <1>4, <4>1, <4>2
    <3> QED BY <1>10, <2>2, <3>1, <3>2
  <2> QED BY <1>5, <2>1, <2>2
<1>11. \A i \in Calls : Started(s, i) => Started(u, i)
  BY <1>1, <1>2, <1>3, StartedIn
<1>12. GoodLog(u)
  BY <1>2, <1>8, <1>9, <1>10 DEF GoodLog
<1> QED BY <1>7, <1>11, <1>12 DEF u

\* Record: the result of the first call without one.
LEMMA LogResult ==
    ASSUME NEW s, GoodLog(s), NEW i \in Calls, AnsweredBefore(s, i), Started(s, i)
    PROVE  LET t == Append(s, ResultEvent(i, "real"))
           IN  /\ GoodLog(t)
               /\ AnsweredBefore(t, i + 1)
               /\ \A j \in Calls : Started(s, j) => Started(t, j)
<1> DEFINE e == ResultEvent(i, "real")
           t == <<e>>
<1>1. e \in Event /\ IsResult(e) /\ e.call = i
  BY Events DEF Kinds
<1>2. i \in Nat
  BY NAssumption DEF Calls
<1> HIDE DEF e
<1>3. t \in Seq(Event) /\ Len(t) = 1 /\ t[1] = e
  BY <1>1
<1>4. \A k \in 1..Len(t) : k = 1
  BY <1>3
<1> HIDE DEF t
<1>5. \A j, k \in 1..Len(t) : ~(j < k)
  BY <1>4
<1>6. \A j \in Calls : i <= j /\ j < i + 1 => Answered(t, j)
  <2>1. Answered(t, i)
    <3>1. 1 \in 1..Len(t) /\ IsResult(t[1]) /\ t[1].call = i
      BY <1>1, <1>3
    <3> QED BY <1>3, <3>1, AnsweredIn
  <2>2. \A j \in Calls : i <= j /\ j < i + 1 => j = i
    BY <1>2, NAssumption DEF Calls
  <2> QED BY <2>1, <2>2
<1>7. /\ \A k \in 1..Len(t) : IsResult(t[k]) => i <= t[k].call /\ t[k].call < i + 1
      /\ \A k \in 1..Len(t) : Started(s, t[k].call)
  BY <1>1, <1>2, <1>3, <1>4
<1>8. /\ GoodLog(s \o t) /\ AnsweredBefore(s \o t, i + 1)
      /\ \A j \in Calls : Started(s, j) => Started(s \o t, j)
  <2>1. i + 1 \in Nat /\ i <= i + 1
    BY <1>2
  <2> QED BY <1>2, <1>3, <1>5, <1>6, <1>7, <2>1, LogJoin
<1>9. Append(s, e) = s \o t
  BY <1>1, AppendIsConcat DEF GoodLog, t
<1> QED BY <1>8, <1>9 DEF e

\* What a crash leaves of a good log is good.
LEMMA LogPrefix ==
    ASSUME NEW s, GoodLog(s), NEW n \in 0..Len(s)
    PROVE  GoodLog(SubSeq(s, 1, n))
<1> DEFINE t == SubSeq(s, 1, n)
<1>1. s \in Seq(Event) /\ Len(s) \in Nat /\ n \in Nat
  BY LenProperties DEF GoodLog
<1>2. \A k \in 1..n : k \in 1..Len(s) /\ s[k] \in Event
  BY <1>1, ElementOfSeq
<1>3. t \in Seq(Event) /\ Len(t) = n /\ \A k \in 1..n : t[k] = s[k]
  BY <1>1, <1>2, SubSeqProperties
<1> HIDE DEF t
<1>4. \A k \in 1..Len(t) : k \in 1..Len(s) /\ t[k] = s[k]
  BY <1>2, <1>3
<1>5. \A j, k \in 1..Len(t) : IsResult(t[j]) /\ IsResult(t[k]) /\ j < k => t[j].call < t[k].call
  BY <1>4 DEF GoodLog
<1>6. ASSUME NEW k \in 1..Len(t), NEW i \in Calls, IsResult(t[k]), i < t[k].call
      PROVE  Answered(t, i)
  <2>1. Answered(s, i)
    BY <1>4, <1>6 DEF GoodLog
  <2>2. PICK j \in 1..Len(s) : IsResult(s[j]) /\ s[j].call = i
    BY <1>1, <2>1, AnsweredIn
  <2>3. k \in 1..Len(s) /\ IsResult(s[k]) /\ i < s[k].call
    BY <1>4, <1>6
  <2>4. s[k].call \in Calls
    BY <1>1, <2>3, Events, ElementOfSeq
  <2>5. ~(k < j) /\ k # j
    <3>1. ~(s[k].call < i) /\ s[k].call # i
      BY <2>3, <2>4, NAssumption DEF Calls
    <3> QED BY <2>2, <2>3, <3>1 DEF GoodLog
  <2>6. j \in 1..Len(t)
    BY <1>1, <1>3, <2>5
  <2> QED BY <1>3, <1>4, <2>2, <2>6, AnsweredIn
<1>7. ASSUME NEW k \in 1..Len(t), IsResult(t[k]), t[k].kind # "notStarted"
      PROVE  \E j \in 1..Len(t) : j < k /\ t[j] = CallEvent(t[k].call)
  <2>1. PICK j \in 1..Len(s) : j < k /\ s[j] = CallEvent(s[k].call)
    BY <1>4, <1>7 DEF GoodLog
  <2>2. j \in 1..Len(t)
    BY <1>1, <1>3, <2>1
  <2> QED BY <1>4, <2>1, <2>2
<1>8. GoodLog(t)
  BY <1>3, <1>5, <1>6, <1>7 DEF GoodLog
<1> QED BY <1>8 DEF t

\* A non-empty set of naturals has a least element.
LEMMA LeastNatural ==
    ASSUME NEW S, S \subseteq Nat, S # {}
    PROVE  \E x \in S : \A y \in S : x <= y
<1> DEFINE R == OpToRel(<, Nat)
<1>1. IsWellFoundedOn(R, Nat)
  BY NatLessThanWellFounded, Zenon DEF R
<1> HIDE DEF R
<1>2. PICK x \in S : \A y \in S : ~(<<y, x>> \in R)
  BY <1>1, WFMin
<1>3. \A y \in S : ~(y < x)
  <2> TAKE y \in S
  <2>1. <<y, x>> \in Nat \X Nat
    OBVIOUS
  <2> QED BY <1>2, <2>1 DEF R, OpToRel
<1> QED BY <1>2, <1>3

\* The calls a good log answers are an initial segment of the message.
LEMMA LogSegment ==
    ASSUME NEW s, GoodLog(s)
    PROVE  \E c \in 1..(N + 1) : AnsweredBefore(s, c)
<1> DEFINE open == {i \in Calls : ~Answered(s, i)}
<1>1. CASE open = {}
  <2>1. N + 1 \in 1..(N + 1) /\ \A i \in Calls : i < N + 1
    BY NAssumption DEF Calls
  <2> QED BY <1>1, <2>1 DEF AnsweredBefore
<1>2. CASE open # {}
  <2>1. open \subseteq Nat
    BY NAssumption DEF Calls
  <2>2. PICK c \in open : \A i \in open : c <= i
    BY <1>2, <2>1, LeastNatural
  <2>3. ASSUME NEW i \in Calls, Answered(s, i) PROVE i < c
    <3>1. PICK k \in 1..Len(s) : IsResult(s[k]) /\ s[k].call = i
      BY <2>3, AnsweredIn DEF GoodLog
    <3>2. ~(c < i)
      BY <2>2, <3>1 DEF GoodLog
    <3>3. c # i
      BY <2>2, <2>3
    <3> QED BY <2>2, <3>2, <3>3, NAssumption DEF Calls
  <2>4. ASSUME NEW i \in Calls, i < c PROVE Answered(s, i)
    <3>1. ~(c <= i)
      BY <2>2, <2>4, NAssumption DEF Calls
    <3> QED BY <2>2, <3>1
  <2>5. c \in 1..(N + 1)
    BY <2>2, NAssumption DEF Calls
  <2> QED BY <2>3, <2>4, <2>5 DEF AnsweredBefore
<1> QED BY <1>1, <1>2

\* GroupDone after an abort: the skipped calls.
LEMMA LogSkipped ==
    ASSUME NEW s, GoodLog(s), NEW c \in 1..(N + 1), AnsweredBefore(s, c)
    PROVE  GoodLog(s \o Skipped(c)) /\ AnsweredBefore(s \o Skipped(c), N + 1)
<1> DEFINE M == 2 * (N + 1 - c)
           call(k) == c + (k - 1) \div 2
           t == Skipped(c)
<1>1. M \in Nat /\ c \in Nat /\ N + 1 \in Nat /\ c <= N + 1
  BY NAssumption
<1>2. ASSUME NEW k \in 1..M PROVE call(k) \in Calls /\ c <= call(k) /\ call(k) < N + 1
  BY NAssumption DEF Calls
<1>3. /\ t = [k \in 1..M |-> IF k % 2 = 1 THEN CallEvent(call(k)) ELSE ResultEvent(call(k), "skipped")]
  BY DEF Skipped
<1>4. \A k \in 1..M : t[k] \in Event
  BY <1>2, <1>3, Events DEF Kinds
<1>5. t \in Seq(Event) /\ Len(t) = M
  BY <1>1, <1>3, <1>4
<1>6. ASSUME NEW k \in 1..M, IsResult(t[k])
      PROVE  k % 2 = 0 /\ t[k] = ResultEvent(call(k), "skipped") /\ t[k].call = call(k)
  <2>1. k % 2 # 1
    BY <1>2, <1>3, <1>6, Events
  <2>2. k % 2 = 0
    BY <1>1, <2>1
  <2> QED BY <1>2, <1>3, <2>1, <2>2, Events DEF Kinds
<1> HIDE DEF t
<1>7. \A j, k \in 1..Len(t) : IsResult(t[j]) /\ IsResult(t[k]) /\ j < k => t[j].call < t[k].call
  <2> SUFFICES ASSUME NEW j \in 1..M, NEW k \in 1..M, IsResult(t[j]), IsResult(t[k]), j < k
               PROVE  t[j].call < t[k].call
    BY <1>5
  <2>1. j % 2 = 0 /\ k % 2 = 0 /\ t[j].call = call(j) /\ t[k].call = call(k)
    BY <1>6
  <2>2. call(j) < call(k)
    BY <1>1, <2>1
  <2> QED BY <2>1, <2>2
<1>8. \A k \in 1..Len(t) : IsResult(t[k]) => c <= t[k].call /\ t[k].call < N + 1
  BY <1>2, <1>5, <1>6
<1>9. ASSUME NEW i \in Calls, c <= i PROVE Answered(t, i)
  <2>1. PICK k \in 1..M : k = 2 * (i - c + 1)
    BY <1>1, <1>9, NAssumption DEF Calls
  <2>2. call(k) = i /\ k % 2 # 1
    BY <1>1, <1>9, <2>1, NAssumption DEF Calls
  <2>3. t[k] = ResultEvent(i, "skipped")
    BY <1>3, <2>2
  <2> QED BY <1>5, <2>3, Events, AnsweredIn DEF Kinds
<1>10. ASSUME NEW k \in 1..Len(t), IsResult(t[k])
       PROVE  \E j \in 1..Len(t) : j < k /\ t[j] = CallEvent(t[k].call)
  <2>1. k \in 1..M /\ k % 2 = 0 /\ t[k].call = call(k)
    BY <1>5, <1>6, <1>10
  <2>2. PICK j \in 1..M : j = k - 1
    <3>1. k # 1
      BY <2>1
    <3>2. k - 1 \in 1..M
      BY <1>1, <2>1, <3>1
    <3> QED BY <3>2
  <2>3. j % 2 = 1 /\ call(j) = call(k) /\ j < k
    BY <1>1, <2>1, <2>2
  <2>4. t[j] = CallEvent(call(k))
    BY <1>3, <2>3
  <2> QED BY <1>5, <2>1, <2>3, <2>4
<1>11. GoodLog(s \o t) /\ AnsweredBefore(s \o t, N + 1)
  BY <1>1, <1>5, <1>7, <1>8, <1>9, <1>10, LogJoin
<1> QED BY <1>11 DEF t

\* The k-th of the calls c..N is c + k - 1.
LEMMA NthCall ==
    ASSUME NEW c \in 1..(N + 1), NEW k \in 1..(N + 1 - c)
    PROVE  Nth(c..N, k) = c + k - 1 /\ Cardinality(c..N) = N + 1 - c
<1>1. c \in Nat /\ N \in Nat /\ k \in Nat /\ c + k - 1 \in c..N
  BY NAssumption
<1>2. ASSUME NEW i \in c..N PROVE Cardinality({j \in c..N : j < i}) = i - c
  <2>1. {j \in c..N : j < i} = c..(i - 1)
    BY <1>1
  <2>2. Cardinality(c..(i - 1)) = IF c > i - 1 THEN 0 ELSE (i - 1) - c + 1
    BY <1>1, FS_Interval
  <2>3. CASE i = c
    <3>1. c > i - 1 /\ i - c = 0
      BY <1>1, <2>3
    <3> QED BY <2>1, <2>2, <3>1
  <2>4. CASE i > c
    <3>1. ~(c > i - 1) /\ (i - 1) - c + 1 = i - c
      BY <1>1, <2>4
    <3> QED BY <2>1, <2>2, <3>1
  <2> QED BY <1>1, <2>3, <2>4
<1>3. Cardinality({j \in c..N : j < c + k - 1}) = k - 1
  BY <1>1, <1>2
<1>4. \A i \in c..N : Cardinality({j \in c..N : j < i}) = k - 1 => i = c + k - 1
  BY <1>1, <1>2
<1>5. Nth(c..N, k) = c + k - 1
  BY <1>1, <1>3, <1>4 DEF Nth
<1>6. Cardinality(c..N) = N + 1 - c
  BY <1>1, FS_Interval
<1> QED BY <1>5, <1>6

\* CrashAndResume: the repaired log.
LEMMA LogClosed ==
    ASSUME NEW s, GoodLog(s)
    PROVE  GoodLog(s \o ToolClosers(s)) /\ AnsweredBefore(s \o ToolClosers(s), N + 1)
<1>1. PICK c \in 1..(N + 1) : AnsweredBefore(s, c)
  BY LogSegment
<1> DEFINE t == ToolClosers(s)
           M == N + 1 - c
           kind(i) == IF Started(s, i) THEN "unknown" ELSE "notStarted"
<1>2. M \in Nat /\ c \in Nat /\ N + 1 \in Nat /\ c <= N + 1
  BY NAssumption
<1>3. {i \in Calls : ~Answered(s, i)} = c..N
  BY <1>1, <1>2, NAssumption DEF AnsweredBefore, Calls
<1>4. Cardinality(c..N) = M
  BY <1>2, NAssumption, FS_Interval
<1>5. t = [k \in 1..M |-> ResultEvent(Nth(c..N, k), kind(Nth(c..N, k)))]
  BY <1>3, <1>4 DEF ToolClosers
<1>6. ASSUME NEW k \in 1..M
      PROVE  /\ c + k - 1 \in Calls
             /\ t[k] = ResultEvent(c + k - 1, kind(c + k - 1))
  BY <1>2, <1>5, NthCall, NAssumption DEF Calls
<1>7. \A i \in Calls : kind(i) \in Kinds
  BY DEF Kinds
<1>8. DOMAIN t = 1..M
  BY <1>5
<1> HIDE DEF t, kind
<1>9. ASSUME NEW k \in 1..M
      PROVE  /\ t[k] \in Event /\ t[k].call = c + k - 1
             /\ t[k].kind = kind(c + k - 1) /\ IsResult(t[k])
  BY <1>6, <1>7, Events
<1>10. t \in Seq(Event) /\ Len(t) = M
  <2>1. t = [k \in 1..M |-> t[k]]
    BY <1>5, <1>8
  <2> QED BY <1>2, <1>8, <1>9, <2>1
<1>11. \A j, k \in 1..Len(t) : j < k => t[j].call < t[k].call
  BY <1>2, <1>9, <1>10
<1>12. \A k \in 1..Len(t) : c <= t[k].call /\ t[k].call < N + 1
  <2>1. \A k \in 1..M : c <= c + k - 1 /\ c + k - 1 < N + 1
    BY <1>2, NAssumption
  <2> QED BY <1>9, <1>10, <2>1
<1>13. ASSUME NEW i \in Calls, c <= i PROVE Answered(t, i)
  <2>1. PICK k \in 1..M : c + k - 1 = i
    <3>1. i - c + 1 \in 1..M /\ c + (i - c + 1) - 1 = i
      BY <1>2, <1>13, NAssumption DEF Calls
    <3> QED BY <3>1
  <2> QED BY <1>9, <1>10, <2>1, AnsweredIn
<1>14. ASSUME NEW k \in 1..Len(t), t[k].kind # "notStarted" PROVE Started(s, t[k].call)
  BY <1>9, <1>10, <1>14 DEF kind
<1>15. GoodLog(s \o t) /\ AnsweredBefore(s \o t, N + 1)
  BY <1>1, <1>2, <1>10, <1>11, <1>12, <1>13, <1>14, LogJoin
<1> QED BY <1>15 DEF t

----------------------------------------------------------------------------
(* The log over the steps of the scheduler *)

\* Up to the end of the step the calls before `committed' have their results and those that
\* were started their call events; at the end no body runs and, unless the scheduler failed,
\* every call has its result.
LogInv ==
    /\ GoodLog(log)
    /\ pc # "done" =>
         /\ outcome = "none"
         /\ AnsweredBefore(log, committed)
         /\ \A i \in Calls : i < nextToStart \/ (pc = "prepare" /\ i = nextToStart) => Started(log, i)
    /\ pc = "done" =>
         /\ outcome # "failed" => AnsweredBefore(log, N + 1)
         /\ \A i \in Calls : body[i] # "running"

LEMMA InitLog == Init => LogInv
<1> SUFFICES ASSUME Init PROVE LogInv
  OBVIOUS
<1>1. log = <<>> /\ log \in Seq(Event) /\ Len(log) = 0 /\ \A k \in 1..Len(log) : FALSE
  BY DEF Init
<1>2. GoodLog(log)
  BY <1>1 DEF GoodLog
<1>3. AnsweredBefore(log, committed)
  <2>1. \A i \in Calls : ~Answered(log, i)
    BY <1>1, AnsweredIn
  <2>2. \A i \in Calls : ~(i < committed)
    BY NAssumption DEF Init, Calls
  <2> QED BY <2>1, <2>2 DEF AnsweredBefore
<1>4. \A i \in Calls : ~(i < nextToStart)
  BY NAssumption DEF Init, Calls
<1> QED BY <1>2, <1>3, <1>4 DEF LogInv, Init

\* A step of the scheduler keeps the log invariant, action by action.
LEMMA StepLog == SchedInv /\ LogInv /\ [Next]_vars => LogInv'
<1> SUFFICES ASSUME SchedInv, LogInv, [Next]_vars PROVE LogInv'
  OBVIOUS
<1>0. TypeOK /\ PoolInv /\ (Working => OrderInv) /\ GoodLog(log)
  BY DEF SchedInv, LogInv
\* Steps that leave the log, the counters and the end alone.
<1>1. ASSUME UNCHANGED <<log, committed, nextToStart, outcome>>, pc # "done", pc' # "done",
             pc' # "prepare" \/ pc = "prepare"
      PROVE  LogInv'
  BY <1>1 DEF LogInv
<1>2. ASSUME NEW m \in Modes, Classify(m) PROVE LogInv'
  BY <1>1, <1>2 DEF Classify
<1>3. ASSUME StartCall PROVE LogInv'
  <2>1. nextToStart \in Calls
    BY <1>0, <1>3, NAssumption DEF StartCall, PoolOpen, TypeOK, Calls
  <2>2. /\ log' = Append(log, CallEvent(nextToStart))
        /\ pc = "fill" /\ pc' = "prepare" /\ UNCHANGED <<committed, nextToStart, outcome>>
    BY <1>3 DEF StartCall
  <2>3. /\ GoodLog(log') /\ Started(log', nextToStart)
        /\ \A j \in Calls : Started(log, j) => Started(log', j)
        /\ \A j \in Calls : Answered(log', j) <=> Answered(log, j)
    BY <1>0, <2>1, <2>2, LogCall
  <2> QED BY <2>2, <2>3 DEF LogInv, AnsweredBefore
<1>4. ASSUME Prepared PROVE LogInv'
  <2>1. /\ pc = "prepare" /\ pc' \in {"drain", "commit"} /\ UNCHANGED <<log, committed, outcome>>
        /\ nextToStart' \in {nextToStart, nextToStart + 1}
    BY <1>4 DEF Prepared, Throw
  <2>2. \A i \in Calls : i < nextToStart' => i < nextToStart \/ i = nextToStart
    BY <1>0, <2>1, NAssumption DEF TypeOK, Calls
  <2> QED BY <2>1, <2>2 DEF LogInv
<1>5. ASSUME NEW i \in Calls, SettleBody(i) PROVE LogInv'
  <2>1. UNCHANGED <<pc, log, committed, nextToStart, outcome>> /\ pc # "done"
    BY <1>5 DEF SettleBody, LogInv
  <2> QED BY <1>1, <2>1
<1>6. ASSUME log' = Append(log, ResultEvent(committed, "real")), committed' = committed + 1,
             pc \in {"commit", "finalize"}, Ready, pc' \in {"commit", "drain"},
             UNCHANGED <<nextToStart, outcome>>
      PROVE  LogInv'
  <2>1. committed \in Calls /\ committed < nextToStart
    BY <1>0, <1>6, NAssumption DEF Ready, OrderInv, Working, TypeOK, Calls
  <2>2. AnsweredBefore(log, committed) /\ Started(log, committed)
    BY <1>6, <2>1 DEF LogInv
  <2>3. log' = Append(log, ResultEvent(committed, "real")) /\ committed' = committed + 1
    BY <1>6
  <2>4. /\ GoodLog(log') /\ AnsweredBefore(log', committed')
        /\ \A j \in Calls : Started(log, j) => Started(log', j)
    BY <1>0, <2>1, <2>2, <2>3, LogResult
  <2> QED BY <1>6, <2>4 DEF LogInv
<1>7. ASSUME CommitFinal \/ Finalized PROVE LogInv'
  <2>1. /\ pc \in {"commit", "finalize"} /\ Ready /\ Record
        /\ UNCHANGED <<nextToStart, outcome>>
    BY <1>0, <1>7 DEF CommitFinal, Finalized, OrderInv, Working
  <2>2. CASE Throw /\ UNCHANGED <<log, committed>>
    BY <1>1, <2>1, <2>2 DEF Throw
  <2>3. CASE /\ log' = Append(log, ResultEvent(committed, "real"))
             /\ committed' = committed + 1
             /\ pc' \in {"commit", "drain"}
    BY <1>6, <2>1, <2>3
  <2> QED BY <2>1, <2>2, <2>3 DEF Record, Throw
<1>8. ASSUME AwaitFinalize \/ AwaitRace PROVE LogInv'
  BY <1>1, <1>8 DEF AwaitFinalize, AwaitRace
<1>9. ASSUME ModeRaises PROVE LogInv'
  <2>1. CASE pc = "fill"
    BY <1>1, <1>9, <2>1 DEF ModeRaises, Throw
  <2>2. CASE pc = "classify"
    <3>1. inFlight = {}
      BY <1>0, <2>2 DEF OrderInv, Working
    <3>2. \A i \in Calls : body'[i] # "running"
      BY <1>0, <1>9, <3>1 DEF ModeRaises, PoolInv
    <3> QED BY <1>0, <1>9, <2>2, <3>2 DEF ModeRaises, LogInv
  <2> QED BY <1>9, <2>1, <2>2 DEF ModeRaises
<1>10. ASSUME CommitDone PROVE LogInv'
  BY <1>1, <1>10 DEF CommitDone, Throw
<1>11. ASSUME NEW i \in Calls, Raced(i) PROVE LogInv'
  BY <1>1, <1>11 DEF Raced, Throw
<1>12. ASSUME GroupDone PROVE LogInv'
  <2>1. pc = "fill" /\ inFlight = {} /\ UNCHANGED <<committed, nextToStart, body>>
    BY <1>12 DEF GroupDone
  <2>2. committed = nextToStart /\ committed \in 1..(N + 1)
    <3>1. OrderInv
      BY <1>0, <2>1 DEF Working
    <3> QED BY <1>0, <2>1, <3>1, NAssumption DEF OrderInv, Ready, TypeOK, Calls
  <2>3. \A i \in Calls : body'[i] # "running"
    BY <1>0, <2>1 DEF PoolInv
  <2>4. AnsweredBefore(log, committed)
    BY <2>1 DEF LogInv
  <2>5. CASE log' = log \o Skipped(nextToStart) /\ pc' = "done" /\ outcome' = "aborted"
    <3>1. GoodLog(log') /\ AnsweredBefore(log', N + 1)
      BY <1>0, <2>2, <2>4, <2>5, LogSkipped
    <3> QED BY <2>3, <2>5, <3>1 DEF LogInv
  <2>6. CASE pc' = "classify" /\ UNCHANGED <<log, outcome>>
    BY <1>1, <2>1, <2>6
  <2>7. CASE nextToStart = N + 1 /\ pc' = "done" /\ outcome' = "returned" /\ UNCHANGED log
    BY <1>0, <2>2, <2>3, <2>4, <2>7 DEF LogInv
  <2> QED BY <1>12, <2>5, <2>6, <2>7 DEF GroupDone
<1>13. ASSUME Drained PROVE LogInv'
  <2>1. \A i \in Calls : body'[i] # "running"
    BY <1>0, <1>13 DEF Drained, PoolInv
  <2> QED BY <1>0, <1>13, <2>1 DEF Drained, LogInv
<1>14. ASSUME Abort PROVE LogInv'
  BY <1>1, <1>14 DEF Abort
<1>15. ASSUME CrashAndResume PROVE LogInv'
  <2>1. PICK k \in 0..Len(log) :
           log' = SubSeq(log, 1, k) \o ToolClosers(SubSeq(log, 1, k))
    BY <1>15 DEF CrashAndResume
  <2>2. GoodLog(SubSeq(log, 1, k))
    BY <1>0, LogPrefix
  <2>3. GoodLog(log') /\ AnsweredBefore(log', N + 1)
    BY <2>1, <2>2, LogClosed
  <2> QED BY <1>15, <2>3 DEF CrashAndResume, LogInv
<1>16. ASSUME UNCHANGED vars PROVE LogInv'
  BY <1>16 DEF vars, LogInv
<1> QED
  BY <1>2, <1>3, <1>4, <1>5, <1>7, <1>8, <1>9, <1>10, <1>11, <1>12, <1>13, <1>14, <1>15, <1>16
     DEF Next, Scheduler

LEMMA LogAlways == Spec => []LogInv
<1>1. Init => LogInv
  BY InitLog
<1>2. SchedInv /\ LogInv /\ [Next]_vars => LogInv'
  BY StepLog
<1> QED BY <1>1, <1>2, SchedAlways, PTL DEF Spec

\* For any number of calls, whatever the order in which bodies settle, after an abort and after
\* the repair of any stored prefix, results are logged in model order, none is left out
\* and each follows its call event (commitReady, appendSkippedToolCall,
\* interruptedTurnClosers).
THEOREM ModelOrderKept == Spec => []ResultsInModelOrder
<1>1. LogInv => ResultsInModelOrder
  <2> SUFFICES ASSUME LogInv PROVE ResultsInModelOrder
    OBVIOUS
  <2>1. GoodLog(log) /\ DOMAIN log = 1..Len(log)
    BY DEF LogInv, GoodLog
  <2>2. \A k : ResultAt(k) <=> k \in 1..Len(log) /\ IsResult(log[k])
    BY <2>1 DEF ResultAt, IsResult
  <2> QED BY <2>1, <2>2 DEF ResultsInModelOrder, GoodLog
<1> QED BY <1>1, LogAlways, PTL

\* A finished step has no body in progress and, unless the scheduler itself failed, a result for
\* every call: the transcript handed to the provider has no dangling call
\* (executeToolCalls, the drain of runGroup, interruptedTurnClosers).
THEOREM EveryCallAnswered == Spec => []NothingDangles
<1>1. LogInv => NothingDangles
  <2> SUFFICES ASSUME LogInv, pc = "done"
               PROVE  /\ outcome # "failed" => \A i \in Calls : Answered(log, i)
                      /\ \A i \in Calls : body[i] # "running"
    BY DEF NothingDangles
  <2>1. \A i \in Calls : i < N + 1
    BY NAssumption DEF Calls
  <2> QED BY <2>1 DEF LogInv, AnsweredBefore
<1> QED BY <1>1, LogAlways, PTL
=============================================================================
