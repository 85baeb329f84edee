----------------------------- MODULE JobsProofs -----------------------------
(***************************************************************************)
(* Theorems about Jobs: types, the first outcome of a job stands, no       *)
(* record is dropped while its job can still settle, and every completion  *)
(* reaches its owner once: by a notice, or because somebody took charge.   *)
(***************************************************************************)
EXTENDS Jobs, TLAPS

\* Teardown changes the state a step at a time; what every caller of it needs to know.
LEMMA TeardownStep ==
    ASSUME TypeOK, NEW S \in SUBSET JobIds, CancelForTeardown(S)
    PROVE  /\ status' \in [JobIds -> Outcomes \cup Active \cup {"none"}]
           /\ reported' \in [JobIds -> BOOLEAN]
           /\ told' \in [JobIds -> BOOLEAN]
           /\ wait' \in [Waits -> {"new", "waiting", "released", "timedOut", "aborted", "done"}]
           /\ UNCHANGED <<waitOn, notices, spent, busy>>
           /\ \A j \in JobIds : isTerminal(j) => status'[j] = status[j]
           /\ \A j \in JobIds : j \notin S => status'[j] = status[j]
           /\ \A j \in S : status'[j] # "none"
           /\ \A j \in JobIds : told[j] => told'[j]
           /\ \A j \in S : ~isTerminal(j) => told'[j] /\ status'[j] \in {"failed", "stopping"}
<1> DEFINE live == {j \in S : ~isTerminal(j)}
<1>1. PICK throws \in SUBSET live :
        /\ status' = [j \in JobIds |-> IF j \in live THEN Cancelled(j, throws) ELSE status[j]]
        /\ Settle(throws, ClaimedByTeardown(live))
  BY DEF CancelForTeardown
<1>2. \A j \in JobIds : Cancelled(j, throws) \in {"failed", "stopping"}
  BY DEF Cancelled
<1>3. \A j \in JobIds : status'[j] = IF j \in live THEN Cancelled(j, throws) ELSE status[j]
  BY <1>1
<1>4. status' \in [JobIds -> Outcomes \cup Active \cup {"none"}]
  BY <1>1, <1>2 DEF TypeOK, Outcomes, Active
<1>5. reported' \in [JobIds -> BOOLEAN]
  BY <1>1 DEF Settle, ClaimedByTeardown, TypeOK
<1>6. wait' \in [Waits -> {"new", "waiting", "released", "timedOut", "aborted", "done"}]
  BY <1>1 DEF Settle, TypeOK
<1>7. /\ told' = [j \in JobIds |-> told[j] \/ j \in live]
      /\ UNCHANGED <<notices, spent, busy>>
  BY DEF CancelForTeardown
<1>8. told' \in [JobIds -> BOOLEAN]
  BY <1>7
<1>9. UNCHANGED waitOn
  BY <1>1 DEF Settle
<1>10. \A j \in S : status'[j] # "none"
  BY <1>2, <1>3 DEF isTerminal, Outcomes
<1> QED
  BY <1>2, <1>3, <1>4, <1>5, <1>6, <1>7, <1>8, <1>9, <1>10

----------------------------------------------------------------------------
(* Types *)

LEMMA InitType == Init => TypeOK
BY NoneAssumption, BoundsAssumption DEF Init, TypeOK, Outcomes, Active

LEMMA StepType == TypeOK /\ [Next]_vars => TypeOK'
<1> SUFFICES ASSUME TypeOK, [Next]_vars PROVE TypeOK'
  OBVIOUS
<1> USE DEF agents, waiting
<1>1. ASSUME NEW j \in JobIds, NEW out \in Outcomes, ProducerDone(j, out) PROVE TypeOK'
  <2>1. Records(j, out) \in Outcomes \cup Active \cup {"none"}
    BY DEF Records, TypeOK
  <2>2. status' \in [JobIds -> Outcomes \cup Active \cup {"none"}]
    BY <1>1, <2>1 DEF ProducerDone, TypeOK
  <2>3. /\ reported' \in [JobIds -> BOOLEAN]
        /\ wait' \in [Waits -> {"new", "waiting", "released", "timedOut", "aborted", "done"}]
        /\ UNCHANGED waitOn
    BY <1>1 DEF ProducerDone, Settle, TypeOK
  <2>4. /\ notices' \in [JobIds -> Nat]
        /\ spent' \in [Owners -> 0..WakeBudget]
        /\ busy' \in [Owners -> BOOLEAN]
    <3>1. CASE UNCHANGED <<notices, spent, busy>>
      BY <3>1 DEF TypeOK
    <3>2. CASE owner[j] # NONE /\ Notify(j)
      <4> DEFINE o == owner[j]
      <4>1. o \in Owners
        BY <3>2 DEF TypeOK
      <4>2. notices' = [notices EXCEPT ![j] = @ + 1] /\ notices[j] \in Nat
        BY <3>2 DEF Notify, TypeOK
      <4>3. notices' \in [JobIds -> Nat]
        BY <4>2 DEF TypeOK
      <4>4. CASE ~busy[o] /\ spent[o] < WakeBudget
        <5>1. /\ spent' = [spent EXCEPT ![o] = spent[o] + 1]
              /\ busy' = [busy EXCEPT ![o] = TRUE]
          BY <3>2, <4>4 DEF Notify
        <5>2. spent[o] + 1 \in 0..WakeBudget
          BY <4>1, <4>4, BoundsAssumption DEF TypeOK
        <5>3. spent' \in [Owners -> 0..WakeBudget]
          BY <5>1, <5>2 DEF TypeOK
        <5>4. busy' \in [Owners -> BOOLEAN]
          BY <5>1 DEF TypeOK
        <5> QED BY <4>3, <5>3, <5>4
      <4>5. CASE ~(~busy[o] /\ spent[o] < WakeBudget)
        <5>1. UNCHANGED <<spent, busy>>
          BY <3>2, <4>5 DEF Notify
        <5> QED BY <4>3, <5>1 DEF TypeOK
      <4> QED BY <4>4, <4>5
    <3> QED BY <1>1, <3>1, <3>2 DEF ProducerDone
  <2> QED BY <1>1, <2>2, <2>3, <2>4 DEF ProducerDone, TypeOK
<1>2. ASSUME NEW j \in JobIds, NEW c \in Owners \cup {NONE}, Start(j, c) PROVE TypeOK'
  BY <1>2 DEF Start, TypeOK, Active
<1>3. ASSUME NEW j \in JobIds, NEW c \in Owners \cup {NONE}, Read(j, c) PROVE TypeOK'
  BY <1>3 DEF Read, TypeOK
<1>4. ASSUME NEW j \in JobIds, NEW c \in Owners \cup {NONE}, Kill(j, c) PROVE TypeOK'
  BY <1>4 DEF Kill, TypeOK, Active
<1>5. ASSUME NEW w \in Waits, NEW j \in JobIds, NEW c \in Owners \cup {NONE},
             WaitCall(w, j, c)
      PROVE TypeOK'
  BY <1>5 DEF WaitCall, TypeOK
<1>6. ASSUME NEW w \in Waits, WaitAbort(w) \/ WaitTimeout(w) PROVE TypeOK'
  BY <1>6 DEF WaitAbort, WaitTimeout, TypeOK
<1>7. ASSUME NEW w \in Waits, WaitReturn(w) PROVE TypeOK'
  <2>1. reported' \in [JobIds -> BOOLEAN] /\ told' \in [JobIds -> BOOLEAN]
    BY <1>7 DEF WaitReturn, TypeOK
  <2> QED BY <1>7, <2>1 DEF WaitReturn, TypeOK
<1>8. ASSUME NEW o \in Owners, DisposeOwned(o) PROVE TypeOK'
  <2> DEFINE owned == {j \in stored : owner[j] = o}
  <2>1. owned \in SUBSET JobIds /\ CancelForTeardown(owned)
    BY <1>8 DEF DisposeOwned, TypeOK
  <2>2. draining' \in [Owners \cup {NONE} -> SUBSET JobIds]
    BY <1>8, <2>1 DEF DisposeOwned, TypeOK
  <2> HIDE DEF owned
  <2> QED BY <1>8, <2>1, <2>2, TeardownStep DEF DisposeOwned, TypeOK
<1>9. ASSUME NEW o \in Owners, OwnedDisposed(o) PROVE TypeOK'
  BY <1>9 DEF OwnedDisposed, TypeOK
<1>10. ASSUME NEW o \in Owners, HumanPrompt(o) \/ GoesIdle(o) PROVE TypeOK'
  <2>1. busy' \in [Owners -> BOOLEAN]
    BY <1>10 DEF HumanPrompt, GoesIdle, TypeOK
  <2>2. 0 \in 0..WakeBudget
    BY BoundsAssumption
  <2>3. spent' \in [Owners -> 0..WakeBudget]
    BY <1>10, <2>2 DEF HumanPrompt, GoesIdle, TypeOK
  <2> QED BY <1>10, <2>1, <2>3 DEF HumanPrompt, GoesIdle, TypeOK
<1>11. ASSUME DisposeAll PROVE TypeOK'
  <2>1. stored \in SUBSET JobIds /\ CancelForTeardown(stored)
    BY <1>11 DEF DisposeAll, TypeOK
  <2> QED BY <1>11, <2>1, TeardownStep DEF DisposeAll, TypeOK
<1>12. ASSUME AllDisposed PROVE TypeOK'
  BY <1>12 DEF AllDisposed, TypeOK
<1>13. ASSUME UNCHANGED vars PROVE TypeOK'
  BY <1>13 DEF vars, TypeOK
<1> QED
  BY <1>1, <1>2, <1>3, <1>4, <1>5, <1>6, <1>7, <1>8, <1>9, <1>10, <1>11, <1>12, <1>13
     DEF Next, Callers

\* Every reachable state of the job registry is well typed (jobs-local/src/index.ts).
THEOREM TypeCorrect == Spec => []TypeOK
<1>1. Init => TypeOK
  BY InitType
<1>2. TypeOK /\ [Next]_vars => TypeOK'
  BY StepType
<1> QED BY <1>1, <1>2, PTL DEF Spec

----------------------------------------------------------------------------
(* The first outcome *)

LEMMA OutcomeStep ==
    ASSUME TypeOK, [Next]_vars, NEW i \in JobIds, isTerminal(i)
    PROVE  status'[i] = status[i]
<1>1. ASSUME NEW j \in JobIds, NEW out \in Outcomes, ProducerDone(j, out)
      PROVE status'[i] = status[i]
  BY <1>1 DEF ProducerDone, Records, TypeOK
<1>2. ASSUME NEW j \in JobIds, NEW c \in Owners \cup {NONE}, Start(j, c) \/ Kill(j, c)
      PROVE status'[i] = status[i]
  BY <1>2 DEF Start, Kill, isTerminal, Outcomes, TypeOK
<1>3. ASSUME NEW o \in Owners, DisposeOwned(o) PROVE status'[i] = status[i]
  <2>1. PICK S \in SUBSET JobIds : CancelForTeardown(S)
    BY <1>3 DEF DisposeOwned, TypeOK
  <2> QED BY <2>1, TeardownStep
<1>4. ASSUME DisposeAll PROVE status'[i] = status[i]
  <2>1. PICK S \in SUBSET JobIds : CancelForTeardown(S)
    BY <1>4 DEF DisposeAll, TypeOK
  <2> QED BY <2>1, TeardownStep
<1>5. CASE UNCHANGED status
  BY <1>5
<1> QED
  BY <1>1, <1>2, <1>3, <1>4, <1>5
     DEF Next, Callers, vars, Read, WaitCall, WaitAbort, WaitTimeout, WaitReturn, OwnedDisposed,
         HumanPrompt, GoesIdle, AllDisposed

\* The first outcome recorded for a job stands: neither a producer that settles after a
\* forced failure nor a kill or teardown after the end changes it (settle()).
THEOREM OutcomesStand == Spec => FirstOutcomeStands
<1>1. TypeOK /\ [Next]_vars => [\A j \in JobIds : isTerminal(j) => status'[j] = status[j]]_vars
  BY OutcomeStep
<1> QED BY <1>1, TypeCorrect, PTL DEF Spec, FirstOutcomeStands

----------------------------------------------------------------------------
(* No orphans *)

\* A producer outlives the end of its record only when a teardown forced that end.
ForcedOnly ==
    \A j \in JobIds : j \in working /\ isTerminal(j) => status[j] = "failed" /\ told[j]

\* Once the service is being disposed its teardown awaits every record there is.
AllDraining == service # "open" => stored \subseteq draining[NONE]

OrphanInv == TypeOK /\ ForcedOnly /\ AllDraining /\ NoOrphans

LEMMA InitOrphan == Init => OrphanInv
BY InitType DEF Init, OrphanInv, ForcedOnly, AllDraining, NoOrphans, isTerminal, Outcomes

LEMMA StepOrphan == OrphanInv /\ [Next]_vars => OrphanInv'
<1> SUFFICES ASSUME OrphanInv, [Next]_vars PROVE OrphanInv'
  OBVIOUS
<1>0. TypeOK /\ TypeOK' /\ ForcedOnly /\ AllDraining /\ NoOrphans
  BY StepType DEF OrphanInv
<1> USE DEF OrphanInv, ForcedOnly, AllDraining, NoOrphans, isTerminal, agents, waiting
<1>1. ASSUME NEW j \in JobIds, NEW out \in Outcomes, ProducerDone(j, out) PROVE OrphanInv'
  BY <1>0, <1>1 DEF ProducerDone, Records, TypeOK
<1>2. ASSUME NEW j \in JobIds, NEW c \in Owners \cup {NONE}, Start(j, c) PROVE OrphanInv'
  BY <1>0, <1>2 DEF Start, TypeOK, Outcomes
<1>3. ASSUME NEW j \in JobIds, NEW c \in Owners \cup {NONE}, Read(j, c) PROVE OrphanInv'
  BY <1>0, <1>3 DEF Read, TypeOK
<1>4. ASSUME NEW j \in JobIds, NEW c \in Owners \cup {NONE}, Kill(j, c) PROVE OrphanInv'
  BY <1>0, <1>4 DEF Kill, Reaches, TypeOK, Outcomes
<1>5. ASSUME NEW w \in Waits, WaitReturn(w) PROVE OrphanInv'
  <2>1. \A j \in JobIds : told[j] => told'[j]
    BY <1>0, <1>5 DEF WaitReturn, TypeOK
  <2> QED BY <1>0, <1>5, <2>1 DEF WaitReturn, TypeOK
<1>6. ASSUME NEW o \in Owners, DisposeOwned(o) PROVE OrphanInv'
  <2> DEFINE owned == {j \in stored : owner[j] = o}
  <2>1. owned \in SUBSET JobIds /\ owned \subseteq stored /\ CancelForTeardown(owned)
    BY <1>0, <1>6 DEF DisposeOwned, TypeOK
  <2>2. draining'[NONE] = draining[NONE]
    BY <1>0, <1>6, NoneAssumption DEF DisposeOwned, TypeOK
  <2> HIDE DEF owned
  <2>3. AllDraining'
    BY <1>0, <1>6, <2>2 DEF DisposeOwned
  <2>4. ForcedOnly' /\ NoOrphans'
    BY <1>0, <1>6, <2>1, TeardownStep DEF DisposeOwned, Outcomes
  <2> QED BY <1>0, <2>3, <2>4
<1>7. ASSUME NEW o \in Owners, OwnedDisposed(o) PROVE OrphanInv'
  <2>1. draining'[NONE] = draining[NONE]
    BY <1>0, <1>7, NoneAssumption DEF OwnedDisposed, TypeOK
  <2> QED BY <1>0, <1>7, <2>1 DEF OwnedDisposed, TypeOK
<1>8. ASSUME DisposeAll PROVE OrphanInv'
  <2>1. stored \in SUBSET JobIds /\ CancelForTeardown(stored)
    BY <1>0, <1>8 DEF DisposeAll, TypeOK
  <2>2. AllDraining'
    BY <1>0, <1>8 DEF DisposeAll, TypeOK
  <2>3. ForcedOnly' /\ NoOrphans'
    BY <1>0, <1>8, <2>1, TeardownStep DEF DisposeAll, Outcomes
  <2> QED BY <1>0, <2>2, <2>3
<1>9. ASSUME AllDisposed PROVE OrphanInv'
  BY <1>0, <1>9 DEF AllDisposed, TypeOK
<1>10. CASE UNCHANGED <<service, status, stored, working, draining, told>>
  BY <1>0, <1>10
<1> QED
  BY <1>1, <1>2, <1>3, <1>4, <1>5, <1>6, <1>7, <1>8, <1>9, <1>10
     DEF Next, Callers, vars, WaitCall, WaitAbort, WaitTimeout, HumanPrompt, GoesIdle

\* A record is dropped only after its end, and a producer is left working behind a dropped
\* record only if its cancel threw and the teardown had to fail the record
\* (disposeOwned, disposeAll, cancelForTeardown).
THEOREM NothingOrphaned == Spec => []NoOrphans
<1>1. Init => OrphanInv
  BY InitOrphan
<1>2. OrphanInv /\ [Next]_vars => OrphanInv'
  BY StepOrphan
<1>3. OrphanInv => NoOrphans
  BY DEF OrphanInv
<1> QED BY <1>1, <1>2, <1>3, PTL DEF Spec

----------------------------------------------------------------------------
(* Every completion is accounted for, once *)

\* Until it settles, a job is reported exactly when a kill or a teardown took charge of it,
\* and no notice was sent.
FlagInv ==
    \A j \in JobIds : ~isTerminal(j) => (reported[j] <=> told[j]) /\ notices[j] = 0

\* A job that runs on while its service or its owner is torn down is taken charge of.
TakenCharge ==
    \A j \in JobIds : status[j] \in Active =>
        /\ service # "open" => told[j]
        /\ owner[j] # NONE /\ agent[owner[j]] # "live" => told[j]

\* A producer works for a job that was started.
WorkStarted == \A j \in working : status[j] # "none"

ReportInv == FlagInv /\ TakenCharge /\ WorkStarted /\ NoSilentSettlement

LEMMA InitReport == Init => ReportInv
BY DEF Init, ReportInv, FlagInv, TakenCharge, WorkStarted, NoSilentSettlement, isTerminal,
       Outcomes, Active

\* A teardown takes charge of the live jobs it cancels and of no other, and disturbs no wait
\* that already has its answer.
LEMMA TeardownReports ==
    ASSUME TypeOK, NEW S \in SUBSET JobIds, CancelForTeardown(S)
    PROVE  /\ \A j \in JobIds : IF j \in S /\ ~isTerminal(j)
                                THEN reported'[j] /\ told'[j]
                                ELSE /\ reported'[j] = reported[j] /\ told'[j] = told[j]
                                     /\ status'[j] = status[j]
           /\ \A w \in Waits : wait[w] # "waiting" => wait'[w] = wait[w]
<1> DEFINE live == {j \in S : ~isTerminal(j)}
<1>1. PICK throws \in SUBSET live :
        /\ status' = [j \in JobIds |-> IF j \in live THEN Cancelled(j, throws) ELSE status[j]]
        /\ Settle(throws, ClaimedByTeardown(live))
  BY DEF CancelForTeardown
<1>2. told' = [j \in JobIds |-> told[j] \/ j \in live]
  BY DEF CancelForTeardown
<1>3. ASSUME NEW j \in JobIds, j \in live
      PROVE  reported'[j] /\ told'[j]
  BY <1>1, <1>2, <1>3 DEF Settle, ClaimedByTeardown
<1>4. ASSUME NEW j \in JobIds, j \notin live
      PROVE  reported'[j] = reported[j] /\ told'[j] = told[j] /\ status'[j] = status[j]
  <2>1. reported'[j] = (ClaimedByTeardown(live)[j]
                          \/ (j \in {i \in throws : ~isTerminal(i)} /\ Waiters(j) # {}))
    BY <1>1 DEF Settle
  <2>2. ClaimedByTeardown(live)[j] = reported[j] /\ reported[j] \in BOOLEAN
    BY <1>4 DEF ClaimedByTeardown, TypeOK
  <2>3. reported'[j] = reported[j]
    BY <1>4, <2>1, <2>2
  <2>4. told'[j] = told[j]
    BY <1>2, <1>4 DEF TypeOK
  <2> QED BY <1>1, <1>4, <2>3, <2>4
<1>5. \A w \in Waits : wait[w] # "waiting" => wait'[w] = wait[w]
  BY <1>1 DEF Settle
<1> QED BY <1>3, <1>4, <1>5

\* What a settlement by its producer does to the flag, the waits and the notices of a job.
LEMMA ProducerReports ==
    ASSUME TypeOK, NEW j \in JobIds, NEW out \in Outcomes, ProducerDone(j, out)
    PROVE  /\ \A i \in JobIds : i # j => /\ status'[i] = status[i] /\ reported'[i] = reported[i]
                                         /\ notices'[i] = notices[i]
           /\ isTerminal(j)' /\ UNCHANGED <<told, service, agent, owner, waitOn>>
           /\ \A w \in Waits : wait[w] # "waiting" => wait'[w] = wait[w]
           /\ isTerminal(j) => UNCHANGED notices
           /\ ~isTerminal(j) /\ Waiters(j) # {}
                => \E w \in Waits : waitOn'[w] = j /\ wait'[w] \in {"released", "timedOut"}
           /\ notices'[j] \in {notices[j], notices[j] + 1}
           /\ notices'[j] = notices[j] + 1
                => ~isTerminal(j) /\ ~reported[j] /\ Waiters(j) = {} /\ service = "open"
                   /\ owner[j] # NONE
           /\ ~isTerminal(j) /\ ~reported[j] /\ Waiters(j) = {} /\ service = "open" /\ owner[j] # NONE
                => notices'[j] = notices[j] + 1
<1>1. Settle({j}, reported) /\ status' = [status EXCEPT ![j] = Records(j, out)]
  BY DEF ProducerDone
<1>2. \A i \in JobIds : reported'[i] = (reported[i] \/ (i = j /\ ~isTerminal(j) /\ Waiters(i) # {}))
  BY <1>1 DEF Settle
<1>3. \A w \in Waits : wait'[w] = IF wait[w] = "waiting" /\ waitOn[w] = j /\ ~isTerminal(j)
                                  THEN "released" ELSE wait[w]
  BY <1>1 DEF Settle
<1>4. UNCHANGED <<told, service, agent, owner, waitOn>>
  BY <1>1 DEF ProducerDone, Settle
<1>5. isTerminal(j)' /\ \A i \in JobIds : i # j => status'[i] = status[i]
  BY <1>1 DEF isTerminal, Records, TypeOK
<1>6. ~isTerminal(j) /\ Waiters(j) # {}
        => \E w \in Waits : waitOn'[w] = j /\ wait'[w] \in {"released", "timedOut"}
  BY <1>3, <1>4 DEF Waiters, Counted
<1>7. /\ \A i \in JobIds : i # j => notices'[i] = notices[i]
      /\ notices'[j] = IF ~isTerminal(j) /\ service = "open" /\ ~reported'[j] /\ owner[j] # NONE
                       THEN notices[j] + 1 ELSE notices[j]
      /\ notices[j] \in Nat
      /\ isTerminal(j) => UNCHANGED notices
  BY DEF ProducerDone, Notify, TypeOK
<1>8. \A i \in JobIds : i # j => reported'[i] = reported[i]
  BY <1>2 DEF TypeOK
<1>9. /\ \A i \in JobIds : i # j => /\ status'[i] = status[i] /\ reported'[i] = reported[i]
                                    /\ notices'[i] = notices[i]
      /\ \A w \in Waits : wait[w] # "waiting" => wait'[w] = wait[w]
  BY <1>3, <1>5, <1>7, <1>8
<1>10. ~isTerminal(j) => (~reported'[j] <=> ~reported[j] /\ Waiters(j) = {})
  BY <1>2
<1>11. notices[j] + 1 # notices[j]
  BY <1>7
<1> QED BY <1>4, <1>5, <1>6, <1>7, <1>9, <1>10, <1>11

LEMMA StepReport == OrphanInv /\ ReportInv /\ [Next]_vars => ReportInv'
<1> SUFFICES ASSUME OrphanInv, ReportInv, [Next]_vars PROVE ReportInv'
  OBVIOUS
<1>0. TypeOK /\ NoOrphans /\ TypeOK'
  BY StepType DEF OrphanInv
<1> USE DEF ReportInv, isTerminal
<1>1. ASSUME NEW j \in JobIds, NEW out \in Outcomes, ProducerDone(j, out) PROVE ReportInv'
  <2>1. FlagInv'
    BY <1>0, <1>1, ProducerReports DEF FlagInv
  <2>2. TakenCharge'
    BY <1>0, <1>1, ProducerReports DEF TakenCharge, Outcomes, Active
  <2>3. WorkStarted'
    <3>1. working' = working \ {j}
      BY <1>1 DEF ProducerDone
    <3> QED BY <1>0, <1>1, <3>1, ProducerReports DEF WorkStarted, TypeOK
  <2>4. ASSUME NEW i \in JobIds, isTerminal(i)', owner'[i] # NONE
        PROVE  \/ notices'[i] > 0 \/ told'[i]
               \/ \E w \in Waits : waitOn'[w] = i /\ wait'[w] \in {"released", "timedOut"}
    <3>1. CASE i # j \/ isTerminal(i)
      <4>1. isTerminal(i) /\ owner[i] # NONE
        BY <1>0, <1>1, <2>4, <3>1, ProducerReports
      <4>2. \/ notices[i] > 0 \/ told[i]
            \/ \E w \in Waits : waitOn[w] = i /\ wait[w] \in {"released", "timedOut"}
        BY <4>1 DEF NoSilentSettlement
      <4>3. notices'[i] = notices[i] /\ told'[i] = told[i] /\ waitOn' = waitOn
        BY <1>0, <1>1, <3>1, ProducerReports
      <4>4. \A w \in Waits : wait[w] # "waiting" => wait'[w] = wait[w]
        BY <1>0, <1>1, ProducerReports
      <4> QED BY <4>2, <4>3, <4>4
    <3>2. CASE i = j /\ ~isTerminal(i)
      <4>1. status[j] \in Active
        <5>1. j \in working /\ status[j] # "none"
          BY <1>1 DEF ProducerDone, WorkStarted
        <5> QED BY <1>0, <3>2, <5>1 DEF TypeOK
      <4>2. CASE Waiters(j) # {}
        BY <1>0, <1>1, <3>2, <4>2, ProducerReports
      <4>3. CASE reported[j] \/ service # "open"
        BY <1>0, <1>1, <3>2, <4>1, <4>3, ProducerReports DEF FlagInv, TakenCharge
      <4>4. CASE Waiters(j) = {} /\ ~reported[j] /\ service = "open"
        <5>1. owner[j] # NONE
          BY <1>0, <1>1, <2>4, <3>2, ProducerReports
        <5>2. notices'[j] = notices[j] + 1 /\ notices[j] \in Nat
          BY <1>0, <1>1, <3>2, <4>4, <5>1, ProducerReports DEF TypeOK
        <5> QED BY <3>2, <5>2
      <4> QED BY <4>2, <4>3, <4>4
    <3> QED BY <3>1, <3>2
  <2>5. NoSilentSettlement'
    BY <2>4 DEF NoSilentSettlement
  <2> QED BY <2>1, <2>2, <2>3, <2>5
<1>2. ASSUME NEW j \in JobIds, NEW c \in Owners \cup {NONE}, Start(j, c) PROVE ReportInv'
  <2>1. /\ status' = [status EXCEPT ![j] = "running"] /\ owner' = [owner EXCEPT ![j] = c]
        /\ working' = working \cup {j} /\ status[j] = "none"
        /\ service = "open" /\ (c # NONE => agent[c] = "live")
        /\ UNCHANGED <<service, agent, reported, waitOn, wait, notices, told>>
    BY <1>2 DEF Start, agents, waiting
  <2>2. FlagInv' /\ WorkStarted'
    BY <1>0, <2>1 DEF FlagInv, WorkStarted, TypeOK, Outcomes
  <2>3. TakenCharge'
    BY <1>0, <2>1 DEF TakenCharge, TypeOK
  <2>4. NoSilentSettlement'
    BY <1>0, <2>1 DEF NoSilentSettlement, TypeOK, Outcomes
  <2> QED BY <2>2, <2>3, <2>4
<1>3. ASSUME NEW j \in JobIds, NEW c \in Owners \cup {NONE}, Read(j, c) \/ Kill(j, c)
      PROVE ReportInv'
  <2>1. /\ reported' = [reported EXCEPT ![j] = TRUE] /\ told' = [told EXCEPT ![j] = TRUE]
        /\ UNCHANGED <<service, agent, owner, working, waitOn, wait, notices>>
    BY <1>3 DEF Read, Kill, agents, waiting
  <2>2. \A i \in JobIds : /\ reported'[i] = IF i = j THEN TRUE ELSE reported[i]
                          /\ told'[i] = IF i = j THEN TRUE ELSE told[i]
    BY <1>0, <2>1 DEF TypeOK
  <2>3. \A i \in JobIds : \/ status'[i] = status[i]
                          \/ i = j /\ ~isTerminal(i) /\ status'[i] = "stopping"
    BY <1>0, <1>3 DEF Read, Kill, TypeOK
  <2>4. FlagInv'
    BY <2>1, <2>2, <2>3 DEF FlagInv
  <2>5. TakenCharge'
    BY <2>1, <2>2, <2>3 DEF TakenCharge
  <2>6. WorkStarted'
    BY <1>0, <2>1, <2>3 DEF WorkStarted, TypeOK
  <2>7. NoSilentSettlement'
    BY <2>1, <2>2, <2>3 DEF NoSilentSettlement, Outcomes
  <2> QED BY <2>4, <2>5, <2>6, <2>7
<1>4. ASSUME NEW w \in Waits, NEW j \in JobIds, NEW c \in Owners \cup {NONE},
             WaitCall(w, j, c)
      PROVE ReportInv'
  <2>1. UNCHANGED <<service, agent, status, owner, reported, working, notices, told>>
    BY <1>4 DEF WaitCall, agents
  <2>2. \A v \in Waits : wait[v] \in {"released", "timedOut"}
                           => wait'[v] = wait[v] /\ waitOn'[v] = waitOn[v]
    BY <1>0, <1>4 DEF WaitCall, TypeOK
  <2> QED BY <2>1, <2>2 DEF FlagInv, TakenCharge, WorkStarted, NoSilentSettlement
<1>5. ASSUME NEW w \in Waits, WaitReturn(w) PROVE ReportInv'
  <2>1. /\ UNCHANGED <<service, agent, status, owner, working, notices, waitOn>>
        /\ \A v \in Waits : v # w => wait'[v] = wait[v]
    BY <1>0, <1>5 DEF WaitReturn, agents, TypeOK
  <2>2. \A i \in JobIds : \/ reported'[i] = reported[i] /\ told'[i] = told[i]
                          \/ isTerminal(i) /\ told'[i]
    <3>1. CASE wait[w] # "aborted" /\ isTerminal(waitOn[w])
      <4>1. /\ reported' = [reported EXCEPT ![waitOn[w]] = TRUE]
            /\ told' = [told EXCEPT ![waitOn[w]] = TRUE]
        BY <1>5, <3>1 DEF WaitReturn
      <4>2. \A i \in JobIds : /\ reported'[i] = IF i = waitOn[w] THEN TRUE ELSE reported[i]
                              /\ told'[i] = IF i = waitOn[w] THEN TRUE ELSE told[i]
        BY <1>0, <4>1 DEF TypeOK
      <4> QED BY <3>1, <4>2
    <3>2. CASE ~(wait[w] # "aborted" /\ isTerminal(waitOn[w]))
      BY <1>5, <3>2 DEF WaitReturn
    <3> QED BY <3>1, <3>2
  <2>3. \A i \in JobIds : told[i] => told'[i]
    BY <1>0, <2>2 DEF TypeOK
  <2>4. \A i \in JobIds : isTerminal(i) /\ waitOn[w] = i /\ wait[w] \in {"released", "timedOut"}
                             => told'[i]
    BY <1>0, <1>5 DEF WaitReturn, TypeOK
  <2>5. FlagInv'
    BY <2>1, <2>2 DEF FlagInv
  <2>6. TakenCharge' /\ WorkStarted'
    BY <1>0, <2>1, <2>3 DEF TakenCharge, WorkStarted, TypeOK
  <2>7. NoSilentSettlement'
    BY <2>1, <2>3, <2>4 DEF NoSilentSettlement
  <2> QED BY <2>5, <2>6, <2>7
<1>6. ASSUME NEW S \in SUBSET JobIds, CancelForTeardown(S), UNCHANGED <<owner, working>>,
             \A j \in JobIds : status[j] \in Active /\ service' # "open" /\ service = "open" => j \in S,
             \A j \in JobIds : status[j] \in Active /\ owner[j] # NONE
                                 /\ agent'[owner[j]] # "live" /\ agent[owner[j]] = "live" => j \in S,
             S \subseteq stored
      PROVE ReportInv'
  <2>1. /\ \A j \in JobIds : IF j \in S /\ ~isTerminal(j)
                             THEN reported'[j] /\ told'[j]
                             ELSE /\ reported'[j] = reported[j] /\ told'[j] = told[j]
                                  /\ status'[j] = status[j]
        /\ \A w \in Waits : wait[w] # "waiting" => wait'[w] = wait[w]
    BY <1>0, <1>6, TeardownReports
  <2>2. UNCHANGED <<waitOn, notices>> /\ \A j \in S : status'[j] # "none"
    BY <1>0, <1>6, TeardownStep
  <2>3. FlagInv'
    BY <2>1, <2>2 DEF FlagInv
  <2>4. TakenCharge'
    BY <1>0, <1>6, <2>1 DEF TakenCharge, Active, Outcomes
  <2>5. WorkStarted'
    BY <1>0, <1>6, <2>1, <2>2 DEF WorkStarted, TypeOK
  <2>6. NoSilentSettlement'
    BY <1>6, <2>1, <2>2 DEF NoSilentSettlement
  <2> QED BY <2>3, <2>4, <2>5, <2>6
<1>7. \A j \in JobIds : status[j] \in Active => j \in stored
  BY <1>0 DEF NoOrphans, Active, Outcomes
<1>8. ASSUME NEW o \in Owners, DisposeOwned(o) PROVE ReportInv'
  <2> DEFINE S == {j \in stored : owner[j] = o}
  <2>1. S \in SUBSET JobIds /\ S \subseteq stored /\ CancelForTeardown(S)
    BY <1>0, <1>8 DEF DisposeOwned, TypeOK
  <2>2. UNCHANGED <<service, owner, working>> /\ agent' = [agent EXCEPT ![o] = "cleaning"]
    BY <1>8 DEF DisposeOwned
  <2>3. \A j \in JobIds : status[j] \in Active /\ owner[j] # NONE
                            /\ agent'[owner[j]] # "live" /\ agent[owner[j]] = "live" => j \in S
    BY <1>0, <1>7, <2>2 DEF TypeOK
  <2> HIDE DEF S
  <2> QED BY <1>6, <2>1, <2>2, <2>3
<1>9. ASSUME DisposeAll PROVE ReportInv'
  <2>1. stored \in SUBSET JobIds /\ CancelForTeardown(stored) /\ UNCHANGED <<agent, owner, working>>
    BY <1>0, <1>9 DEF DisposeAll, TypeOK
  <2> QED BY <1>6, <1>7, <2>1
<1>10. ASSUME UNCHANGED <<status, owner, reported, working, waitOn, wait, notices, told>>,
              service' = "open" => service = "open",
              service' # "open" => service # "open",
              \A o \in Owners : agent'[o] # "live" => agent[o] # "live"
       PROVE ReportInv'
  <2>1. TakenCharge'
    BY <1>0, <1>10 DEF TakenCharge, TypeOK
  <2> QED BY <1>10, <2>1 DEF FlagInv, WorkStarted, NoSilentSettlement
<1>11. ASSUME NEW o \in Owners, OwnedDisposed(o) PROVE ReportInv'
  BY <1>0, <1>10, <1>11 DEF OwnedDisposed, waiting, TypeOK
<1>12. ASSUME NEW o \in Owners, HumanPrompt(o) \/ GoesIdle(o) PROVE ReportInv'
  BY <1>10, <1>12 DEF HumanPrompt, GoesIdle, waiting
<1>13. ASSUME AllDisposed PROVE ReportInv'
  BY <1>10, <1>13 DEF AllDisposed, waiting, agents
<1>14. ASSUME UNCHANGED vars PROVE ReportInv'
  BY <1>10, <1>14 DEF vars, waiting, agents
<1>15. ASSUME NEW w \in Waits, WaitAbort(w) \/ WaitTimeout(w) PROVE ReportInv'
  <2>1. UNCHANGED <<service, agent, status, owner, reported, working, notices, told>>
    BY <1>15 DEF WaitAbort, WaitTimeout, agents
  <2>2. \A v \in Waits : wait[v] \in {"released", "timedOut"}
                           => wait'[v] = wait[v] /\ waitOn'[v] = waitOn[v]
    BY <1>0, <1>15 DEF WaitAbort, WaitTimeout, TypeOK
  <2> QED BY <2>1, <2>2 DEF FlagInv, TakenCharge, WorkStarted, NoSilentSettlement
<1> HIDE DEF ReportInv
<1> QED
  BY <1>1, <1>2, <1>3, <1>4, <1>5, <1>8, <1>9, <1>11, <1>12, <1>13, <1>14, <1>15 DEF Next, Callers

\* No completion is lost for any number of jobs, owners and waits: a settled job was
\* announced, or taken charge of, or is in the hands of a wait about to return it, however
\* its settlement races timeouts, aborts, kills and teardowns.
THEOREM NothingSilent == Spec => []NoSilentSettlement
<1>1. Init => OrphanInv /\ ReportInv
  BY InitOrphan, InitReport
<1>2. OrphanInv /\ ReportInv /\ [Next]_vars => OrphanInv' /\ ReportInv'
  BY StepOrphan, StepReport
<1>3. ReportInv => NoSilentSettlement
  BY DEF ReportInv
<1> QED BY <1>1, <1>2, <1>3, PTL DEF Spec

\* A notice is sent at most once per job, never when a wait counts on the outcome or
\* somebody took charge of it, and never into an owner or service being torn down.
THEOREM NoticesUnclaimed == Spec => NoticeOnlyIfUnclaimed
<1> DEFINE Announces == \A j \in JobIds : notices'[j] > notices[j] =>
         /\ notices[j] = 0 /\ ~told'[j] /\ Waiters(j) = {}
         /\ agent'[owner[j]] = "live" /\ service' = "open"
<1>1. ASSUME OrphanInv, ReportInv, [Next]_vars PROVE [Announces]_vars
  <2>0. TypeOK
    BY <1>1 DEF OrphanInv
  <2>1. ASSUME NEW j \in JobIds, NEW out \in Outcomes, ProducerDone(j, out) PROVE Announces
    <3> SUFFICES ASSUME NEW i \in JobIds, notices'[i] > notices[i]
                 PROVE  /\ notices[i] = 0 /\ ~told'[i] /\ Waiters(i) = {}
                        /\ agent'[owner[i]] = "live" /\ service' = "open"
      OBVIOUS
    <3>1. notices[i] \in Nat
      BY <2>0 DEF TypeOK
    <3>2. i = j
      BY <2>0, <2>1, <3>1, ProducerReports
    <3>3. notices'[j] = notices[j] + 1
      BY <2>0, <2>1, <3>1, <3>2, ProducerReports
    <3>4. /\ ~isTerminal(j) /\ ~reported[j] /\ Waiters(j) = {} /\ service = "open"
          /\ owner[j] # NONE /\ UNCHANGED <<told, service, agent>>
      BY <2>0, <2>1, <3>3, ProducerReports
    <3>5. ~told[j] /\ notices[j] = 0
      BY <1>1, <3>4 DEF ReportInv, FlagInv
    <3>6. status[j] \in Active
      BY <1>1, <2>0, <2>1, <3>4 DEF ReportInv, WorkStarted, ProducerDone, isTerminal, TypeOK
    <3>7. agent[owner[j]] = "live"
      BY <1>1, <3>4, <3>5, <3>6 DEF ReportInv, TakenCharge
    <3> QED BY <3>2, <3>4, <3>5, <3>7
  <2>2. ASSUME UNCHANGED notices PROVE Announces
    BY <2>0, <2>2 DEF TypeOK
  <2>3. ASSUME NEW o \in Owners, DisposeOwned(o) PROVE Announces
    BY <2>2, <2>3 DEF DisposeOwned, CancelForTeardown
  <2>4. ASSUME DisposeAll PROVE Announces
    BY <2>2, <2>4 DEF DisposeAll, CancelForTeardown
  <2> HIDE DEF Announces
  <2> QED
    BY <1>1, <2>1, <2>2, <2>3, <2>4
       DEF Next, Callers, vars, Start, Read, Kill, WaitCall, WaitAbort, WaitTimeout, WaitReturn,
           OwnedDisposed, HumanPrompt, GoesIdle, AllDisposed
<1>2. Init => OrphanInv /\ ReportInv
  BY InitOrphan, InitReport
<1>3. OrphanInv /\ ReportInv /\ [Next]_vars => OrphanInv' /\ ReportInv'
  BY StepOrphan, StepReport
<1> QED BY <1>1, <1>2, <1>3, PTL DEF Spec, NoticeOnlyIfUnclaimed
=============================================================================
