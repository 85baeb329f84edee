-------------------------------- MODULE Jobs --------------------------------
(***************************************************************************)
(* Background jobs of the harness: the process-local registry              *)
(* packages/jobs/jobs-local/src/index.ts (LocalJobRegistry) and the        *)
(* completion notices and job tools of packages/jobs/tool-jobs/src/index.ts*)
(*                                                                         *)
(* Everything between two awaits is one action.  Producers (the done       *)
(* promise and the cancel hook) and the owner agents (busy or idle, the    *)
(* claim of human input) are external: they act at any time.  One job      *)
(* controller stays attached while the service is open, and no call reaches*)
(* the registry once it is being disposed (its dependents unload with it). *)
(***************************************************************************)
EXTENDS Naturals, FiniteSets

CONSTANTS
    JobIds,      \* ids, each issued once
    Owners,      \* agents that own jobs
    NONE,        \* the owner of an unowned job, and the caller without an agent
    Waits,       \* calls of wait(), each made once
    MaxActive,   \* maxConcurrentJobsPerOwner
    WakeBudget   \* maxConsecutiveWakes

ASSUME NoneAssumption == NONE \notin Owners \cup JobIds
ASSUME BoundsAssumption == MaxActive \in Nat \ {0} /\ WakeBudget \in Nat

VARIABLES
    service,   \* "open", "closing" (disposeAll awaits) or "closed"
    agent,     \* owner |-> "live", "cleaning" (disposeOwned awaits) or "gone"
    busy,      \* owner |-> its status is not 'idle'
    spent,     \* owner |-> spentWakes
    status,    \* id |-> JobStatus, "none" before start()
    owner,     \* id |-> owner of the record
    reported,  \* id |-> the flag of the record
    stored,    \* ids in the store
    working,   \* ids whose done promise is pending
    waitOn,    \* wait |-> id it waits for, NONE before the call
    wait,      \* wait |-> its place: "new", "waiting", "released", "timedOut", "aborted", "done"
    draining,  \* owner or NONE (disposeAll) |-> records whose settlement its teardown awaits
    notices,   \* id |-> notices sent to the owner (history)
    told       \* id |-> a kill, wait, read or teardown took charge of its outcome (history)

agents == <<agent, busy, spent>>
waiting == <<waitOn, wait>>
vars == <<service, agents, status, owner, reported, stored, working, waiting, draining, notices, told>>

\* "completed" also stands for "killed", which the registry treats alike.
Outcomes == {"completed", "failed"}
Active == {"running", "stopping"}
isTerminal(j) == status[j] \in Outcomes

TypeOK ==
    /\ service \in {"open", "closing", "closed"}
    /\ agent \in [Owners -> {"live", "cleaning", "gone"}]
    /\ busy \in [Owners -> BOOLEAN] /\ spent \in [Owners -> 0..WakeBudget]
    /\ status \in [JobIds -> Outcomes \cup Active \cup {"none"}]
    /\ owner \in [JobIds -> Owners \cup {NONE}]
    /\ reported \in [JobIds -> BOOLEAN]
    /\ stored \in SUBSET JobIds /\ working \in SUBSET JobIds
    /\ waitOn \in [Waits -> JobIds \cup {NONE}]
    /\ wait \in [Waits -> {"new", "waiting", "released", "timedOut", "aborted", "done"}]
    /\ draining \in [Owners \cup {NONE} -> SUBSET JobIds]
    /\ notices \in [JobIds -> Nat]
    /\ told \in [JobIds -> BOOLEAN]

Init ==
    /\ service = "open"
    /\ agent = [o \in Owners |-> "live"] /\ busy = [o \in Owners |-> FALSE]
    /\ spent = [o \in Owners |-> 0]
    /\ status = [j \in JobIds |-> "none"] /\ owner = [j \in JobIds |-> NONE]
    /\ reported = [j \in JobIds |-> FALSE]
    /\ stored = {} /\ working = {}
    /\ waitOn = [w \in Waits |-> NONE] /\ wait = [w \in Waits |-> "new"]
    /\ draining = [o \in Owners \cup {NONE} |-> {}]
    /\ notices = [j \in JobIds |-> 0] /\ told = [j \in JobIds |-> FALSE]

----------------------------------------------------------------------------
(* Settlement *)

\* Mutant: an aborted wait is counted until its finally.
CountedUntilFinally(w, j) == waitOn[w] = j /\ wait[w] \in {"waiting", "timedOut", "aborted"}

\* job.waiters: a wait is counted until its finally, or until its abort.
Counted(w, j) == waitOn[w] = j /\ wait[w] \in {"waiting", "timedOut"}
Waiters(j) == {w \in Waits : Counted(w, j)}

\* Mutant: the last outcome is recorded.
RecordsLast(j, outcome) == outcome

\* settle() records the first outcome only.
Records(j, outcome) == IF isTerminal(j) THEN status[j] ELSE outcome

\* settle() of the jobs of S: a counted wait claims the report, and the live waits are
\* released.  `flagged' is the reported flag at the call.
Settle(S, flagged) ==
    LET new == {j \in S : ~isTerminal(j)}
    IN  /\ reported' = [j \in JobIds |-> flagged[j] \/ (j \in new /\ Waiters(j) # {})]
        /\ wait' = [w \in Waits |->
                      IF wait[w] = "waiting" /\ waitOn[w] \in new THEN "released" ELSE wait[w]]
        /\ UNCHANGED waitOn

\* The onJobDone listener of tool-jobs: an idle owner with budget is woken, else the notice
\* is injected into its inbox.
Notify(j) ==
    LET o == owner[j]
    IN  /\ notices' = [notices EXCEPT ![j] = @ + 1]
        /\ IF ~busy[o] /\ spent[o] < WakeBudget
           THEN /\ spent' = [spent EXCEPT ![o] = @ + 1]
                /\ busy' = [busy EXCEPT ![o] = TRUE]
           ELSE UNCHANGED <<spent, busy>>

\* The done promise of a producer settles.  Listeners see the flag of the settled record.
ProducerDone(j, outcome) ==
    /\ j \in working
    /\ working' = working \ {j}
    /\ status' = [status EXCEPT ![j] = Records(j, outcome)]
    /\ Settle({j}, reported)
    /\ IF ~isTerminal(j) /\ service = "open" /\ ~reported'[j] /\ owner[j] # NONE
       THEN Notify(j)
       ELSE UNCHANGED <<notices, spent, busy>>
    /\ UNCHANGED <<service, agent, owner, stored, draining, told>>

----------------------------------------------------------------------------
(* Calls of the registry *)

activeTaskCount(o) == Cardinality({j \in stored : owner[j] = o /\ status[j] \in Active})

\* Callers are agents that still exist, and the host (NONE).
Caller(c) == service = "open" /\ (c # NONE => agent[c] # "gone")

\* assertAccess and expect.
Reaches(c, j) == Caller(c) /\ j \in stored /\ owner[j] \in {NONE, c}

\* start(): the owner must be live, so that its cleanup effect can be attached.
Start(j, o) ==
    /\ service = "open" /\ status[j] = "none"
    /\ o # NONE => agent[o] = "live"
    /\ activeTaskCount(o) < MaxActive
    /\ status' = [status EXCEPT ![j] = "running"]
    /\ owner' = [owner EXCEPT ![j] = o]
    /\ stored' = stored \cup {j} /\ working' = working \cup {j}
    /\ UNCHANGED <<service, agents, reported, waiting, draining, notices, told>>

\* read(): a terminal read takes charge of the outcome; any other changes nothing.
Read(j, c) ==
    /\ Reaches(c, j) /\ isTerminal(j)
    /\ reported' = [reported EXCEPT ![j] = TRUE]
    /\ told' = [told EXCEPT ![j] = TRUE]
    /\ UNCHANGED <<service, agents, status, owner, stored, working, waiting, draining, notices>>

\* kill(): cancel first, so a producer that throws leaves everything as it was.
Kill(j, c) ==
    /\ Reaches(c, j)
    /\ status' = [status EXCEPT ![j] = IF isTerminal(j) THEN @ ELSE "stopping"]
    /\ reported' = [reported EXCEPT ![j] = TRUE]
    /\ told' = [told EXCEPT ![j] = TRUE]
    /\ UNCHANGED <<service, agents, owner, stored, working, waiting, draining, notices>>

\* wait() of a live job registers; of a terminal one it goes straight to its return.
WaitCall(w, j, c) ==
    /\ wait[w] = "new" /\ Reaches(c, j)
    /\ waitOn' = [waitOn EXCEPT ![w] = j]
    /\ wait' = [wait EXCEPT ![w] = IF isTerminal(j) THEN "released" ELSE "waiting"]
    /\ UNCHANGED <<service, agents, status, owner, reported, stored, working, draining, notices,
                   told>>

\* The deadline fires: the promise resolves, the wait stays counted until its finally.
WaitTimeout(w) ==
    /\ wait[w] = "waiting"
    /\ wait' = [wait EXCEPT ![w] = "timedOut"]
    /\ UNCHANGED <<service, agents, status, owner, reported, stored, working, waitOn, draining,
                   notices, told>>

\* The caller's signal fires: uncounted in the same tick, and the promise rejects.
WaitAbort(w) ==
    /\ wait[w] = "waiting"
    /\ wait' = [wait EXCEPT ![w] = "aborted"]
    /\ UNCHANGED <<service, agents, status, owner, reported, stored, working, waitOn, draining,
                   notices, told>>

\* The continuation of wait(): the finally, then the snapshot or the rejection.
WaitReturn(w) ==
    /\ wait[w] \in {"released", "timedOut", "aborted"}
    /\ wait' = [wait EXCEPT ![w] = "done"]
    /\ IF wait[w] # "aborted" /\ isTerminal(waitOn[w])
       THEN /\ reported' = [reported EXCEPT ![waitOn[w]] = TRUE]
            /\ told' = [told EXCEPT ![waitOn[w]] = TRUE]
       ELSE UNCHANGED <<reported, told>>
    /\ UNCHANGED <<service, agents, status, owner, stored, working, waitOn, draining, notices>>

----------------------------------------------------------------------------
(* Teardown *)

\* Mutant: the teardown leaves the report unclaimed.
UnclaimedByTeardown(live) == reported

\* The report of a job cancelled by a teardown is claimed before its producer is called.
ClaimedByTeardown(live) == [j \in JobIds |-> reported[j] \/ j \in live]

\* Mutant: a job whose cancel throws keeps its status.
LeftByThrow(j, throws) == IF j \in throws THEN status[j] ELSE "stopping"

\* A live job is stopping, or failed at once when its cancel throws.
Cancelled(j, throws) == IF j \in throws THEN "failed" ELSE "stopping"

\* cancelForTeardown of the jobs of S.  The forced settlements are reported, so their
\* listeners send nothing.
CancelForTeardown(S) ==
    LET live == {j \in S : ~isTerminal(j)}
    IN  /\ \E throws \in SUBSET live :
             /\ status' = [j \in JobIds |-> IF j \in live THEN Cancelled(j, throws) ELSE status[j]]
             /\ Settle(throws, ClaimedByTeardown(live))
        /\ told' = [j \in JobIds |-> told[j] \/ j \in live]
        /\ UNCHANGED <<notices, spent, busy>>

\* disposeOwned: the cleanup effect of the owner's scope; a disposing scope takes no new one.
DisposeOwned(o) ==
    /\ agent[o] = "live"
    /\ agent' = [agent EXCEPT ![o] = "cleaning"]
    /\ LET owned == {j \in stored : owner[j] = o}
       IN  draining' = [draining EXCEPT ![o] = owned] /\ CancelForTeardown(owned)
    /\ UNCHANGED <<service, owner, stored, working>>

\* Mutant: the records are dropped without awaiting the settlements.
OwnedDroppedAtOnce(o) ==
    /\ agent[o] = "cleaning"
    /\ agent' = [agent EXCEPT ![o] = "gone"]
    /\ stored' = stored \ draining[o]
    /\ draining' = [draining EXCEPT ![o] = {}]
    /\ UNCHANGED <<service, busy, spent, status, owner, reported, working, waiting, notices, told>>

\* ... which awaits the settlements, then drops the records.
OwnedDisposed(o) ==
    /\ agent[o] = "cleaning" /\ \A j \in draining[o] : isTerminal(j)
    /\ agent' = [agent EXCEPT ![o] = "gone"]
    /\ stored' = stored \ draining[o]
    /\ draining' = [draining EXCEPT ![o] = {}]
    /\ UNCHANGED <<service, busy, spent, status, owner, reported, working, waiting, notices, told>>

\* disposeAll: listeners are closed before the first cancel.
DisposeAll ==
    /\ service = "open" /\ service' = "closing"
    /\ draining' = [draining EXCEPT ![NONE] = stored]
    /\ CancelForTeardown(stored)
    /\ UNCHANGED <<agent, owner, stored, working>>

AllDisposed ==
    /\ service = "closing" /\ \A j \in draining[NONE] : isTerminal(j)
    /\ service' = "closed" /\ stored' = {}
    /\ draining' = [draining EXCEPT ![NONE] = {}]
    /\ UNCHANGED <<agents, status, owner, reported, working, waiting, notices, told>>

----------------------------------------------------------------------------
(* Owner agents *)

\* A human prompt: the owner is busy and its claim refills the wake budget.
HumanPrompt(o) ==
    /\ agent[o] = "live"
    /\ busy' = [busy EXCEPT ![o] = TRUE] /\ spent' = [spent EXCEPT ![o] = 0]
    /\ UNCHANGED <<service, agent, status, owner, reported, stored, working, waiting, draining,
                   notices, told>>

GoesIdle(o) ==
    /\ busy[o]
    /\ busy' = [busy EXCEPT ![o] = FALSE]
    /\ UNCHANGED <<service, agent, spent, status, owner, reported, stored, working, waiting,
                   draining, notices, told>>

Callers ==
    \/ \E j \in JobIds, c \in Owners \cup {NONE} : Start(j, c) \/ Read(j, c) \/ Kill(j, c)
    \/ \E w \in Waits, j \in JobIds, c \in Owners \cup {NONE} : WaitCall(w, j, c)
    \/ \E w \in Waits : WaitAbort(w)

Next ==
    \/ Callers
    \/ \E j \in JobIds, out \in Outcomes : ProducerDone(j, out)
    \/ \E w \in Waits : WaitTimeout(w) \/ WaitReturn(w)
    \/ \E o \in Owners : DisposeOwned(o) \/ OwnedDisposed(o) \/ HumanPrompt(o) \/ GoesIdle(o)
    \/ DisposeAll \/ AllDisposed

Spec == Init /\ [][Next]_vars

\* A job that was told to stop settles (a compliant producer), timers fire and continuations run.
Fairness ==
    /\ \A j \in JobIds : WF_vars(status[j] = "stopping" /\ \E out \in Outcomes : ProducerDone(j, out))
    /\ \A w \in Waits : WF_vars(WaitTimeout(w)) /\ WF_vars(WaitReturn(w))
    /\ \A o \in Owners : WF_vars(OwnedDisposed(o))
    /\ WF_vars(AllDisposed)

FairSpec == Spec /\ Fairness

----------------------------------------------------------------------------
(* Properties *)

\* No completion is lost: when an owned job has settled, its owner was sent a notice, or
\* somebody killed or tore it down, or a wait has returned its outcome or is about to
\* (index.ts settle, wait: timeouts, aborts and settlements in one tick).
NoSilentSettlement ==
    \A j \in JobIds : isTerminal(j) /\ owner[j] # NONE =>
        \/ notices[j] > 0
        \/ told[j]
        \/ \E w \in Waits : waitOn[w] = j /\ wait[w] \in {"released", "timedOut"}

\* No completion is announced twice, to an owner that has taken charge of it or is about to,
\* or into an owner or a service that is being torn down.
NoticeOnlyIfUnclaimed ==
    [][\A j \in JobIds : notices'[j] > notices[j] =>
         /\ notices[j] = 0 /\ ~told'[j] /\ Waiters(j) = {}
         /\ agent'[owner[j]] = "live" /\ service' = "open"]_vars

\* The first outcome stands, against a producer that settles after a forced failure.
FirstOutcomeStands ==
    [][\A j \in JobIds : isTerminal(j) => status'[j] = status[j]]_vars

\* A record leaves the store only when it is terminal, and its producer has stopped unless
\* its cancel threw and the teardown had to fail the record.
NoOrphans ==
    \A j \in JobIds : status[j] # "none" /\ j \notin stored =>
        /\ isTerminal(j)
        /\ j \in working => status[j] = "failed" /\ told[j]

\* Disposal of an owner or of the service ends, whatever its jobs were doing, and every wait
\* returns.
TeardownEnds ==
    /\ \A o \in Owners : agent[o] = "cleaning" ~> agent[o] = "gone"
    /\ service = "closing" ~> service = "closed"
    /\ \A w \in Waits : wait[w] = "waiting" ~> wait[w] = "done"
=============================================================================
