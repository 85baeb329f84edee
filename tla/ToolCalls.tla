----------------------------- MODULE ToolCalls -----------------------------
(***************************************************************************)
(* The scheduler of one assistant step's tool calls:                       *)
(* packages/core/agent-loop/src/tool-calls.ts (executeToolCalls, runGroup) *)
(* and the repair of its part of the log after a crash                     *)
(* (packages/core/session/src/repair.ts, interruptedTurnClosers).          *)
(*                                                                         *)
(* Calls are numbered in model order.  The tool registry (prepare,         *)
(* dispatch, finalize, finish, executionMode) is external: each of its     *)
(* promises settles in any order with any of the answers the scheduler     *)
(* tells apart, and the mode of a call may differ each time it is read.    *)
(***************************************************************************)
EXTENDS Naturals, FiniteSets, Sequences

CONSTANTS
    N,           \* number of tool calls of the assistant message
    MaxParallel  \* maxParallelToolCalls

ASSUME NAssumption == N \in Nat \ {0}
ASSUME MaxAssumption == MaxParallel \in Nat \ {0}

Calls == 1..N
Modes == {"parallel", "exclusive"}

VARIABLES
    pc,           \* place of the scheduler
    signal,       \* the step's AbortSignal is aborted
    aborted,      \* runGroup's own flag, read from the signal at its checks
    failure,      \* schedulerFailure is set
    mode,         \* mode of the current group
    first, last,  \* the group is the calls first..last
    nextToStart,  \* next call of the group to start
    committed,    \* next call whose result is to be committed
    slot,         \* settled dispatch awaiting its commit: "none", "post" or "final"
    body,         \* dispatched body: "off", "running", "settled"
    inFlight,     \* calls of the inFlight map
    ranAs,        \* mode a call was started under
    log,          \* tool/call and tool/result events of the step
    outcome       \* of executeToolCalls: "none", "returned", "aborted", "failed", "repaired"

group == <<mode, first, last>>
vars == <<pc, signal, aborted, failure, group, nextToStart, committed, slot, body, inFlight,
          ranAs, log, outcome>>

CallEvent(i) == [type |-> "tool/call", call |-> i, kind |-> "call"]
ResultEvent(i, kind) == [type |-> "tool/result", call |-> i, kind |-> kind]

TypeOK ==
    /\ pc \in {"classify", "fill", "prepare", "commit", "finalize", "race", "drain", "done"}
    /\ signal \in BOOLEAN /\ aborted \in BOOLEAN /\ failure \in BOOLEAN
    /\ mode \in Modes
    /\ first \in 1..(N + 1) /\ last \in 0..N
    /\ nextToStart \in 1..(N + 1) /\ committed \in 1..(N + 1)
    /\ slot \in [Calls -> {"none", "post", "final"}]
    /\ body \in [Calls -> {"off", "running", "settled"}]
    /\ inFlight \in SUBSET Calls
    /\ ranAs \in [Calls -> Modes \cup {"none"}]
    /\ outcome \in {"none", "returned", "aborted", "failed", "repaired"}

Init ==
    /\ pc = "classify" /\ signal = FALSE /\ aborted = FALSE /\ failure = FALSE
    /\ mode = "parallel" /\ first = 1 /\ last = 0
    /\ nextToStart = 1 /\ committed = 1
    /\ slot = [i \in Calls |-> "none"]
    /\ body = [i \in Calls |-> "off"]
    /\ inFlight = {}
    /\ ranAs = [i \in Calls |-> "none"]
    /\ log = <<>> /\ outcome = "none"

----------------------------------------------------------------------------
(* executeToolCalls: one group after another *)

\* Mutant: the group of an exclusive call takes in the calls after it.
ClassifyToEnd(m) ==
    /\ pc = "classify"
    /\ mode' = m /\ first' = nextToStart /\ last' = N
    /\ aborted' = signal
    /\ pc' = "fill"
    /\ UNCHANGED <<signal, failure, nextToStart, committed, slot, body, inFlight, ranAs, log, outcome>>

\* A group is the maximal run of calls that may run together; an exclusive call is alone.
Classify(m) ==
    /\ pc = "classify"
    /\ mode' = m /\ first' = nextToStart
    /\ last' = IF m = "parallel" THEN N ELSE nextToStart
    /\ aborted' = signal
    /\ pc' = "fill"
    /\ UNCHANGED <<signal, failure, nextToStart, committed, slot, body, inFlight, ranAs, log, outcome>>

----------------------------------------------------------------------------
(* runGroup *)

\* The condition of fillPool's loop.
PoolOpen ==
    /\ ~aborted
    /\ nextToStart <= last
    /\ Cardinality(inFlight) < MaxParallel

\* fillPool starts the next call; after the first one of a parallel group only a call that
\* is (still) parallel.
StartCall ==
    /\ pc = "fill" /\ PoolOpen
    /\ log' = Append(log, CallEvent(nextToStart))
    /\ ranAs' = [ranAs EXCEPT ![nextToStart] = mode]
    /\ pc' = "prepare"
    /\ UNCHANGED <<signal, aborted, failure, group, nextToStart, committed, slot, body, inFlight, outcome>>

\* throwSchedulerFailure(), or a registry promise that rejects: drain what was started.
Throw ==
    /\ failure' = TRUE /\ pc' = "drain"

\* executionMode throws: while the pool is filled its calls are drained, between two groups
\* there are none.
ModeRaises ==
    /\ \/ pc = "classify" /\ pc' = "done" /\ outcome' = "failed" /\ UNCHANGED failure
       \/ /\ pc = "fill" /\ PoolOpen /\ mode = "parallel" /\ nextToStart > first
          /\ Throw /\ UNCHANGED outcome
    /\ UNCHANGED <<signal, aborted, group, nextToStart, committed, slot, body, inFlight, ranAs, log>>

\* ctx.tools.prepare settles: dispatch the body, or a result without one.
Prepared ==
    /\ pc = "prepare"
    /\ \/ /\ Throw
          /\ UNCHANGED <<nextToStart, slot, body, inFlight>>
       \/ /\ ~failure
          /\ body' = [body EXCEPT ![nextToStart] = "running"]
          /\ inFlight' = inFlight \cup {nextToStart}
          /\ nextToStart' = nextToStart + 1 /\ pc' = "commit"
          /\ UNCHANGED <<slot, failure>>
       \/ /\ ~failure
          /\ \E kind \in {"post", "final"} : slot' = [slot EXCEPT ![nextToStart] = kind]
          /\ nextToStart' = nextToStart + 1 /\ pc' = "commit"
          /\ UNCHANGED <<body, inFlight, failure>>
    /\ UNCHANGED <<signal, aborted, group, committed, ranAs, log, outcome>>

\* A dispatched body settles: its slot is filled, or the scheduler failure is recorded.
SettleBody(i) ==
    /\ body[i] = "running"
    /\ body' = [body EXCEPT ![i] = "settled"]
    /\ \/ /\ \E kind \in {"post", "final"} : slot' = [slot EXCEPT ![i] = kind]
          /\ UNCHANGED failure
       \/ failure' = TRUE /\ UNCHANGED slot
    /\ UNCHANGED <<pc, signal, aborted, group, nextToStart, committed, inFlight, ranAs, log, outcome>>

\* commitReady commits the contiguous settled slots in model order.
Ready == committed <= last /\ slot[committed] # "none"

\* finish or finalize throws, the result is appended, or acceptContext throws behind it: from
\* then on nothing reads committed.
Record ==
    \/ Throw /\ UNCHANGED <<log, committed>>
    \/ /\ log' = Append(log, ResultEvent(committed, "real"))
       /\ committed' = committed + 1
       /\ \/ pc' = "commit" /\ UNCHANGED failure
          \/ Throw

CommitFinal ==
    /\ pc = "commit" /\ Ready /\ slot[committed] = "final"
    /\ Record
    /\ UNCHANGED <<signal, aborted, group, nextToStart, slot, body, inFlight, ranAs, outcome>>

AwaitFinalize ==
    /\ pc = "commit" /\ Ready /\ slot[committed] = "post"
    /\ pc' = "finalize"
    /\ UNCHANGED <<signal, aborted, failure, group, nextToStart, committed, slot, body, inFlight,
                   ranAs, log, outcome>>

Finalized ==
    /\ pc = "finalize"
    /\ Record
    /\ UNCHANGED <<signal, aborted, group, nextToStart, slot, body, inFlight, ranAs, outcome>>

\* commitReady returns: a failure recorded meanwhile is thrown, an abort is noticed.
CommitDone ==
    /\ pc = "commit" /\ ~Ready
    /\ \/ failure /\ Throw /\ UNCHANGED aborted
       \/ ~failure /\ aborted' = (aborted \/ signal) /\ pc' = "fill" /\ UNCHANGED failure
    /\ UNCHANGED <<signal, group, nextToStart, committed, slot, body, inFlight, ranAs, log, outcome>>

\* fillPool leaves its loop: the pool is closed, or the next call was reclassified as a barrier.
PoolFilled ==
    \/ ~PoolOpen
    \/ mode = "parallel" /\ nextToStart > first

AwaitRace ==
    /\ pc = "fill" /\ PoolFilled /\ inFlight # {}
    /\ pc' = "race"
    /\ UNCHANGED <<signal, aborted, failure, group, nextToStart, committed, slot, body, inFlight,
                   ranAs, log, outcome>>

Raced(i) ==
    /\ pc = "race" /\ i \in inFlight /\ body[i] = "settled"
    /\ inFlight' = inFlight \ {i}
    /\ IF failure THEN Throw ELSE pc' = "commit" /\ UNCHANGED failure
    /\ UNCHANGED <<signal, aborted, group, nextToStart, committed, slot, body, ranAs, log, outcome>>

\* Mutant: the calls that were not started are forgotten.
SkippedNone(from) == <<>>

\* Every call not started gets a call event and a synthetic result.
Skipped(from) ==
    [k \in 1..(2 * (N + 1 - from)) |->
        LET i == from + (k - 1) \div 2
        IN  IF k % 2 = 1 THEN CallEvent(i) ELSE ResultEvent(i, "skipped")]

\* The group is over: the next group, the end, or on abort the skipped remainder.
GroupDone ==
    /\ pc = "fill" /\ PoolFilled /\ inFlight = {}
    /\ \/ /\ aborted
          /\ log' = log \o Skipped(nextToStart)
          /\ pc' = "done" /\ outcome' = "aborted"
       \/ /\ ~aborted /\ nextToStart <= N
          /\ pc' = "classify"
          /\ UNCHANGED <<log, outcome>>
       \/ /\ ~aborted /\ nextToStart = N + 1
          /\ pc' = "done" /\ outcome' = "returned"
          /\ UNCHANGED log
    /\ UNCHANGED <<signal, aborted, failure, group, nextToStart, committed, slot, body, inFlight, ranAs>>

\* Mutant: the drain waits for results and not for settlements.
DrainedOfResults ==
    /\ pc = "drain" /\ \A i \in inFlight : slot[i] # "none"
    /\ pc' = "done" /\ outcome' = "failed"
    /\ UNCHANGED <<signal, aborted, failure, group, nextToStart, committed, slot, body, inFlight,
                   ranAs, log>>

\* The catch of runGroup: allSettled, then the first failure is rethrown.
Drained ==
    /\ pc = "drain" /\ \A i \in inFlight : body[i] = "settled"
    /\ pc' = "done" /\ outcome' = "failed"
    /\ UNCHANGED <<signal, aborted, failure, group, nextToStart, committed, slot, body, inFlight,
                   ranAs, log>>

----------------------------------------------------------------------------
(* Cancellation and crash *)

Abort ==
    /\ pc # "done" /\ ~signal
    /\ signal' = TRUE
    /\ UNCHANGED <<pc, aborted, failure, group, nextToStart, committed, slot, body, inFlight,
                   ranAs, log, outcome>>

Answered(events, i) == \E k \in DOMAIN events : events[k].type = "tool/result" /\ events[k].call = i
Started(events, i) == \E k \in DOMAIN events : events[k] = CallEvent(i)

\* The k-th pending call in the order of the message.
Nth(pending, k) == CHOOSE i \in pending : Cardinality({j \in pending : j < i}) = k - 1

\* Mutant: calls with a result in the log are closed again.
ToolClosersForAll(events) ==
    [k \in Calls |-> ResultEvent(k, IF Started(events, k) THEN "unknown" ELSE "notStarted")]

\* Synthetic results for the pending calls of an open step, in the order of the message.
ToolClosers(events) ==
    LET pending == {i \in Calls : ~Answered(events, i)}
    IN  [k \in 1..Cardinality(pending) |->
            LET i == Nth(pending, k)
            IN  ResultEvent(i, IF Started(events, i) THEN "unknown" ELSE "notStarted")]

\* The process dies before the end of the step is stored, during the step, behind it or while
\* a repair is stored, with any prefix of the log; the resume repairs it.
CrashAndResume ==
    /\ \E k \in 0..Len(log) :
        LET stored == SubSeq(log, 1, k) IN log' = stored \o ToolClosers(stored)
    /\ pc' = "done" /\ outcome' = "repaired"
    /\ body' = [i \in Calls |-> "off"] /\ inFlight' = {}
    /\ UNCHANGED <<signal, aborted, failure, group, nextToStart, committed, slot, ranAs>>

Scheduler ==
    \/ \E m \in Modes : Classify(m)
    \/ StartCall \/ Prepared \/ CommitFinal \/ AwaitFinalize \/ Finalized \/ CommitDone
    \/ AwaitRace \/ (\E i \in Calls : Raced(i)) \/ GroupDone \/ ModeRaises \/ Drained

Next ==
    \/ Scheduler
    \/ \E i \in Calls : SettleBody(i)
    \/ Abort \/ CrashAndResume

Spec == Init /\ [][Next]_vars

\* The scheduler's own continuations run, and every dispatched body settles.
FairSpec == Spec /\ WF_vars(Scheduler) /\ \A i \in Calls : WF_vars(SettleBody(i))

----------------------------------------------------------------------------
(* Properties *)

ResultAt(k) == k \in DOMAIN log /\ log[k].type = "tool/result"

\* The results in the log are those of the first calls in model order, each once, whatever
\* the order in which bodies settled, after an abort and after a repair; a result that is
\* not the repair of an unrecorded call follows its call event.
ResultsInModelOrder ==
    /\ \A j, k \in DOMAIN log : ResultAt(j) /\ ResultAt(k) /\ j < k => log[j].call < log[k].call
    /\ \A k \in DOMAIN log, i \in Calls : ResultAt(k) /\ i < log[k].call => Answered(log, i)
    /\ \A k \in DOMAIN log :
         ResultAt(k) /\ log[k].kind # "notStarted"
           => \E j \in DOMAIN log : j < k /\ log[j] = CallEvent(log[k].call)

\* A step that does not end in a scheduler failure leaves no call without a result, and one
\* that does leaves none running: every call of a returned, aborted or repaired step has its
\* result, a finished scheduler has no body in progress.
NothingDangles ==
    pc = "done" =>
        /\ outcome # "failed" => \A i \in Calls : Answered(log, i)
        /\ \A i \in Calls : body[i] # "running"

\* A call run as exclusive is a barrier in both directions: when a later call starts and one
\* of the two is exclusive, the result of the earlier one is committed; and parallel bodies
\* never exceed the cap.
ExclusiveIsBarrier ==
    /\ Cardinality({i \in Calls : body[i] = "running"}) <= MaxParallel
    /\ \A i, j \in Calls :
         i < j /\ ranAs[j] # "none" /\ "exclusive" \in {ranAs[i], ranAs[j]} => i < committed

\* Every step ends: the scheduler returns, aborts or fails.
StepEnds == <>(pc = "done")
=============================================================================
