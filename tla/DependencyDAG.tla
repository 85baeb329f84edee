--------------------------- MODULE DependencyDAG ----------------------------
(***************************************************************************)
(* DependencyDAG of pipelines/orchestrator/dag.py in its local (SQLite)    *)
(* form, driven by DAGSchedulerBridge of api/dag_scheduler.py: nodes of    *)
(* one run become ready, are claimed, are submitted as scheduler jobs and  *)
(* are completed by the threads that execute the jobs, which then claim    *)
(* what became ready.                                                      *)
(*                                                                         *)
(* A method that works under the DAG's lock is one step.  The bridge calls *)
(* several of them in a row, and claim_ready_nodes itself takes the lock   *)
(* twice, so threads interleave between those steps.                       *)
(*                                                                         *)
(* The job queue is the scheduler's contract (RunScheduler models it): a   *)
(* job id is accepted once, later submissions are replays; a job is        *)
(* executed by one thread at a time and again after its process died.      *)
(***************************************************************************)
EXTENDS Naturals, FiniteSets, FiniteSetsExt

CONSTANTS
    Node,           \* node ids, numbers so that ORDER BY node_id has a meaning
    Deps,           \* [Node -> SUBSET Node], dependencies
    MaxRepairs,     \* [Node -> Nat], retry_policy.max_repairs
    Worker,         \* the scheduler's worker threads
    Caller,         \* the thread that calls start_run
    Limit,          \* max_workers, the limit passed to claim_ready_nodes
    MaxFaults,      \* bound: submissions that fail
    MaxCrashes      \* bound: process deaths

Thread == Worker \cup {Caller}

\* The job of the caller, which executes none.
NoNode == 0
NoJob == <<NoNode, 0>>

ASSUME CallerAssumption == Caller \notin Worker
ASSUME NodeAssumption == Node \subseteq Nat \ {NoNode} /\ IsFiniteSet(Node)
ASSUME DepsAssumption == Deps \in [Node -> SUBSET Node]

\* _validate_specs accepted the graph: every set of nodes has one that depends
\* on none of the others.
ASSUME AcyclicAssumption ==
    \A S \in SUBSET Node : S # {} => \E n \in S : Deps[n] \cap S = {}
ASSUME RepairsAssumption == MaxRepairs \in [Node -> 0 .. 5]
ASSUME LimitAssumption == Limit \in Nat \ {0}

VARIABLES
    status,         \* [Node -> node status], "absent" before create_run
    repairs,        \* [Node -> Nat], repair_attempts
    run,            \* dag_runs.status
    job,            \* [Job -> JobStatus]; "stranded": a row that no pool was given
    pc,             \* [Thread -> point of the bridge's code]
    mine,           \* [Thread -> Job \cup {NoJob}], job the thread executes
    picked,         \* [Thread -> SUBSET Node], claim_ready_nodes' selection
    claims,         \* [Thread -> SUBSET Job], claimed and not yet submitted
    executions,     \* [Node -> Nat], times execute_node was called (history)
    faults, crashes

vars == <<status, repairs, run, job, pc, mine, picked, claims, executions,
          faults, crashes>>

Job == {<<n, k>> : n \in Node, k \in 0 .. 5}
Jobs == {j \in Job : j[2] <= MaxRepairs[j[1]]}
Failure == {"failed", "blocked", "cancelled"}
Final == Failure \cup {"succeeded"}
Outcome == {"succeeded", "waiting", "failed", "cancelled"}
JobStatus == {"absent", "stranded", "queued", "running", "done"}
NodeStatus == {"absent", "pending", "ready", "running", "blocked"} \cup Outcome

Init ==
    /\ status = [n \in Node |-> "absent"]
    /\ repairs = [n \in Node |-> 0]
    /\ run = "absent"
    /\ job = [j \in Jobs |-> "absent"]
    /\ pc = [t \in Thread |-> "idle"]
    /\ mine = [t \in Thread |-> NoJob]
    /\ picked = [t \in Thread |-> {}]
    /\ claims = [t \in Thread |-> {}]
    /\ executions = [n \in Node |-> 0]
    /\ faults = 0
    /\ crashes = 0

-----------------------------------------------------------------------------
(* The row updates behind every method                                     *)

\* _refresh_ready_locked: one pass over the pending rows, against the statuses
\* read before the pass.
Refreshed(s) ==
    [n \in Node |->
        IF s[n] # "pending" THEN s[n]
        ELSE IF \E d \in Deps[n] : s[d] \in Failure THEN "blocked"
        ELSE IF \A d \in Deps[n] : s[d] = "succeeded" THEN "ready"
        ELSE "pending"]

\* Mutant: only the direct dependents are blocked.
BlockedChildrenOnly(s, n) ==
    [m \in Node |-> IF s[m] \in {"pending", "ready"} /\ n \in Deps[m] THEN "blocked" ELSE s[m]]

\* _block_descendants_locked: the loop's fixpoint, that is the pending and ready
\* nodes in every set that holds n and is closed under dependence.
BlockedBelow(s, n) ==
    LET waiting == {m \in Node : s[m] \in {"pending", "ready"}}
        Closed(S) == \A m \in waiting : Deps[m] \cap S # {} => m \in S
    IN  [m \in Node |->
            IF m \in waiting /\ \A S \in SUBSET Node : n \in S /\ Closed(S) => m \in S
            THEN "blocked" ELSE s[m]]

\* _update_run_status_locked.
RunStatus(s) ==
    LET some(S) == \E n \in Node : s[n] \in S
        every(S) == \A n \in Node : s[n] \in S
    IN  CASE Node = {} -> "succeeded"
          [] some({"waiting"}) -> "waiting"
          [] ~some({"waiting"}) /\ some({"failed", "blocked"}) -> "failed"
          [] Node # {} /\ every({"succeeded"}) -> "succeeded"
          [] every({"succeeded", "cancelled"}) /\ some({"cancelled"}) -> "cancelled"
          [] OTHER -> IF some({"running"}) THEN "running" ELSE "queued"

Store(s) == status' = s /\ run' = RunStatus(s)

Repairable(n) == repairs[n] < MaxRepairs[n]

\* complete_node from "ready" or "running": a repairable failure makes the node
\* pending again, any other failure blocks what depends on it.
Completed(n, outcome, repair) ==
    IF outcome = "failed" /\ repair /\ Repairable(n)
    THEN Refreshed([status EXCEPT ![n] = "pending"])
    ELSE LET s == [status EXCEPT ![n] = outcome]
         IN  Refreshed(IF outcome \in {"failed", "cancelled"} THEN BlockedBelow(s, n) ELSE s)

\* Mutant: any node can be completed.
CompletableAlways(n) == TRUE

Completable(n) == status[n] \in {"ready", "running"}

CompleteNode(n, outcome, repair) ==
    /\ Completable(n)
    /\ Store(Completed(n, outcome, repair))
    /\ repairs' = IF outcome = "failed" /\ repair /\ Repairable(n)
                  THEN [repairs EXCEPT ![n] = @ + 1] ELSE repairs

-----------------------------------------------------------------------------
(* The bridge                                                              *)

Go(t, there) == pc' = [pc EXCEPT ![t] = there]

\* start_run: create_run inserts the graph, its first refresh finds the roots,
\* and the caller goes on to _submit_ready.
StartRun ==
    /\ run = "absent"
    /\ Store(Refreshed([n \in Node |-> "pending"]))
    /\ Go(Caller, "admit")
    /\ UNCHANGED <<repairs, job, mine, picked, claims, executions, faults, crashes>>

\* A scheduler worker takes a queued job and calls execute_node.
TakeJob(t, j) ==
    /\ t # Caller
    /\ pc[t] = "idle"
    /\ job[j] = "queued"
    /\ job' = [job EXCEPT ![j] = "running"]
    /\ mine' = [mine EXCEPT ![t] = j]
    /\ executions' = [executions EXCEPT ![j[1]] = @ + 1]
    /\ Go(t, "execute")
    /\ UNCHANGED <<status, repairs, run, picked, claims, faults, crashes>>

\* The job is over: its thread takes another one.
EndJob(t) ==
    /\ job' = IF mine[t] = NoJob THEN job ELSE [job EXCEPT ![mine[t]] = "done"]
    /\ mine' = [mine EXCEPT ![t] = NoJob]
    /\ Go(t, "idle")

\* execute_node returned or raised; its result is persisted.
Complete(t, outcome, repair) ==
    /\ pc[t] = "execute"
    /\ CompleteNode(mine[t][1], outcome, repair)
    /\ Go(t, "admit")
    /\ UNCHANGED <<job, mine, picked, claims, executions, faults, crashes>>

\* complete_node raises DAGError: the job fails and nothing more is admitted.
CompleteRefused(t) ==
    /\ pc[t] = "execute"
    /\ ~Completable(mine[t][1])
    /\ EndJob(t)
    /\ UNCHANGED <<status, repairs, run, picked, claims, executions, faults, crashes>>

\* The first Limit ready nodes in the order of their ids.
Selected(s) ==
    LET ready == {n \in Node : s[n] = "ready"}
    IN  {n \in ready : Cardinality({m \in ready : m < n}) < Limit}

\* claim_ready_nodes, first half: admit_ready_nodes returns the ready rows.
AdmitReady(t) ==
    LET s == Refreshed(status)
    IN  /\ pc[t] = "admit"
        /\ Store(s)
        /\ picked' = [picked EXCEPT ![t] = Selected(s)]
        /\ Go(t, "mark")
        /\ UNCHANGED <<repairs, job, mine, claims, executions, faults, crashes>>

\* claim_ready_nodes, second half: the rows that are still ready become
\* running; what is returned is the selection of the first half.
MarkRunning(t) ==
    /\ pc[t] = "mark"
    /\ Store([n \in Node |->
                IF n \in picked[t] /\ status[n] = "ready" THEN "running" ELSE status[n]])
    /\ Go(t, "read")
    /\ UNCHANGED <<repairs, job, mine, picked, claims, executions, faults, crashes>>

\* get_node for each selected node, in turn: the job id is made from it.
ReadNode(t) ==
    /\ pc[t] = "read"
    /\ picked[t] # {}
    /\ LET n == Min(picked[t])
       IN  /\ claims' = [claims EXCEPT ![t] = @ \cup {<<n, repairs[n]>>}]
           /\ picked' = [picked EXCEPT ![t] = @ \ {n}]
    /\ UNCHANGED <<status, repairs, run, job, pc, mine, executions, faults, crashes>>

ReadAll(t) ==
    /\ pc[t] = "read"
    /\ picked[t] = {}
    /\ Go(t, "submit")
    /\ UNCHANGED <<status, repairs, run, job, mine, picked, claims, executions, faults, crashes>>

NextClaim(t) == CHOOSE j \in claims[t] : \A i \in claims[t] : j[1] <= i[1]

\* Mutant: the job id does not carry the repair attempt.
AcceptedWithoutAttempt(j) == \A i \in Jobs : i[1] = j[1] => job[i] = "absent"

\* Mutant: a known job id is queued again.
AcceptedAgain(j) == TRUE

\* scheduler.submit inserts a job id it has not seen; a known one is a replay.
Accepted(j) == job[j] = "absent"

Submit(t) ==
    /\ pc[t] = "submit"
    /\ claims[t] # {}
    /\ LET j == NextClaim(t)
       IN  /\ job' = IF Accepted(j) THEN [job EXCEPT ![j] = "queued"] ELSE job
           /\ claims' = [claims EXCEPT ![t] = @ \ {j}]
    /\ UNCHANGED <<status, repairs, run, pc, mine, picked, executions, faults, crashes>>

\* scheduler.submit raises: before it inserted the row, after it (the event or
\* the hand over to the pool failed, so that only a restart finds the job), or when
\* the pool already has the job.
SubmitRaises(t) ==
    /\ pc[t] = "submit"
    /\ claims[t] # {}
    /\ faults < MaxFaults
    /\ faults' = faults + 1
    /\ LET j == NextClaim(t)
       IN  job' \in {job} \cup {[job EXCEPT ![j] = s] :
                                   s \in {s \in {"stranded", "queued"} : Accepted(j)}}
    /\ Go(t, "refuse")
    /\ UNCHANGED <<status, repairs, run, mine, picked, claims, executions, crashes>>

\* ... and is caught: the node is completed as failed, or, when it cannot be
\* completed any more, the error ends the thread's work.
FailNode(t) ==
    /\ pc[t] = "refuse"
    /\ LET j == NextClaim(t)
       IN  \/ /\ CompleteNode(j[1], "failed", FALSE)
              /\ claims' = [claims EXCEPT ![t] = @ \ {j}]
              /\ Go(t, "submit")
              /\ UNCHANGED <<job, mine>>
           \/ /\ ~Completable(j[1])
              /\ claims' = [claims EXCEPT ![t] = {}]
              /\ EndJob(t)
              /\ UNCHANGED <<status, repairs, run>>
    /\ UNCHANGED <<picked, executions, faults, crashes>>

\* _submit_ready is through: the caller returns, or the job ends.
Finish(t) ==
    /\ pc[t] = "submit"
    /\ claims[t] = {}
    /\ EndJob(t)
    /\ UNCHANGED <<status, repairs, run, picked, claims, executions, faults, crashes>>

\* The process dies and is started again.  The graph and the queue survive, and
\* the scheduler's recovery makes the jobs that ran, and those that no pool was
\* given, executable again.
Crash ==
    /\ run # "absent"
    /\ crashes < MaxCrashes
    /\ crashes' = crashes + 1
    /\ job' = [j \in Jobs |->
                IF job[j] \in {"running", "stranded"} THEN "queued" ELSE job[j]]
    /\ pc' = [t \in Thread |-> "idle"]
    /\ mine' = [t \in Thread |-> NoJob]
    /\ picked' = [t \in Thread |-> {}]
    /\ claims' = [t \in Thread |-> {}]
    /\ UNCHANGED <<status, repairs, run, executions, faults>>

Work(t) ==
    \/ \E j \in Jobs : TakeJob(t, j)
    \/ \E outcome \in Outcome, repair \in BOOLEAN : Complete(t, outcome, repair)
    \/ CompleteRefused(t)
    \/ AdmitReady(t) \/ MarkRunning(t) \/ ReadNode(t) \/ ReadAll(t)
    \/ Submit(t) \/ FailNode(t) \/ Finish(t)

Next ==
    \/ StartRun
    \/ \E t \in Thread : Work(t) \/ SubmitRaises(t)
    \/ Crash

Spec == Init /\ [][Next]_vars

\* Threads keep running, and execute_node returns: the bridge's scheduler has no
\* execution timeout, so a node executor that hangs holds its worker for ever.
FairSpec == Spec /\ \A t \in Thread : WF_vars(Work(t))

-----------------------------------------------------------------------------
(* Properties                                                              *)

Points == {"idle", "execute", "admit", "mark", "read", "submit", "refuse"}

\* Type invariant: the rows of dag_nodes and dag_runs, the jobs and the threads;
\* a node is never repaired more often than its retry policy allows.
TypeOK ==
    /\ status \in [Node -> NodeStatus]
    /\ \A n \in Node : repairs[n] \in 0 .. MaxRepairs[n]
    /\ run \in {"absent", "queued", "running"} \cup Outcome
    /\ job \in [Jobs -> JobStatus]
    /\ pc \in [Thread -> Points]
    /\ mine \in [Thread -> Jobs \cup {NoJob}]
    /\ picked \in [Thread -> SUBSET Node]
    /\ claims \in [Thread -> SUBSET Jobs]

\* However claims and completions interleave, a node that is ready, running,
\* waiting or done had all its dependencies succeed, a blocked node has a
\* dependency that did not, and a failure reaches every node that can no longer
\* run: none is left pending, where nothing would ever look at it again.
StatusFollowsDeps ==
    \A n \in Node :
        /\ status[n] \in {"ready", "running", "waiting", "succeeded", "failed", "cancelled"}
               => \A d \in Deps[n] : status[d] = "succeeded"
        /\ status[n] = "blocked" => \E d \in Deps[n] : status[d] \in Failure
        /\ status[n] = "pending" => \A d \in Deps[n] : status[d] \notin Failure

\* Although two threads may both have selected a node, no two of them execute one
\* job, and a node is executed at most once per repair attempt unless a crash
\* makes its job executable again.
ExecutedOncePerAttempt ==
    /\ crashes = 0 => \A n \in Node : executions[n] <= repairs[n] + 1
    /\ \A t, u \in Thread : t # u /\ mine[t] # NoJob => mine[t] # mine[u]

\* A settled node keeps its outcome: late completions, failed submissions and
\* executions repeated after a crash do not overwrite it; nor does a run that
\* succeeded or was cancelled change.
SettledStays ==
    [][/\ \A n \in Node : status[n] \in Final => status'[n] = status[n]
       /\ run \in {"succeeded", "cancelled"} => run' = run]_vars

\* As long as no submission fails and no process dies, every node of a started
\* run is settled in the end, unless one of them waits for something outside the
\* run.
RunFinishes ==
    run # "absent" /\ crashes + faults = 0
    ~> \/ \A n \in Node : status[n] \in Final
       \/ \E n \in Node : status[n] = "waiting"
       \/ crashes + faults > 0

=============================================================================
