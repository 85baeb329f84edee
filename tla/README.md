# Sudarshan agentic core: TLA+ verification

This directory holds a formal model of the concurrent core of the Sudarshan
agentic back end and of the agent harness it ships: the code that decides which
worker may run what, what it may spend, how an agent's turns, tool calls and
background jobs interleave, and what survives a crash. Paths below are relative to
`src/`; `H/` stands for `deepseek-harness/packages/`.

- `*.tla` without prefix: one module per component;
- `MC*.tla` and `*.cfg`: small instances for TLC;
- `*Proofs.tla`: theorems checked by TLAPS;
- `PROJECT.json`: components, runs, the map from definitions to source lines,
  findings, hazards and theorems.

## 1. Inventory

### The parts and their state

| Part | Source | State it keeps | Operations |
|---|---|---|---|
| Shared control plane | `api/control_plane.py` | per resource: request hash, status, owner, fencing counter, `lease_until`, result, event stream; a Redis stream with a consumer group; budget, cache and DAG keys | `admit`, `claim`, `renew`, `transition`, `schedule_retry`, `poll`, `ack`, `reclaim`, budget / cache / ingestion / DAG scripts |
| Run scheduler | `api/scheduler.py` | SQLite `run_queue` rows and `run_queue_events`; thread pool, backoff timers, cancel events, heartbeats | `submit`, `_claim`, `_claim_shared`, `_worker`, `_heartbeat`, `_set_terminal`, `_schedule_retry`, `_release_retry`, `cancel`, `close`, recovery at start |
| Budget ledger | `pipelines/orchestrator/budget.py` and the budget scripts | policy, used and reserved amounts, active children per run; reservations; usage records | `register_run`, `reserve`, `commit`, `release` |
| Child skill runtime | `pipelines/orchestrator/skill_runtime.py` | `_active_by_parent` slots | `invoke` |
| Generation cache | `pipelines/orchestrator/cache.py` | entries and generation claims with expiry | `get`, `put`, `try_claim`, `release_claim`, `invalidate`, `cleanup_expired` |
| Dependency DAG | `pipelines/orchestrator/dag.py` | `dag_runs`, `dag_nodes` rows; node leases and snapshots in the shared form | `create_run`, `admit_ready_nodes`, `claim_ready_nodes`, `complete_node` |
| DAG bridge | `api/dag_scheduler.py` | request context per run | `start_run`, `_submit_ready`, `_execute_job` |
| Spend guard | `pipelines/orchestrator/spend_guard.py` | daily spend | reserve, settle |
| Ingestion | `ingestion_pipelines/runtime.py` | ingestion budget, usage, evidence index | register, charge |
| Social approval, schedule | `integrations/providers/social_*.py` | approvals, scheduled posts | request, approve, publish |
| Provider jobs | `pipelines/video/provider_jobs.py` | submitted external jobs | submit, poll, resume |
| Gateway | `backend-node/src/` | rate-limit windows, sessions | HTTP routes |
| API server, storage, artifacts | `api/*.py` | files | HTTP routes |
| Agent loop | `H/core/agent-loop/src/agent.ts`, `index.ts` | phase, abort controller, wake latch, turn and step numbers | `send` (`followup`, `steer`, `inject`), `cancel`, `runMaintenance`, `turn`, `step`, `dispose`, `resume` |
| Inbox and log repair | `H/core/agent/src/inbox.ts`, `H/core/session/src/repair.ts` | two pending lists, a projection of the append-only session log | `splice`, `claim`, `remove`, `clear`, replay, `interruptedTurnClosers` |
| Tool-call scheduler | `H/core/agent-loop/src/tool-calls.ts` | slots, bodies in flight, commit index of one step | `executeToolCalls`, `runGroup` |
| Background jobs | `H/jobs/jobs-local/src/index.ts`, `H/jobs/tool-jobs/src/index.ts` | job records, waiters, owner cleanups, spent wakes | `start`, `read`, `kill`, `wait`, `settle`, `disposeOwned`, `disposeAll`, completion notices |
| Other harness packages | `H/` | subagents, schedules, sessions, clients, user interface, type runtime | - |
| Rendering pipelines | `pipelines/*` | none of their own that is shared | - |

### How they interact

The API server admits a run by `LocalRunScheduler.submit`. With a control plane
the run is first admitted in Redis, which also puts an entry on the queue stream;
every process polls that stream and *hydrates* runs it does not know into its own
SQLite database. A worker thread claims the row, then the shared lease, registers
a cancel event, starts a heartbeat and calls the execution callback; afterwards
it settles the shared record first and its own row second. For a DAG run the
callback is `DAGSchedulerBridge._execute_job`, which completes the node and
submits the nodes that became ready as further jobs of the same scheduler. A node
executes skills through `SkillRuntime.invoke`, which takes a generation claim in
the cache, a slot in its process and a reservation in the budget ledger, runs the
adapter in a daemon thread, and hands everything back.

In the harness an agent has one driver. Senders put messages into its inbox and
wake it; the driver claims a batch at each step boundary, runs the model and hands
the tool calls of the answer to the scheduler of `tool-calls.ts`. Everything it
does is an event of the session log, from which a new process rebuilds the agent.
Tools may start background jobs; when one settles, its owner is told once: by the
call that waits for it, or by a notice put into its inbox.

### What is hard about it

* **Interleaving**: threads of several processes share SQLite files and Redis;
  most operations are a chain of short transactions, with other actors between.
* **Leases and time**: a lease may lapse while its holder still works; heartbeats
  may die; clocks of several hosts are compared.
* **Crashes**: a process may die between any two of those transactions; recovery
  runs only when a new scheduler is constructed.
* **Delivery**: queue entries are redelivered; a Redis call may have been carried
  out although it raised.
* **Awaits**: the harness runs on one thread, and every `await` lets any sender,
  canceller, timer or settlement in; a value read before it may be stale after it.
* **Several resources per call**: `invoke` takes three and each way out of it returns
  some of them.

`PROJECT.json` lists these as *hazards*, each at its line, with the properties
that would catch it going wrong; those without a property say why.

### What makes each part correct

* control plane: one writer at a time; a stale token writes nothing; a final
  result is final; an admission has one queue entry;
* scheduler: one executor per run, bounded attempts, stable outcomes, no run
  forgotten, local and shared records agree, every run settles;
* ledger: used plus reserved within the policy's metered limits; counters equal the
  open reservations; the report of usage never above what was charged, and equal to
  it when every record arrived and no two share an id;
* skill runtime and cache: nothing leaked where `invoke` returns, and an exact account
  of what an exception that leaves it keeps; one generator per fingerprint; bounded
  children; every call returns;
* DAG: statuses follow the dependencies; failures reach every descendant;
  one execution per attempt; a run finishes;
* agent loop: well-nested log in every run and after every crash, inbox equal to
  the log's replay, no message twice, no latched wake lost, disposal ends;
* tool calls: results in model order, one for each call, exclusive calls alone,
  every step ends;
* jobs: each completion reported exactly once, first outcome kept, no producer
  orphaned, teardown ends.

## 2. Modules

| Module | Models | Uses |
|---|---|---|
| `FencedResource` | abstract single-writer contract | - |
| `ControlPlane` | `RedisControlPlane` leases, admission, queue | refines `FencedResource` |
| `RunScheduler` | `LocalRunScheduler` | `INSTANCE ControlPlane` |
| `BudgetLedger` | `BudgetController` and the budget scripts | - |
| `SkillRuntime` | `SkillRuntime.invoke`, `CacheStore` | `INSTANCE BudgetLedger` |
| `DependencyDAG` | local `DependencyDAG`, `DAGSchedulerBridge` | contract of the scheduler |
| `AgentLoop` | `ReactLoopAgent`, `Inbox`, log repair, dispose and resume | - |
| `ToolCalls` | `executeToolCalls`, `runGroup`, repair of a step | - |
| `Jobs` | `LocalJobRegistry` and the notices of `tool-jobs` | - |
| `ControlPlaneProofs`, `RunSchedulerProofs`, `BudgetLedgerProofs`, `SkillRuntimeProofs`, `DependencyDAGProofs`, `AgentLoopProofs`, `ToolCallsProofs`, `JobsProofs` | theorems | extend their component; `SkillRuntimeProofs` also `INSTANCE BudgetLedgerProofs`, `RunSchedulerProofs` also `INSTANCE ControlPlaneProofs` |

Definitions marked `Mutant` in the modules are plausible wrong versions of the
definition that follows them. No action uses them; they serve to confirm that each
property notices the corresponding mistake.

### ControlPlane

Every operation is one Lua script or one stream command, hence one action:
`Admit`, `Claim`, `Renew`, `Transition`, `ScheduleRetry`, `Poll`, `Reclaim`,
`Ack`. Callers are the most general ones: a worker may use any token it was ever
issued, at any time and any number of times, which covers delayed, repeated and
reordered calls. `Holds` is the guard the three lease scripts share. Time is
abstract: `now` is an argument of the claim script, so two hosts' clocks decide
whether a lease has expired; `Lapse` may make a live lease expired at any moment,
and `Renew` revives one nobody took, as the script does. A rejected call
(`conflict`, `replay`, `stale`, `busy`, `terminal`) changes nothing and is no
step. The event stream is modelled without the trimming to its last 1000 entries.

### RunScheduler

State: `row` is the `run_queue` table of each database, `pool`, `timers`, `thr`
and `signals` the in-memory state of each process. `thr[p][t].pc` walks through
`_consume_shared_message`, `_hydrate_shared`, `_worker`, `_set_terminal` and
`_schedule_retry` with one step per SQLite transaction or control-plane call.
Each heartbeat is two more steps (`BeatLocal`, `BeatShared`) that interleave with
its worker. `lease_token`, a fresh uuid per claim, is represented by the attempt
that drew it. `Close`, `Crash`, `Exit` and `Restart` model the process; `Restart`
includes recovery and the resubmission of queued rows. The `*Outage` actions are
control-plane calls that raise, carried out or not, the poll and the reclaim of the
discovery thread among them (`DiscoverOutage`: the message is delivered to a consumer
that never saw it); redis-py's errors are not subclasses of the built-in
`ConnectionError`, so the scheduler does not regard them as retryable. A callback may
return any status the code tells apart, "cancelled" without a cancellation included.

Three actions hold more than one transaction. `SubmitInsert`, `Record` and
`ReleaseRetry` write the row, add an event to `run_queue_events`, and then hand the
run to the pool or start its timer. Nothing reads the events but the read-only
queries. Pools and timers are volatile, and read by their own process alone when a
thread takes a job or the timer fires. Any step of another actor between the write
and the hand-over can therefore be put behind both: a cancellation or a claim
reads the row only; a restart of another process submits the queued row in either
order; a crash or `close` empties the pool, or makes `executor.submit` raise, and leaves the row
as `Crash` or `Close` right after the merged step does. What is lost is the moment
itself: `NothingForgotten` is about the states between such calls. A SQLite error
between the two writes is excluded. `Punctual` states that a worker whose heartbeat is alive never
lets its lease lapse; the runs that ask what happens otherwise set it to FALSE.

### BudgetLedger

Both backends take the same decisions (compare `budget.py` 140-230 with the
scripts of `control_plane.py` 286-364), so they share the actions. They differ in
the usage record: under the same lock locally, by a second command in Redis. Between
the two the record is `unsaved`; `SaveReceipt` is the push and `LoseReceipt` the death
of the worker or the failure of Redis that leaves it out for good (`lost`). A usage
carries the `usage_id` its adapter gave it, and `Reports` is what `reconciliation()`
may keep of the list: one record of each id. Two children with the same id are
possible, so the report may be too small for two reasons, and `ReportWithinUsed` says
that it is never too large and exact when neither applies. Meters with a
mandatory limit (tokens, calls, wall time) are treated alike; cost, whose limit is
optional and whose check differs, is separate: it may overrun (section 3).

### SkillRuntime

`pc[c]` is the point of `invoke` that call `c` has reached; each access to shared
state is one step. The adapter may answer with any status and usage, raise, or
never answer. Claims and cache entries may expire at any moment. The cache's
lookup and claim are two steps, as in the code. `Invoke` is a call that passes
`_validate_call`, with one of the policies its parent may have, `Reject` one that any
of its checks refuses. The `*Raises` actions are calls on the cache, the shared ledger
or the event sink that raise, after or before they took effect. Inside the `try` of
`invoke` they lead to the `finally` block. In front of it and from within the `finally`
block they end at "escaped": the exception leaves `invoke` with what the call holds at
that point, so the slot stays counted, as in the code (`skill_runtime.py` 156-165, 177,
268-275). `Unreliable` names the calls that may meet such a failure; it bounds TLC's
run, and the theorems hold for any set. Which `SkillResult` or exception ends a call is
not part of the state: no step reads it, and the comments of the actions name it.

### DependencyDAG

A method under the DAG's lock is one step; `claim_ready_nodes` takes the lock
twice and reads its nodes once more, so it is `AdmitReady`, `MarkRunning` and one
`ReadNode` per node. `BlockedBelow` defines the fixpoint that
`_block_descendants_locked` computes by iteration. The scheduler underneath is
replaced by its contract: a job id is accepted once, a job runs in one thread at a
time and again after a crash. That contract is optimistic where `RunScheduler`
shows the scheduler to fall short (a run stranded by a quick restart). A submission
that raises does so before the row of the job is inserted, after it ("stranded": no
pool has the job until a restart finds the row) or after the pool has it (`SubmitRaises`);
in each case the bridge marks the node failed next (`FailNode`), also when its job
runs all the same. Executors are assumed to report no error text together with a
success.

### AgentLoop

JavaScript runs to completion between awaits, so a stretch of code between two of
them is one action, or several that nothing can interleave with (`Free` is false at
the places where driver code is on the stack). The await points are the assembly
and hooks of `preStep`, the model call with its tools, `agent/turn-stopping`, and
the continuation of `await this.turn()` in `kick`, which runs a microtask after
`turn` settled. `inbox` is the live projection and `log` the session log; every
change of the inbox goes through `Commit`, which appends the splice and applies it,
as `mutate` does. `Crash` keeps any prefix of the log (appends are stored in order,
later than they are made) and `Resume` appends the closers and rebuilds the agent.
Assistant and tool events, which the boundaries do not depend on, are not in this
log. `owed` is a history variable: messages whose wake was latched and no driver
with a fresh controller has started since.

### ToolCalls

`pc` is the place of `executeToolCalls` and `runGroup`; the registry's promises
(`prepare`, body, `finalize`) settle in any order and with any answer, and the
execution mode may be different each time it is read. `slot`, `body` and `inFlight`
are the local variables of `runGroup`; a body that has settled is still in
`inFlight` until the race returns it. The registry may also throw: `executionMode` at
either reading (`ModeRaises`), `prepare`, `finalize` and `finish`, and `acceptContext`
after the result was appended (`Record`). `CrashAndResume` keeps a prefix of the step's
events and adds the results that `interruptedTurnClosers` synthesises; it may come at
any time, so also while the results of skipped calls are being stored, once the step
has returned but its last events are not yet stored, and during an earlier repair. The
flag `concluded`, by which a result ends the turn, is not followed (it changes nothing in
these files), and `session.append` is assumed not to raise.

### Jobs

A record is `status`, `owner`, `reported` and membership in `stored`; a `wait` walks
from `waiting` to `released`, `timedOut` or `aborted` and then to `done`, because
the continuation of its promise runs later than the event that resolved it, and
settlements may fall in between. `Settle` is `settle()` and includes its notice.
Producers settle at any time or, unless they were told to stop, never; a cancel
hook may throw. `notices` and `told` are history variables that the properties
compare. "completed" stands for "killed" too, since the registry does not tell them
apart. `busy` and `spent` are the wake budget of `tool-jobs`, which decides whether a
notice wakes its owner or is only injected; no property is about them, and they are
kept because what a notice does once it was sent is the interface to `AgentLoop`.

One assumption is about callers. `Start` and `Caller` (read, kill, wait) require that
the service is open, which the methods themselves do not check (`index.ts` 131-230): a
call made during the await of `disposeAll` is excluded. A job started then would be
dropped with the store, so `NoOrphans`, `TeardownEnds` and their theorems hold of
callers that are torn down before the registry they depend on.

## 3. Runs

Sizes are distinct states with the given bounds; every run takes under three minutes with two workers.

| Run | Question | Bounds |
|---|---|---|
| `control_plane` | stale tokens, finality, queue entries, refinement | 2 resources, 2 workers, 2 requests, 2 grants each; 43 thousand |
| `scheduler_local` | one executor, exact attempts, nothing forgotten, stable outcomes, every run settles | 2 processes x 2 threads on 1 database, 1 run, 2 attempts, 2 crashes or shutdowns, cancellations, any callback result; 167 thousand |
| `scheduler_shared` | the local row agrees with the shared record | 2 processes, own databases, 1 attempt each, at most one failure (crash, shutdown or a call that raises, polls and reclaims included) per behaviour; 1.3 million |
| `scheduler_shared_live` | a shared run settles | 2 processes, 2 attempts, no failure; 345 thousand |
| `budget` | no overspend, exact counters, report within usage, policies and usage kept | shared ledger, 2 runs, 3 reservations, 2 meters, 2 policies, 2 usage ids for 3 usages, records lost; 24 thousand |
| `skill` | one generator, slots and reservations handed back, claims kept for their owner, children bounded over processes, every call returns | 3 calls for 1 fingerprint in 2 processes, 1 run, policies with room for two children or one, failures around one call; 336 thousand |
| `dag` | statuses and blocking, settled nodes, one execution per attempt, the run finishes | diamond with a tail (5 nodes), 1 repair, 2 workers and the caller, claim limit 2, 1 submission that raises, 1 crash; 406 thousand |
| `agent_loop` | log, inbox, single entry, latched wakes, disposal | 2 messages, 2 steps a turn, 2 of: cancel, removal, maintenance, disposal, crash; 268 thousand |
| `tool_calls` | order, completeness, barriers, termination | 3 calls, pool of 2, abort, failures and crashes anywhere; 93 thousand |
| `jobs` | one report for each completion, first outcome, no orphan, teardown ends | 2 jobs, 1 owner and the host, 2 waits, wake budget 1; 456 thousand |

Two workers, two attempts and one crash are the least with which a takeover, a
stale write and a recovery can happen; the actions have no further case for a
third. Two messages are the least with which one is claimed while the other waits;
two operations allow a cancel followed by a disposal or a crash followed by another;
three calls and a pool of two make a call wait, commit out of turn and meet a barrier;
two waits let one be released while the other times out.
In `skill` the third call, in the other process, meets the claim, the slots and the ledger of the
first two: its process sees no child of theirs, so only the ledger's count can refuse
it, under both policies. In `dag` no more nodes are ever ready than the claim limit
takes; a graph where the limit leaves nodes behind is beyond TLC with the bridge's
interleavings, so what becomes of such nodes is not checked (a hazard without a property). `MaxOps`, `MaxSteps`, `MaxFence`, `MaxCrashes`, `MaxOutages`, `MaxFailures`, `MaxPool`, `MaxFaults`, `Unreliable`
bound the state space and appear as guards. Symmetry is used in `control_plane` only. Most
configurations switch deadlock detection off because these systems do stop: all
runs are settled, or the bounds are used up.

The liveness properties of `scheduler_local` and `dag` promise progress up to the
first crash (or raising submission) of a behaviour; the safety properties of the
same runs hold beyond it.

### Disagreements found

Runs that expect a violation check what a document or comment of the repository
says; TLC shows that the code does otherwise. `PROJECT.json` quotes the lines.

| Run | The code |
|---|---|
| `scheduler_dead_worker` | a reclaimed message is ignored while the shared status is `running`, also when the lease has lapsed |
| `agent_lost_wake` | a prompt sent to a live driver after its last look at the inbox (after an empty first step, or after `turn` settled) is neither latched nor claimed: the agent goes idle with the prompt pending |

Weaker promises than one might expect, which the models show and the properties
are stated around (each is among the hazards):

* recovery happens at start only and for lapsed leases only, so a restart inside
  the lease period strands a running row; `EveryRunSettles` ends at the first crash;
* a cancel between the claim and the registration of the cancel event is lost;
* a final row agrees with the shared record, but the row need not become final: a
  crash after the shared transition leaves it running;
* commit and usage record are two Redis commands, so a record may be lost, and
  `reconciliation()` drops all but one record of a `usage_id`: the report may be too
  small (`ReportWithinUsed`);
* `_schedule_retry` writes without comparing the lease token, so a worker that lost
  its lease may set its successor's row to `retrying`; the shared record is safe;
* a commit compares cost only when some cost was reserved, so `NoOverspend` is about
  the other meters;
* a crash between `complete_node` and `_submit_ready` leaves the dependents ready
  without a job, and a submission that raises may leave nodes beyond the claim limit
  waiting; `RunFinishes` is about runs without either;
* a worker that dies holding a shared reservation leaves it counted for ever;
* an exception of the shared ledger or the event sink in front of the `try` block of
  `invoke`, or of the ledger or the cache within its `finally` block, keeps the slot and
  may keep claim and reservation: `SlotsExact` and `ReservationsReturned` count such
  calls (`escaped`) apart; a claim stored by a `try_claim` that raised stays until it
  expires;
* a timed-out execution or child goes on in its thread after its retry started or
  its reservation was released;
* a budget refusal keeps the generation claim until it expires;
* the cache is not looked at again after the claim, so a result may be generated
  twice, one after the other;
* usage above the reservation is charged nowhere;
* two threads may be handed the same node by `claim_ready_nodes`; the job id keeps
  it from running twice (`ExecutedOncePerAttempt`);
* a batch claimed from the inbox and not entered, because the pre-step failed, was
  aborted or the process died, is dropped: `EntersOnce` says at most once;
* an `AbortController` keeps its first reason, so an agent that its user cancelled
  before it was disposed still latches a waking send and runs one more turn before
  the disposal ends (`DisposalCompletes` says that it does end);
* a job notice injected into a busy agent after its turn last looked at the
  next-step list waits for the next turn: `inject` does not wake.

### Fairness

* `RunScheduler`: weak fairness of every thread's steps, timers and discovery
  (pool threads and timers run; callbacks return, bounded by the execution
  timeout where one is set), of `Exit` and `Restart` (a supervisor restarts the
  process), and of lease expiry (clocks advance; under `Punctual` only leases
  nobody renews). Submissions, cancellations, crashes and outages are not fair.
* `SkillRuntime`: fairness of the runtime's own steps including `Timeout`, never of
  `Respond`: an adapter need not answer.
* `DependencyDAG`: fairness of the threads, which includes that `execute_node`
  returns; the bridge's scheduler sets no execution timeout, so the code relies on
  its executors for that.

* `AgentLoop`: the driver's awaits settle (a provider or hook answers, fails, or
  honours the signal), maintenance ends, and disposal goes on once the agent is
  idle. Sends, cancels, crashes and resumes are not fair.
* `ToolCalls`: the scheduler's continuations run and bodies settle; tools are given
  the step's signal, and the code has no timeout of its own.
* `Jobs`: a job that was told to stop settles (the producer contract of
  `cancelForTeardown`: one that returns without settling "may stall"), timers fire
  and continuations run. A job nobody stopped need not settle.

## 4. Proofs

TLAPS checks the following for every value of the constants. Every invariant and
every safety action property of the passing runs is stated by a theorem.

`ControlPlaneProofs`. `TypeCorrect` is the type invariant. The safety theorems
rest on `FencingInv`: besides types it says that no issued token is ahead of its
resource's counter, that tokens are unique, that a final result was authored at the
current counter, and that a resource that is not admitted has no grant. The
properties alone are not inductive: a claim increments the counter, so the
uniqueness of the new token follows only from the old ones not being ahead.
From it follow `StalePowerless`, `UniqueTokens`, `LeasesEndWithRun`, `FinalIsNewest`
(invariants), the action property `FinalNeverChanges`, and `Refinement`: the initial states map to
initial states of `FencedResource`, and each script maps to an action of the
contract or a stutter. `NoEntryLost` shows `OneEntryPerAdmission`: the stream, the
pending deliveries and the acknowledged ones together hold one entry per admission,
because a poll takes the head that `QueueTail` removes and an admission appends the
one entry of `QueueAppend`. Assumptions used: the empty owner is not a worker, and
workers settle with terminal or parked statuses only.

`BudgetLedgerProofs`. `TypeCorrect`, `NeverOverspent` and `CommitmentsHold`. The
inductive invariant `BudgetInv` adds to `NoOverspend` that an unregistered run has
zero counters (so that registering a policy cannot start over its limit) and that
every reservation belongs to a registered run. A commit keeps the bound because the
usage is covered by the reservation it gives back. `CountersExact` and
`ReportsExact` are about sums: the reserved counter is the sum over the open
reservations, the used counter the sum over the records that are stored, not yet
stored, or lost. What
`reconciliation()` keeps is a subset of the filed ones, so its sum is at most that
counter, and it is all of them when the ids are distinct. `TotalRemove` (taking one
element out lowers the sum by its amount) carries both; it rests on `AddsExists`,
`AddsUnique` and `AddsAny`, which show that the sum does not depend on the order of
adding. Where these need induction they look for a least counterexample
(`LeastNatural`, from the well-foundedness of the naturals), which the provers can
follow. `FileInv` keeps a reservation from being two of open, unsaved and filed. Assumptions
used: amounts in policies, claims and usage are natural numbers
(`_validate_non_negative` and the contracts), and the null values are distinct from
records; that finitely many reservations were issued is part of the invariant.

`SkillRuntimeProofs`. `ClaimInv` (a call past its claim still owns it, or it lapsed)
gives `SingleGenerator` and the action property `ClaimsKept`. `SlotInv` counts the
slots of a process: `SlotsCounted`, where a call that escaped counts as one that holds its slot. `AnswerInv` types what a child returned.
`LedgerInv` is the invariant of the ledger, taken over through an instance of
`BudgetLedgerProofs`: each runtime step is a ledger step or leaves it alone
(`RuntimeStepsLedger`), so that `RuntimeNeverOverspends` costs no second proof.
`LedgerUsed` states the same as a refinement: a behaviour of the runtime, failures
included, is one of the ledger's specification.
`WorkInv` links the two: a working call holds its own reservation, the policy
it was admitted under is still its run's, and the count of active children is the
number of open reservations. Together (`RuntimeInv`) they give `TypeCorrect`,
`NothingLeftReserved` and `ChildrenNeverTooMany`. Assumptions used: finitely many
calls, each with a run, a process and policies of the ledger's types; answers are of
the callback's type; the null values are distinct from records.

`DependencyDAGProofs`. `TypeInv` gives `TypeCorrect`. `RowInv` says that the statuses
follow the dependencies (`Follows`) and that the row of the run agrees with them. A
node's outcome alone breaks it: only the refresh (`RefreshFollows`) and the cascade of a failure
(`FailureFollows`, by an argument on the acyclic graph) that the same transaction
makes restore it; hence `StatusesFollow` and the action property `SettledForGood`. `JobInv` says that
a thread at a job has it running, that no two threads have the same one, that no job
or claim is of an attempt its node has not reached, and that before the first crash a
node was not executed more often than jobs of it were taken: `OncePerAttempt`. Assumptions used:
finitely many nodes, an acyclic graph (`_validate_specs`), zero to five repairs
(the contract's bound).

`RunSchedulerProofs`, for any number of processes, threads, databases and runs, in two
parts.

*Without a control plane* (`~Shared`, the scheduler without Redis). A
worker's writes do not name the lease they rely on, so safety needs `ExecInv`: the row a
worker is on is running, leased and carries its token from the claim to the last
write (`WorkRow`), and nobody else is on it (`OneOnRow`). It gives `SingleExecutor`
and `OutcomesFinal`. `AttemptsCounted` adds `BudgetInv`: a
row's attempts do not exceed the allowed ones by more than the process ends that cut
one short (`Cuts`), and are below that unless the row is final or taken, so that the
next claim stays within it. `RowsCarried` adds `CarriedInv`: without a stop every queued row has
a job in a pool or at a worker, every running one a worker, every retrying one a
timer. These theorems assume `Punctual`: a worker whose heartbeat lives keeps its lease.
It is needed: a worker that lost its lease may still write over its successor's row (the
hazard at `scheduler.py` 705), and the code relies on renewing three times per lease
period.

*Over the control plane.* `StepShape` is the form of every step: either one worker
moves, makes at most one call and makes it on the token it carries (`WorkerMoves`), or
no worker changes its place and the call carries no token (`CalmThreads`,
`CalmCalls`). The invariant `ClientInv` is the control plane's `FencingInv`, taken over
through an instance of `ControlPlaneProofs`, the states a thread can be in
(`StateTypes`), and `TokensIssued`: a worker past the shared claim carries a token that
was issued to its process. With it every step is a step of `ControlPlane`
(`ClientStep`), which in turn keeps `FencingInv`. Hence, with no hypothesis at all,
`TypeCorrect`, `ControlPlaneUsed` (the scheduler implements the control plane's
specification, whose callers are arbitrary; so nothing proved of the scripts is lost
through the way they are called) and `SharedRunsKept` (what they promise, in this system).
Where there is a control plane (`Shared`):
`OutcomesAgree` is `LocalAgreesWithShared`. It is not inductive: a worker writes
the row a step after the shared transition, and between them the run may be claimed,
lapse or be reclaimed by others. `ClosedShared` says that a worker about to
write a final outcome has it in the shared record already; that record is frozen
(`StatusFrozen`), whatever happens before the local write or to the worker, and a row's
outcome comes from such a worker only (`RowsMove`). No punctuality is needed.
`OneSettler` rests on `FencesApart`: a new grant is above every fence carried so far
(`FreshFence`), so of several workers left at one run by lapsed leases one can settle.
`SingleExecutorAnywhere` also assumes `Punctual` and adds `LeaseHeld`: a worker that
executes under a heartbeat holds the live lease. A worker whose heartbeat died
unnoticed (`BeatOutage`) is outside this theorem, since nothing keeps its lease;
`OneSettler` still covers it. `OneExecutor`, `OutcomeStable`, `AttemptsExact` and
`NothingForgotten` are about the rows of one database and are not claimed over the
control plane.

Assumptions used in both parts: finitely many runs, at least one attempt, callback
results among those the code distinguishes, and null values distinct from processes,
runs and requests.

`AgentLoopProofs`. Everything here is a statement about a log that a crash may cut at
any event, so its invariants are about all prefixes of the log. `GoodLog`: at every
prefix no step is open outside a turn, and every event is where its kind may be and
opens no step of a later turn. `GoodInbox`: at every prefix each pending message was
sent, is pending once and has not entered, and a message enters once. Both hold of a
prefix when they hold of the log (`KeepPrefix`, `PrefixInbox`), which is the case of
`Crash`; one lemma per event (`AddEvent`, `AddInbox`, `AddSplice`, `AddMark`,
`AddUser`) and one per batch the code writes (`SendLog`, `RemoveLog`, `ClearLog`,
`ClaimLog`, `AddUsers`, `EndLog`) cover growth. `ProjectJoin` makes the live inbox the
replay of the log: projecting a joined log is projecting its end from where its
beginning led. The invariant `Inv` adds `CtlInv`, which ties the place, turn and step
of the loop to the log's cursor, and `ClaimInv`: a claimed batch was sent, is no longer
pending and has not entered. From it `TypeCorrect`, `BoundariesNest`, `InboxReplays`
and `MessagesEnterOnce`. The cursor and the projection are recursive functions; that
their equations have a solution (`CursorsRec`, `ProjectionsRec`) is proved as well.
Assumption used: a context message is not a user's message.

`ToolCallsProofs`. `TypeCorrect` and `BarrierHolds`, for any number of calls and any
pool size, from `SchedInv`. That exclusive calls are barriers is not inductive:
`GroupInv` says that everything before the current group is committed, which is true
of the next group only because of `OrderInv`: a started call without a committed
result is in the pool or has settled, and when the pool is being filled only calls
in it may have settled, so an empty pool means that all of them are committed. A
body that settled without a result means a failure, after which no group follows.
`PoolInv` bounds the pool. `ModelOrderKept` and `EveryCallAnswered` rest on `LogInv`:
until the step ends the log is good, exactly the calls before `committed` have
results and those that started have their call events; at the end no body runs and,
unless the step failed, every call is answered. `GoodLog` holds of every prefix
(`LogPrefix`), so a crash keeps it, and `LogJoin` appends the results of skipped
calls (`LogSkipped`) and those the repair writes (`LogClosed`). Assumptions used: at
least one call, a positive pool.

`JobsProofs`. `TypeCorrect`, the action property `OutcomesStand` and
`NothingOrphaned`. Its invariant `OrphanInv` adds to `NoOrphans` that a producer
outlives the end of its record only after a forced failure (`ForcedOnly`) and that
the teardown of the service awaits every record left (`AllDraining`), which is what
makes clearing the store safe. `TeardownStep` collects what `cancelForTeardown`
does. `NothingSilent` and the action property `NoticesUnclaimed` rest on `ReportInv`:
before a record settles it is marked reported exactly when somebody was told or took
charge of it, and has no notice (`FlagInv`); a job that runs on while its service or owner is
torn down is taken charge of (`TakenCharge`), which is why the settlement of such a
job needs no notice; and a producer works only for a job that was started. Assumptions used: the host is not an owner; the bounds are natural numbers.

The type invariants of these modules and `TokensUnique` are proved and not
repeated in a run.

Only model-checked: liveness, which this prover cannot treat (`EveryRunSettles`,
`SharedRunSettles`, `EveryCallReturns`, `RunFinishes`, `WakeReplayed`,
`DisposalCompletes`, `StepEnds`, `TeardownEnds`), and the two violations of section 3.
Only proved, and in no run: `LeaseOnlyWhileRunning`, `OneAccepted`,
`OneExecutorAnywhere` and the two theorems that a component is used as specified.

## 5. Not modelled, and the plan

Order of the work, the most important behaviour first:

1. *Done*: control plane with its contract, scheduler over it, ledger, skill
   runtime over the ledger, local DAG with its bridge; agent loop with inbox and
   crash repair, tool-call scheduler, background jobs; proofs of every safety
   property of the passing runs.
2. *Next modules*: the composition of `Jobs` with `AgentLoop` (notices into a closing
   turn); subagent continuations (`H/subagent/subagent/src/continuation.ts`); the shared DAG form (node leases over `ControlPlane`, snapshots
   and revisions, `dag.py` 462-617; transitions and outbox, 777-970); ingestion
   budget (`control_plane.py` 366-427, `ingestion_pipelines/runtime.py`); spend
   guard; social approval and schedule; provider jobs; the gateway's rate limiter;
   preparation records of the scheduler; worker death in `SkillRuntime`; a smaller
   model of the bridge in which more nodes are ready than the claim limit takes, and
   submissions that raise in the DAG's liveness.
3. *Next theorems*: for the rows of one database over the control plane, how far a
   worker that lost its lease can undo an outcome (the hazard at `scheduler.py` 705);
   then the modules of item 2.

Left out for good: rendering pipelines; the harness's clients, user interface, API
catalogues, fixtures, type runtime and generators, which are most of its 350
thousand lines and hold no protocol; HTTP routing and file storage; prompt construction; message
texts, metadata and metrics.
