---------------------------- MODULE RunScheduler ----------------------------
(***************************************************************************)
(* LocalRunScheduler of api/scheduler.py: the durable run_queue rows, the  *)
(* bounded worker pool that claims and executes them, the lease heartbeat, *)
(* retries, cancellation, crash and restart, and, when Shared, the fenced  *)
(* control plane underneath (module ControlPlane).                         *)
(*                                                                         *)
(* A process runs Thread worker threads over the queue database DbOf[p].   *)
(* Every SQLite transaction and every control-plane call is one step, so   *)
(* other threads and processes interleave between them exactly where the   *)
(* code lets them.  Time is abstract as in ControlPlane: a lease lapses at *)
(* any moment, a backoff timer fires at any moment.                        *)
(***************************************************************************)
EXTENDS Naturals, Sequences, FiniteSets

CONSTANTS
    Proc,           \* scheduler processes
    Thread,         \* worker threads of one process (max_workers)
    Db,             \* queue databases
    DbOf,           \* [Proc -> Db], db_path of each process
    Run,            \* run identifiers
    Shared,         \* BOOLEAN, a control plane is configured
    NoRun, NoProc, Request, NoRequest,
    CallbackResults,\* what the execute callback may report
    Punctual,       \* BOOLEAN, a worker whose heartbeat lives keeps its leases
    MaxAttempts,    \* max_attempts
    MaxFence,       \* bound: shared grants per run
    MaxCrashes,     \* bound: process crashes
    MaxOutages,     \* bound: control-plane calls that raise
    MaxFailures,    \* bound: crashes and such calls together
    MaxPool,        \* bound: jobs waiting in one pool
    Cancels         \* SUBSET (Proc \X Run), cancellations that may be asked for

TERMINAL_STATES ==
    {"succeeded", "partial", "failed", "cancelled", "completed", "pending"}

ASSUME DbOfAssumption == DbOf \in [Proc -> Db]
ASSUME SharedAssumption == Shared \in BOOLEAN /\ Punctual \in BOOLEAN
ASSUME MaxAttemptsAssumption == MaxAttempts \in Nat \ {0}
ASSUME NoRunAssumption == NoRun \notin Run
ASSUME ControlPlaneAssumption ==
    NoProc \notin Proc /\ NoRequest # Request /\ MaxFence \in Nat
ASSUME FiniteRuns == IsFiniteSet(Run)
ASSUME ResultsAssumption ==
    CallbackResults \subseteq TERMINAL_STATES \cup {"retry", "error", "other"}

VARIABLES
    \* the control plane
    hash, status, owner, fence, lease, events, queue, pel, acked, issued,
    result, author,
    \* this scheduler
    row,        \* [Db -> [Run -> Row]], the run_queue table
    pool,       \* [Proc -> Seq(Job)], jobs waiting for a thread
    timers,     \* [Proc -> SUBSET Run], backoff timers running
    thr,        \* [Proc -> [Thread -> ThreadState]]
    signals,    \* [Proc -> [Run -> SUBSET Thread]], threads on the registered
                \*   cancel event of a run
    up,         \* [Proc -> {"up", "closed", "down"}]
    admitting,  \* [Proc -> SUBSET Run], submissions past admit, before insert
    cancels,    \* [Cancels -> {"no", "signalled", "done"}]
    crashes, outages

cpVars == <<hash, status, owner, fence, lease, events, queue, pel, acked,
            issued, result, author>>
procVars == <<pool, timers, thr, signals, up, admitting>>
othersOfThread == <<pool, timers, signals, up, admitting, cancels, crashes>>
bounds == <<crashes, outages>>
vars == <<cpVars, row, procVars, cancels, bounds>>

CP == INSTANCE ControlPlane WITH
    Key <- Run, Owner <- Proc, NoOwner <- NoProc, Hash <- {Request},
    NoHash <- NoRequest, Outcomes <- TERMINAL_STATES

\* A row; token stands for the random lease_token, drawn anew by each claim,
\* and is 0 while the column is NULL.
Row == [status : {"absent", "queued", "running", "retrying"} \cup TERMINAL_STATES,
        attempt : Nat, token : Nat, lease : {"none", "live", "lapsed"},
        dead : BOOLEAN, completed : Nat]

Absent == [status |-> "absent", attempt |-> 0, token |-> 0, lease |-> "none",
           dead |-> FALSE, completed |-> 0]

Queued(n) == [Absent EXCEPT !.status = "queued", !.attempt = n]

Job == [run : Run, kind : {"run", "message"}]

Idle == [pc |-> "idle", run |-> NoRun, kind |-> "run", token |-> 0,
         fence |-> 0, beat |-> "off", lost |-> FALSE, cancel |-> FALSE,
         out |-> "none", handler |-> FALSE]

Init ==
    /\ CP!Init
    /\ row = [d \in Db |-> [r \in Run |-> Absent]]
    /\ pool = [p \in Proc |-> <<>>]
    /\ timers = [p \in Proc |-> {}]
    /\ thr = [p \in Proc |-> [t \in Thread |-> Idle]]
    /\ signals = [p \in Proc |-> [r \in Run |-> {}]]
    /\ up = [p \in Proc |-> "up"]
    /\ admitting = [p \in Proc |-> {}]
    /\ cancels = [c \in Cancels |-> "no"]
    /\ crashes = 0 /\ outages = 0

-----------------------------------------------------------------------------
(* Shorthands                                                              *)

RowOf(p, r) == row[DbOf[p]][r]
SetRow(p, r, v) == row' = [row EXCEPT ![DbOf[p]][r] = v]
SetThread(p, t, s) == thr' = [thr EXCEPT ![p][t] = s]

\* Mutant: the job is never handed to the executor.
EnqueueForgotten(p, r, k) == UNCHANGED pool

Enqueue(p, r, k) ==
    pool' = [pool EXCEPT ![p] = Append(@, [run |-> r, kind |-> k])]

At(p, t, pc) == up[p] # "down" /\ thr[p][t].pc = pc

\* Where a thread goes when _worker returns: the message handler acknowledges.
WorkerDone(s) == IF s.kind = "message" THEN [Idle EXCEPT !.pc = "ack",
                                                          !.run = s.run,
                                                          !.kind = "message"]
                 ELSE Idle

TokenOf(p, t) == [key |-> thr[p][t].run, owner |-> p, fence |-> thr[p][t].fence]

-----------------------------------------------------------------------------
(* submit                                                                  *)

\* admit answers "created" once per run; a replay reads and returns.
SubmitAdmit(p, r) ==
    /\ Shared
    /\ up[p] = "up"
    /\ CP!Admit(r, Request)
    /\ admitting' = [admitting EXCEPT ![p] = @ \cup {r}]
    /\ UNCHANGED <<row, pool, timers, thr, signals, up, cancels, bounds>>

\* Without a control plane the insert is the admission; with one it follows it,
\* and finds the row in place if this database hydrated the run meanwhile.
SubmitInsert(p, r) ==
    /\ up[p] = "up"
    /\ Shared => r \in admitting[p]
    /\ IF RowOf(p, r).status = "absent"
       THEN SetRow(p, r, Queued(0)) /\ Enqueue(p, r, "run")
       ELSE Shared /\ UNCHANGED <<row, pool>>
    /\ admitting' = [admitting EXCEPT ![p] = @ \ {r}]
    /\ UNCHANGED <<cpVars, timers, thr, signals, up, cancels, bounds>>

-----------------------------------------------------------------------------
(* The discovery thread: poll first, reclaim when nothing is new           *)

DiscoverPoll(p) ==
    /\ Shared
    /\ up[p] = "up"
    /\ Len(pool[p]) < MaxPool
    /\ CP!Poll(p)
    /\ Enqueue(p, Head(queue), "message")
    /\ UNCHANGED <<row, timers, thr, signals, up, admitting, cancels, bounds>>

DiscoverReclaim(p, r) ==
    /\ Shared
    /\ up[p] = "up"
    /\ Len(pool[p]) < MaxPool
    /\ queue = <<>>
    /\ CP!Reclaim(p, r)
    /\ Enqueue(p, r, "message")
    /\ UNCHANGED <<row, timers, thr, signals, up, admitting, cancels, bounds>>

\* The executor hands the oldest job to a free thread.
TakeJob(p, t) ==
    /\ At(p, t, "idle")
    /\ pool[p] # <<>>
    /\ LET j == Head(pool[p]) IN
       SetThread(p, t, [Idle EXCEPT !.run = j.run, !.kind = j.kind,
                        !.pc = IF j.kind = "message" THEN "peek" ELSE "claim"])
    /\ pool' = [pool EXCEPT ![p] = Tail(@)]
    /\ UNCHANGED <<cpVars, row, timers, signals, up, admitting, cancels, bounds>>

-----------------------------------------------------------------------------
(* _consume_shared_message and _hydrate_shared                             *)

\* A run that looks running is left alone and its message stays pending.
Peek(p, t) ==
    /\ At(p, t, "peek")
    /\ SetThread(p, t, IF status[thr[p][t].run] = "running" THEN Idle
                       ELSE [thr[p][t] EXCEPT !.pc = "look"])
    /\ UNCHANGED <<cpVars, row, othersOfThread, outages>>

Look(p, t) ==
    /\ At(p, t, "look")
    /\ SetThread(p, t, [thr[p][t] EXCEPT !.pc =
            IF RowOf(p, thr[p][t].run).status = "absent" THEN "fetch" ELSE "claim"])
    /\ UNCHANGED <<cpVars, row, othersOfThread, outages>>

\* The attempt count of the shared record travels into the local row.
Fetch(p, t) ==
    /\ At(p, t, "fetch")
    /\ LET s == thr[p][t] IN
       SetThread(p, t, IF status[s.run] \in TERMINAL_STATES THEN WorkerDone(s)
                       ELSE [s EXCEPT !.pc = "hydrate", !.token = fence[s.run]])
    /\ UNCHANGED <<cpVars, row, othersOfThread, outages>>

Hydrate(p, t) ==
    /\ At(p, t, "hydrate")
    /\ LET s == thr[p][t] IN
       /\ IF RowOf(p, s.run).status = "absent" THEN SetRow(p, s.run, Queued(s.token))
          ELSE UNCHANGED row
       /\ SetThread(p, t, [s EXCEPT !.pc = "claim", !.token = 0])
    /\ UNCHANGED <<cpVars, othersOfThread, outages>>

Acknowledge(p, t) ==
    /\ At(p, t, "ack")
    /\ IF pel[thr[p][t].run] # NoProc THEN CP!Ack(thr[p][t].run) ELSE UNCHANGED cpVars
    /\ SetThread(p, t, Idle)
    /\ UNCHANGED <<row, othersOfThread, outages>>

-----------------------------------------------------------------------------
(* _worker: the local claim, the shared claim, the cancel event            *)

\* Mutant: the lease is not looked at.
ClaimableDespiteLease(v) == v.status \in {"queued", "running"}

\* Mutant: a row is claimed only once.
ClaimableOnce(v) == v.status = "queued" /\ v.attempt = 0

LocallyClaimable(v) ==
    \/ v.status = "queued"
    \/ v.status = "running" /\ v.lease # "live"

ClaimLocal(p, t) ==
    /\ At(p, t, "claim")
    /\ LET s == thr[p][t]
           v == RowOf(p, s.run) IN
       IF LocallyClaimable(v)
       THEN /\ SetRow(p, s.run, [v EXCEPT !.status = "running", !.lease = "live",
                                 !.attempt = @ + 1, !.token = v.attempt + 1])
            /\ SetThread(p, t, [s EXCEPT !.token = v.attempt + 1,
                                !.pc = IF Shared THEN "share" ELSE "listen"])
       ELSE SetThread(p, t, WorkerDone(s)) /\ UNCHANGED row
    /\ UNCHANGED <<cpVars, othersOfThread, outages>>

ClaimShared(p, t) ==
    /\ At(p, t, "share")
    /\ LET s == thr[p][t] IN
       IF CP!Claimable(s.run)
       THEN /\ CP!Claim(s.run, p)
            /\ SetThread(p, t, [s EXCEPT !.pc = "listen", !.fence = CP!NextFence(s.run)])
       ELSE SetThread(p, t, [s EXCEPT !.pc = "requeue"]) /\ UNCHANGED cpVars
    /\ UNCHANGED <<row, othersOfThread, outages>>

\* The row goes back to queued whoever runs it by now; no job is submitted.
RequeueLocalClaim(p, t) ==
    /\ At(p, t, "requeue")
    /\ LET s == thr[p][t]
           v == RowOf(p, s.run) IN
       /\ IF v.status = "running"
          THEN SetRow(p, s.run, [v EXCEPT !.status = "queued", !.lease = "none"])
          ELSE UNCHANGED row
       /\ SetThread(p, t, WorkerDone(s))
    /\ UNCHANGED <<cpVars, othersOfThread, outages>>

\* setdefault joins the event another thread of the process registered.
Listen(p, t) ==
    /\ At(p, t, "listen")
    /\ LET s == thr[p][t] IN
       /\ signals' = [signals EXCEPT ![p][s.run] = @ \cup {t}]
       /\ SetThread(p, t, [s EXCEPT !.pc = "exec", !.beat = "local",
                !.cancel = \E u \in signals[p][s.run] : thr[p][u].cancel])
    /\ UNCHANGED <<cpVars, row, pool, timers, up, admitting, cancels, bounds>>

-----------------------------------------------------------------------------
(* The heartbeat thread of an executing worker                             *)

Beating(p, t, b) == /\ up[p] # "down"
                    /\ thr[p][t].pc \in {"exec", "settle", "record"}
                    /\ thr[p][t].beat = b

\* The renewal asks only that the row is running, not whose lease it is.
BeatLocal(p, t) ==
    /\ Beating(p, t, "local")
    /\ LET s == thr[p][t]
           v == RowOf(p, s.run) IN
       IF v.status = "running"
       THEN /\ SetRow(p, s.run, [v EXCEPT !.lease = "live"])
            /\ SetThread(p, t, [s EXCEPT !.beat = IF Shared THEN "shared" ELSE "local"])
       ELSE /\ SetThread(p, t, [s EXCEPT !.beat = "off", !.lost = TRUE])
            /\ UNCHANGED row
    /\ UNCHANGED <<cpVars, othersOfThread, outages>>

BeatShared(p, t) ==
    /\ Beating(p, t, "shared")
    /\ LET s == thr[p][t] IN
       IF CP!Holds(TokenOf(p, t))
       THEN CP!Renew(TokenOf(p, t)) /\ SetThread(p, t, [s EXCEPT !.beat = "local"])
       ELSE /\ SetThread(p, t, [s EXCEPT !.beat = "off", !.lost = TRUE])
            /\ UNCHANGED cpVars
    /\ UNCHANGED <<row, othersOfThread, outages>>

-----------------------------------------------------------------------------
(* Execution and settlement                                                *)

\* A result is settled inside the try block, an exception in its handler.
\* "retry" is a retryable exception (a timeout too) or a failed result marked
\* retryable, "error" any other exception, "other" a status that is not terminal.
Reported(o) == CASE o = "other" -> "completed"
                 [] o = "error" -> "failed"
                 [] OTHER       -> o

Execute(p, t) ==
    /\ At(p, t, "exec")
    /\ LET s == thr[p][t]
           settle == IF Shared THEN "settle" ELSE "record" IN
       \/ s.lost /\ SetThread(p, t, [s EXCEPT !.pc = "cleanup"])
       \/ /\ ~s.lost
          /\ \E o \in CallbackResults :
               SetThread(p, t, [s EXCEPT !.pc = settle, !.out = Reported(o),
                                !.handler = (o \in {"retry", "error"})])
       \/ /\ ~s.lost /\ s.cancel
          /\ SetThread(p, t, [s EXCEPT !.pc = settle, !.handler = TRUE,
                              !.out = "cancelled"])
    /\ UNCHANGED <<cpVars, row, othersOfThread, outages>>

\* Mutant: one attempt too many.
RetriesOneMore(s) == s.out = "retry" /\ s.token <= MaxAttempts

Retries(s) == s.out = "retry" /\ s.token < MaxAttempts
Final(s) == IF s.out = "retry" THEN "failed" ELSE s.out

\* StaleLeaseError: nothing is written locally.
StaleGivesUp(s) == [s EXCEPT !.pc = "cleanup"]

\* The fenced half of _set_terminal and _schedule_retry.
SettleCall(p, t) ==
    IF Retries(thr[p][t]) THEN CP!ScheduleRetry(TokenOf(p, t))
    ELSE CP!Transition(TokenOf(p, t), Final(thr[p][t]))

SettleShared(p, t) ==
    /\ At(p, t, "settle")
    /\ IF CP!Holds(TokenOf(p, t))
       THEN SettleCall(p, t) /\ SetThread(p, t, [thr[p][t] EXCEPT !.pc = "record"])
       ELSE SetThread(p, t, StaleGivesUp(thr[p][t])) /\ UNCHANGED cpVars
    /\ UNCHANGED <<row, othersOfThread, outages>>

\* The local half.  A terminal write matches the lease token and no status; its
\* event is inserted whether or not it matched.  A retry matches the run alone.
DeadLetter(s) == s.out = "retry"

TerminalWrite(v, s) ==
    LET w == IF v.token \in {0, s.token}
             THEN [v EXCEPT !.status = Final(s), !.lease = "none",
                            !.dead = DeadLetter(s)]
             ELSE v
    IN [w EXCEPT !.completed = @ + 1]

RetryWrite(v, s) == [v EXCEPT !.status = "retrying", !.lease = "none"]

Record(p, t) ==
    /\ At(p, t, "record")
    /\ LET s == thr[p][t]
           v == RowOf(p, s.run) IN
       /\ IF Retries(s)
          THEN /\ SetRow(p, s.run, RetryWrite(v, s))
               /\ timers' = [timers EXCEPT ![p] = @ \cup {s.run}]
          ELSE /\ SetRow(p, s.run, TerminalWrite(v, s))
               /\ UNCHANGED timers
       /\ SetThread(p, t, [s EXCEPT !.pc = "cleanup"])
    /\ UNCHANGED <<cpVars, pool, signals, up, admitting, cancels, bounds>>

\* finally: the heartbeat stops and the run's cancel event is dropped.
Cleanup(p, t) ==
    /\ At(p, t, "cleanup")
    /\ SetThread(p, t, WorkerDone(thr[p][t]))
    /\ signals' = [signals EXCEPT ![p][thr[p][t].run] = {}]
    /\ UNCHANGED <<cpVars, row, pool, timers, up, admitting, cancels, bounds>>

ReleaseRetry(p, r) ==
    /\ up[p] = "up"
    /\ r \in timers[p]
    /\ timers' = [timers EXCEPT ![p] = @ \ {r}]
    /\ IF RowOf(p, r).status = "retrying"
       THEN /\ SetRow(p, r, [RowOf(p, r) EXCEPT !.status = "queued"])
            /\ Enqueue(p, r, "run")
       ELSE UNCHANGED <<row, pool>>
    /\ UNCHANGED <<cpVars, thr, signals, up, admitting, cancels, bounds>>

-----------------------------------------------------------------------------
(* cancel and close                                                        *)

\* Every thread of p that waits on one of the events learns of it.
Signal(p, ts) ==
    thr' = [thr EXCEPT ![p] = [t \in Thread |->
                IF t \in ts THEN [thr[p][t] EXCEPT !.cancel = TRUE] ELSE thr[p][t]]]

CancelSignal(p, r) ==
    /\ up[p] = "up"
    /\ <<p, r>> \in Cancels /\ cancels[<<p, r>>] = "no"
    /\ cancels' = [cancels EXCEPT ![<<p, r>>] = "signalled"]
    /\ Signal(p, signals[p][r])
    /\ UNCHANGED <<cpVars, row, pool, timers, signals, up, admitting, bounds>>

\* Mutant: any row can be cancelled.
CancellableAlways(v) == v.status # "absent"

Cancellable(v) == v.status \in {"queued", "retrying"}

CancelRow(p, r) ==
    /\ up[p] = "up"
    /\ <<p, r>> \in Cancels /\ cancels[<<p, r>>] = "signalled"
    /\ cancels' = [cancels EXCEPT ![<<p, r>>] = "done"]
    /\ IF Cancellable(RowOf(p, r))
       THEN SetRow(p, r, [RowOf(p, r) EXCEPT !.status = "cancelled", !.lease = "none"])
       ELSE UNCHANGED row
    /\ UNCHANGED <<cpVars, procVars, bounds>>

MayStop == crashes < MaxCrashes /\ crashes + outages < MaxFailures

\* Waiting jobs are dropped; threads that run go on to their end.
Close(p) ==
    /\ up[p] = "up"
    /\ MayStop
    /\ crashes' = crashes + 1
    /\ up' = [up EXCEPT ![p] = "closed"]
    /\ pool' = [pool EXCEPT ![p] = <<>>]
    /\ Signal(p, UNION {signals[p][r] : r \in Run})
    /\ UNCHANGED <<cpVars, row, timers, signals, admitting, cancels, outages>>

-----------------------------------------------------------------------------
(* Time, crash and restart                                                 *)

\* A thread between its claim of the row and its last write to it.
Working(p, t, r) ==
    /\ thr[p][t].run = r
    /\ thr[p][t].pc \in {"share", "requeue", "listen", "exec", "settle", "record"}

\* Its leases are fresh, or its heartbeat is still there to renew them.
Renewing(p, t, r) ==
    Working(p, t, r) /\ (thr[p][t].pc \in {"exec", "settle", "record"} => thr[p][t].beat # "off")

LapseLocal(d, r) ==
    /\ row[d][r].lease = "live"
    /\ Punctual => \A p \in Proc, t \in Thread :
            ~(DbOf[p] = d /\ Renewing(p, t, r) /\ thr[p][t].token = row[d][r].token)
    /\ row' = [row EXCEPT ![d][r].lease = "lapsed"]
    /\ UNCHANGED <<cpVars, procVars, cancels, bounds>>

LapseShared(r) ==
    /\ Punctual => \A p \in Proc, t \in Thread :
            ~(Renewing(p, t, r) /\ thr[p][t].fence = fence[r])
    /\ CP!Lapse(r)
    /\ UNCHANGED <<row, procVars, cancels, bounds>>

\* The process ends; only its database and the control plane survive.
Stop(p) ==
    /\ up' = [up EXCEPT ![p] = "down"]
    /\ pool' = [pool EXCEPT ![p] = <<>>]
    /\ timers' = [timers EXCEPT ![p] = {}]
    /\ thr' = [thr EXCEPT ![p] = [t \in Thread |-> Idle]]
    /\ signals' = [signals EXCEPT ![p] = [r \in Run |-> {}]]
    /\ admitting' = [admitting EXCEPT ![p] = {}]
    /\ UNCHANGED <<cpVars, row, cancels, outages>>

Crash(p) ==
    /\ up[p] = "up"
    /\ MayStop
    /\ crashes' = crashes + 1
    /\ Stop(p)

Exit(p) ==
    /\ up[p] = "closed"
    /\ Stop(p)
    /\ UNCHANGED crashes

\* _recover_expired_leases: lapsed running rows, and retrying rows whose
\* retry_at has passed, are queued again; the rest are left as they are.
Recovered(v, due) ==
    IF \/ v.status = "running" /\ v.lease = "lapsed"
       \/ v.status = "retrying" /\ due
    THEN [v EXCEPT !.status = "queued", !.lease = "none"] ELSE v

Orders(S) == {f \in [1 .. Cardinality(S) -> S] : \A i, j \in DOMAIN f : f[i] = f[j] => i = j}

\* A new scheduler on the same database submits every queued row.
Restart(p) ==
    /\ up[p] = "down"
    /\ up' = [up EXCEPT ![p] = "up"]
    /\ \E due \in SUBSET Run :
         LET table == [r \in Run |-> Recovered(row[DbOf[p]][r], r \in due)] IN
         /\ row' = [row EXCEPT ![DbOf[p]] = table]
         /\ \E order \in Orders({r \in Run : table[r].status = "queued"}) :
              pool' = [pool EXCEPT ![p] =
                  [i \in DOMAIN order |-> [run |-> order[i], kind |-> "run"]]]
    /\ UNCHANGED <<cpVars, timers, thr, signals, admitting, cancels, bounds>>

-----------------------------------------------------------------------------
(* Control-plane calls that raise: the call may or may not have reached    *)
(* Redis.  None of these errors is a retryable exception of the scheduler. *)

Outage ==
    /\ outages < MaxOutages /\ crashes + outages < MaxFailures
    /\ outages' = outages + 1

\* submit fails; the admission may stand without a local row.
SubmitOutage(p, r) ==
    /\ Shared /\ up[p] = "up"
    /\ Outage
    /\ CP!Admit(r, Request)
    /\ UNCHANGED <<row, procVars, cancels, crashes>>

\* Redis delivered an entry to p and the answer was lost: the loop waits and goes
\* on, and the entry stays pending without a job.  (A poll or reclaim that raised
\* before Redis did it changes nothing.)
DiscoverOutage(p) ==
    /\ Shared /\ up[p] = "up"
    /\ Outage
    /\ \/ CP!Poll(p)
       \/ queue = <<>> /\ \E r \in Run : CP!Reclaim(p, r)
    /\ UNCHANGED <<row, procVars, cancels, crashes>>

\* The handler's finally clause acknowledges the message it could not read.
ReadOutage(p, t) ==
    /\ At(p, t, "peek") \/ At(p, t, "fetch")
    /\ Outage
    /\ SetThread(p, t, WorkerDone(thr[p][t]))
    /\ UNCHANGED <<cpVars, row, othersOfThread>>

\* The worker dies before its try block: the local claim stays behind.
ClaimOutage(p, t) ==
    /\ At(p, t, "share")
    /\ Outage
    /\ CP!Claim(thr[p][t].run, p) \/ UNCHANGED cpVars
    /\ SetThread(p, t, WorkerDone(thr[p][t]))
    /\ UNCHANGED <<row, othersOfThread>>

\* Mutant: the error is swallowed and the local row written as planned.
OutageIgnored(s) == [s EXCEPT !.pc = "record"]

\* Raised in the try block it becomes a failure and is settled again; raised in
\* the handler it ends the worker.
AfterSettleOutage(s) ==
    IF s.handler \/ s.lost THEN [s EXCEPT !.pc = "cleanup"]
    ELSE [s EXCEPT !.out = "failed", !.handler = TRUE]

SettleOutage(p, t) ==
    /\ At(p, t, "settle")
    /\ Outage
    /\ \/ CP!Holds(TokenOf(p, t)) /\ SettleCall(p, t)
       \/ UNCHANGED cpVars
    /\ SetThread(p, t, AfterSettleOutage(thr[p][t]))
    /\ UNCHANGED <<row, othersOfThread>>

\* The heartbeat thread catches stale leases only, so it dies unnoticed.
BeatOutage(p, t) ==
    /\ Beating(p, t, "shared")
    /\ Outage
    /\ SetThread(p, t, [thr[p][t] EXCEPT !.beat = "off"])
    /\ UNCHANGED <<cpVars, row, othersOfThread>>

AckOutage(p, t) ==
    /\ At(p, t, "ack")
    /\ Outage
    /\ SetThread(p, t, Idle)
    /\ UNCHANGED <<cpVars, row, othersOfThread>>

-----------------------------------------------------------------------------
ThreadStep(p, t) ==
    \/ TakeJob(p, t)
    \/ Peek(p, t) \/ Look(p, t) \/ Fetch(p, t) \/ Hydrate(p, t)
    \/ ClaimLocal(p, t) \/ ClaimShared(p, t) \/ RequeueLocalClaim(p, t)
    \/ Listen(p, t) \/ Execute(p, t)
    \/ SettleShared(p, t) \/ Record(p, t) \/ Cleanup(p, t)
    \/ Acknowledge(p, t)

OutageStep(p) ==
    \/ \E r \in Run : SubmitOutage(p, r)
    \/ DiscoverOutage(p)
    \/ \E t \in Thread : \/ ReadOutage(p, t)
                         \/ ClaimOutage(p, t)
                         \/ SettleOutage(p, t)
                         \/ BeatOutage(p, t)
                         \/ AckOutage(p, t)

Next ==
    \/ \E p \in Proc :
        \/ \E t \in Thread : ThreadStep(p, t) \/ BeatLocal(p, t) \/ BeatShared(p, t)
        \/ \E r \in Run : \/ SubmitAdmit(p, r) \/ SubmitInsert(p, r)
                          \/ DiscoverReclaim(p, r) \/ ReleaseRetry(p, r)
                          \/ CancelSignal(p, r) \/ CancelRow(p, r)
        \/ DiscoverPoll(p)
        \/ Close(p) \/ Crash(p) \/ Exit(p) \/ Restart(p)
        \/ OutageStep(p)
    \/ \E d \in Db, r \in Run : LapseLocal(d, r)
    \/ \E r \in Run : LapseShared(r)

Spec == Init /\ [][Next]_vars

\* Threads and timers run on, callbacks return, the discovery loop keeps
\* polling, a process that stopped is started again, and a lease that nobody
\* renews runs out.
Fairness ==
    /\ \A p \in Proc, t \in Thread : WF_vars(ThreadStep(p, t))
    /\ \A p \in Proc, r \in Run :
        /\ WF_vars(r \in admitting[p] /\ SubmitInsert(p, r))
        /\ WF_vars(ReleaseRetry(p, r))
        /\ WF_vars(DiscoverReclaim(p, r))
    /\ \A p \in Proc : WF_vars(DiscoverPoll(p)) /\ WF_vars(Exit(p)) /\ WF_vars(Restart(p))
    /\ \A d \in Db, r \in Run : WF_vars(LapseLocal(d, r))
    /\ \A r \in Run : WF_vars(LapseShared(r))

FairSpec == Spec /\ Fairness

-----------------------------------------------------------------------------
(* Properties                                                              *)

\* Type invariant of the scheduler's own state.
TypeOK ==
    /\ row \in [Db -> [Run -> Row]]
    /\ \A p \in Proc : \A i \in DOMAIN pool[p] : pool[p][i] \in Job
    /\ timers \in [Proc -> SUBSET Run]
    /\ signals \in [Proc -> [Run -> SUBSET Thread]]
    /\ up \in [Proc -> {"up", "closed", "down"}]
    /\ admitting \in [Proc -> SUBSET Run]
    /\ \A p \in Proc, t \in Thread : (thr[p][t].pc = "idle") <=> (thr[p][t].run = NoRun)

\* A run is executed by one worker at a time, whichever processes share its
\* queue database (_claim refuses a row whose lease is live).
OneExecutor ==
    \A p, q \in Proc, t, u \in Thread, r \in Run :
        /\ DbOf[p] = DbOf[q] /\ Working(p, t, r) /\ Working(q, u, r)
        => p = q /\ t = u

\* The outcome a caller can read from the queue row never changes afterwards:
\* no late retry, requeue, cancellation, recovery or second worker touches it.
OutcomeStable ==
    [][\A d \in Db, r \in Run : row[d][r].status \in TERMINAL_STATES =>
         row'[d][r] = row[d][r]]_vars

\* The attempts are counted exactly over retries, requeues, crashes and restarts: beyond
\* max_attempts there are only those a crash or a shutdown cut short, and a run marked as a
\* dead letter failed with its attempts used up.
AttemptsExact ==
    \A d \in Db, r \in Run :
        /\ row[d][r].attempt <= MaxAttempts + crashes
        /\ row[d][r].dead => row[d][r].status = "failed" /\ row[d][r].attempt >= MaxAttempts

\* The job, thread or timer that will carry a row on.
HasJob(d, r) == \E p \in Proc : DbOf[p] = d /\
    \/ \E i \in DOMAIN pool[p] : pool[p][i].run = r
    \/ \E t \in Thread : thr[p][t].run = r /\ thr[p][t].pc \in {"peek", "look", "claim"}
HasWorker(d, r) == \E p \in Proc, t \in Thread : DbOf[p] = d /\ Working(p, t, r)
HasTimer(d, r) == \E p \in Proc : DbOf[p] = d /\ r \in timers[p]

\* While nothing crashes no row is forgotten: a queued row has a job, a running
\* row has a worker, a retrying row has a timer.
NothingForgotten ==
    crashes = 0 => \A d \in Db, r \in Run :
        /\ row[d][r].status = "queued" => HasJob(d, r)
        /\ row[d][r].status = "running" => HasWorker(d, r)
        /\ row[d][r].status = "retrying" => HasTimer(d, r)

\* As long as no process crashes or is closed, a run that was queued reaches a
\* terminal state, whatever its callback reports and whoever cancels it.
EveryRunSettles ==
    \A d \in Db, r \in Run :
        row[d][r].status = "queued" /\ crashes = 0
        ~> row[d][r].status \in TERMINAL_STATES \/ crashes > 0

\* A final outcome in a process's own database is the one every other process
\* reads from the control plane (cancellation stays local).
LocalAgreesWithShared ==
    \A d \in Db, r \in Run :
        row[d][r].status \in CP!ClaimTerminal \ {"cancelled"} =>
            status[r] = row[d][r].status

\* An admitted run reaches a final state in the control plane.
SharedRunSettles ==
    \A r \in Run : status[r] = "queued" ~> status[r] \in TERMINAL_STATES

-----------------------------------------------------------------------------
(* What the documents and comments say, and the code does not keep         *)

\* "if that worker dies, a later reclaim can safely retry it": a pending entry
\* of a run whose lease lapsed is not left lying for ever.
DeadWorkersRunRetried ==
    \A r \in Run :
        pel[r] # NoProc /\ status[r] = "running" /\ lease[r] = "lapsed"
        ~> status[r] # "running" \/ lease[r] = "live"
=============================================================================
