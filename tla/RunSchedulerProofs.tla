------------------------- MODULE RunSchedulerProofs -------------------------
(***************************************************************************)
(* Proofs about RunScheduler for any number of processes, threads,         *)
(* databases and runs.                                                     *)
(*                                                                         *)
(* The first part is the scheduler without a control plane (~Shared),      *)
(* where a worker whose heartbeat lives keeps its lease (Punctual).        *)
(* The writes of a worker do not name the lease they rely on: a retry      *)
(* matches the run alone, a renewal any running row.  What makes them safe *)
(* is that a row a worker is on is running, leased and carries the         *)
(* worker's token from its claim to its last write.  The rest follows: no  *)
(* second worker can claim it, no other path of the code touches it, and   *)
(* an attempt is cut short only by the crash or shutdown of its process.   *)
(*                                                                         *)
(* The second part is the scheduler over the control plane.  Every step    *)
(* either moves one worker, which makes at most one call on the token it   *)
(* carries, or leaves the workers where they are.  So the scheduler is a   *)
(* client of ControlPlane, whose invariant (proved in ControlPlaneProofs)  *)
(* holds in it, and what a worker may do follows from the token it has.    *)
(***************************************************************************)
EXTENDS RunScheduler, Integers, FiniteSetTheorems, TLAPS

\* The places of _worker without a control plane.
AtRow == {"listen", "exec", "record"}
LocalThread ==
    [pc : {"idle", "claim", "cleanup"} \cup AtRow, run : Run \cup {NoRun}, kind : {"run"},
     token : Nat, fence : {0}, beat : {"off", "local"}, lost : {FALSE}, cancel : BOOLEAN,
     out : {"none", "retry"} \cup TERMINAL_STATES, handler : BOOLEAN]
LocalJob == [run : Run, kind : {"run"}]

LocalTypes ==
    /\ row \in [Db -> [Run -> Row]]
    /\ thr \in [Proc -> [Thread -> LocalThread]]
    /\ pool \in [Proc -> Seq(LocalJob)]
    /\ timers \in [Proc -> SUBSET Run]
    /\ signals \in [Proc -> [Run -> SUBSET Thread]]
    /\ up \in [Proc -> {"up", "closed", "down"}]
    /\ admitting \in [Proc -> SUBSET Run]
    /\ crashes \in Nat

\* A thread has a run unless it is idle, and a heartbeat while it executes.
ThreadInv ==
    \A p \in Proc, t \in Thread :
        /\ thr[p][t].pc = "idle" <=> thr[p][t].run = NoRun
        /\ thr[p][t].pc \in {"exec", "record"} => thr[p][t].beat = "local"
        /\ thr[p][t].pc = "record" => thr[p][t].out # "none"

\* A row somebody works on is running, leased, and carries the worker's token.
OnRow(p, t, r) == thr[p][t].run = r /\ thr[p][t].pc \in AtRow
WorkRow ==
    \A p \in Proc, t \in Thread, r \in Run : OnRow(p, t, r) =>
        /\ RowOf(p, r).status = "running" /\ RowOf(p, r).lease = "live"
        /\ RowOf(p, r).token = thr[p][t].token

\* The lease token stands for the attempt, only a running row has a lease, and a
\* dead letter used up its attempts.
RowInv ==
    \A d \in Db, r \in Run :
        /\ row[d][r].token = row[d][r].attempt
        /\ row[d][r].lease # "none" => row[d][r].status = "running"
        /\ row[d][r].dead => row[d][r].status = "failed" /\ row[d][r].attempt >= MaxAttempts

\* Nobody else is on it.
OneOnRow ==
    \A p, q \in Proc, t, u \in Thread, r \in Run :
        DbOf[p] = DbOf[q] /\ OnRow(p, t, r) /\ OnRow(q, u, r) => p = q /\ t = u

ExecInv == LocalTypes /\ ThreadInv /\ WorkRow /\ RowInv /\ OneOnRow

\* The attempts a process end has cut short: a process that is closed and not yet
\* gone was counted as a stop, and has cut nothing so far.
Closed == {p \in Proc : up[p] = "closed"}
Cuts == crashes - Cardinality(Closed)

Taken(d, r) == \E p \in Proc, t \in Thread : DbOf[p] = d /\ OnRow(p, t, r)
CutsInv == IsFiniteSet(Closed) /\ Cuts \in Nat
BudgetInv ==
    /\ CutsInv
    /\ \A d \in Db, r \in Run :
          /\ row[d][r].attempt <= MaxAttempts + Cuts
          /\ row[d][r].status \notin TERMINAL_STATES /\ ~Taken(d, r)
                => row[d][r].attempt < MaxAttempts + Cuts

\* What carries a row on: a job or a claiming thread, a worker, or a timer.  Without
\* a stop every process is up and every row has it.
InPool(p, r) == \E i \in DOMAIN pool[p] : pool[p][i].run = r
Claiming(p, t, r) == thr[p][t].run = r /\ thr[p][t].pc = "claim"
Ready(d, r) == \E p \in Proc : DbOf[p] = d /\ (InPool(p, r) \/ \E t \in Thread : Claiming(p, t, r))
RowCarried(d, r) ==
    /\ row[d][r].status = "queued" => Ready(d, r)
    /\ row[d][r].status = "running" => Taken(d, r)
    /\ row[d][r].status = "retrying" => HasTimer(d, r)
CarriedInv ==
    crashes = 0 => /\ \A p \in Proc : up[p] = "up"
                   /\ \A d \in Db, r \in Run : RowCarried(d, r)

-----------------------------------------------------------------------------
(* What a step without a control plane can be                              *)

LocalThreadStep(p, t) ==
    \/ TakeJob(p, t) \/ ClaimLocal(p, t) \/ Listen(p, t) \/ Execute(p, t)
    \/ Record(p, t) \/ Cleanup(p, t) \/ BeatLocal(p, t)

LocalStep(p) ==
    \/ \E t \in Thread : LocalThreadStep(p, t)
    \/ \E r \in Run : SubmitInsert(p, r) \/ ReleaseRetry(p, r) \/ CancelSignal(p, r) \/ CancelRow(p, r)
    \/ Close(p) \/ Crash(p) \/ Exit(p) \/ Restart(p)

LocalNext ==
    \/ \E p \in Proc : LocalStep(p)
    \/ \E d \in Db, r \in Run : LapseLocal(d, r)
    \/ \E r \in Run : LapseShared(r)

\* Nothing of the message path or of the control plane is ever reached.
LEMMA NoSharedStep ==
    ASSUME ~Shared, LocalTypes, Next
    PROVE  LocalNext
<1>1. \A p \in Proc, t \in Thread :
        /\ thr[p][t].pc \in {"idle", "claim", "cleanup", "listen", "exec", "record"}
        /\ thr[p][t].beat # "shared"
  <2>1. \A p \in Proc, t \in Thread : thr[p][t] \in LocalThread
    BY DEF LocalTypes
  <2>q. QED
    BY <2>1 DEF LocalThread, AtRow
<1>2. ASSUME NEW p \in Proc, NEW t \in Thread, ThreadStep(p, t) PROVE LocalThreadStep(p, t)
  BY <1>1, <1>2 DEF ThreadStep, LocalThreadStep, Peek, Look, Fetch, Hydrate, ClaimShared,
     RequeueLocalClaim, SettleShared, Acknowledge, At
<1>3. ASSUME NEW p \in Proc, NEW t \in Thread PROVE ~BeatShared(p, t)
  BY <1>1 DEF BeatShared, Beating
<1>4. ASSUME NEW p \in Proc PROVE ~OutageStep(p)
  BY <1>1 DEF OutageStep, SubmitOutage, DiscoverOutage, ReadOutage, ClaimOutage, SettleOutage, BeatOutage,
     AckOutage, At, Beating
<1>5. ASSUME NEW p \in Proc, NEW r \in Run PROVE ~SubmitAdmit(p, r) /\ ~DiscoverReclaim(p, r)
  BY DEF SubmitAdmit, DiscoverReclaim
<1>6. ASSUME NEW p \in Proc PROVE ~DiscoverPoll(p)
  BY DEF DiscoverPoll
<1>q. QED
  BY <1>2, <1>3, <1>4, <1>5, <1>6 DEF Next, LocalNext, LocalStep, LocalThreadStep

-----------------------------------------------------------------------------
(* One entry of a two-level table                                          *)

LEMMA ThreadPut ==
    ASSUME NEW h \in [Proc -> [Thread -> LocalThread]], NEW p \in Proc, NEW t \in Thread,
           NEW s \in LocalThread, NEW g, g = [h EXCEPT ![p][t] = s]
    PROVE  /\ g \in [Proc -> [Thread -> LocalThread]]
           /\ \A q \in Proc, u \in Thread : g[q][u] = IF q = p /\ u = t THEN s ELSE h[q][u]
  OBVIOUS

LEMMA RowPut ==
    ASSUME NEW h \in [Db -> [Run -> Row]], NEW d \in Db, NEW r \in Run,
           NEW v \in Row, NEW g, g = [h EXCEPT ![d][r] = v]
    PROVE  /\ g \in [Db -> [Run -> Row]]
           /\ \A e \in Db, x \in Run : g[e][x] = IF e = d /\ x = r THEN v ELSE h[e][x]
  OBVIOUS

\* The fields of a thread, and the threads the code builds.
LEMMA ThreadFields ==
    ASSUME NEW s \in LocalThread
    PROVE  /\ s.pc \in {"idle", "claim", "cleanup"} \cup AtRow /\ s.run \in Run \cup {NoRun}
           /\ s.kind = "run" /\ s.token \in Nat /\ s.beat \in {"off", "local"}
           /\ s.lost = FALSE /\ s.out \in {"none", "retry"} \cup TERMINAL_STATES
           /\ s.handler \in BOOLEAN
  BY DEF LocalThread

LEMMA IdleThread == Idle \in LocalThread /\ Idle.pc = "idle" /\ Idle.run = NoRun
  BY DEF Idle, LocalThread

LEMMA DoneThread ==
    ASSUME NEW s \in LocalThread
    PROVE  WorkerDone(s) = Idle
  BY ThreadFields DEF WorkerDone

LEMMA ClaimerThread ==
    ASSUME NEW j \in LocalJob, NEW g,
           g = [Idle EXCEPT !.run = j.run, !.kind = j.kind,
                            !.pc = IF j.kind = "message" THEN "peek" ELSE "claim"]
    PROVE  g \in LocalThread /\ g.run = j.run /\ g.run \in Run /\ g.pc = "claim"
<1>1. j.kind = "run" /\ j.run \in Run
  BY DEF LocalJob
<1>2. PICK r \in Run : r = j.run
  BY <1>1
<1>3. g = [Idle EXCEPT !.run = r, !.kind = "run", !.pc = "claim"]
  BY <1>1, <1>2
<1>q. QED
  BY <1>2, <1>3, IdleThread DEF LocalThread

LEMMA ExecThread ==
    ASSUME NEW s \in LocalThread, NEW c \in BOOLEAN, NEW g,
           g = [s EXCEPT !.pc = "exec", !.beat = "local", !.cancel = c]
    PROVE  g \in LocalThread /\ g.token = s.token /\ g.pc = "exec" /\ g.run = s.run /\ g.beat = "local"
  BY DEF LocalThread, AtRow

LEMMA CancelThread ==
    ASSUME NEW s \in LocalThread, NEW g,
           g = [s EXCEPT !.pc = "record", !.handler = TRUE, !.out = "cancelled"]
    PROVE  /\ g \in LocalThread /\ g.token = s.token /\ g.pc = "record" /\ g.run = s.run
           /\ g.beat = s.beat /\ g.out # "none"
  BY DEF LocalThread, AtRow, TERMINAL_STATES

LEMMA CleanupThread ==
    ASSUME NEW s \in LocalThread
    PROVE  /\ [s EXCEPT !.pc = "cleanup"] \in LocalThread
           /\ [s EXCEPT !.pc = "cleanup"].pc = "cleanup"
           /\ [s EXCEPT !.pc = "cleanup"].run = s.run
  BY DEF LocalThread, AtRow

LEMMA CancelledThread ==
    ASSUME NEW s \in LocalThread
    PROVE  /\ [s EXCEPT !.cancel = TRUE] \in LocalThread
           /\ [s EXCEPT !.cancel = TRUE].pc = s.pc
           /\ [s EXCEPT !.cancel = TRUE].run = s.run
           /\ [s EXCEPT !.cancel = TRUE].token = s.token
           /\ [s EXCEPT !.cancel = TRUE].beat = s.beat
           /\ [s EXCEPT !.cancel = TRUE].out = s.out
  BY DEF LocalThread

\* The rows the code writes.
LEMMA ClaimedRow ==
    ASSUME NEW v \in Row, NEW w,
           w = [v EXCEPT !.status = "running", !.lease = "live",
                         !.attempt = @ + 1, !.token = v.attempt + 1]
    PROVE  /\ w \in Row /\ w.status = "running" /\ w.lease = "live"
           /\ w.attempt = v.attempt + 1 /\ w.token = v.attempt + 1 /\ w.dead = v.dead
<1>1. v.attempt + 1 \in Nat
  BY DEF Row
<1>2. PICK n \in Nat : n = v.attempt + 1
  BY <1>1
<1>3. w = [v EXCEPT !.status = "running", !.lease = "live", !.attempt = n, !.token = n]
  BY <1>2
<1>q. QED
  BY <1>2, <1>3 DEF Row

LEMMA FinalRow ==
    ASSUME NEW v \in Row, NEW s \in LocalThread, v.token = s.token, s.out # "none", NEW w,
           w = TerminalWrite(v, s)
    PROVE  /\ w \in Row /\ w.status = Final(s) /\ w.status \in TERMINAL_STATES /\ w.lease = "none"
           /\ w.attempt = v.attempt /\ w.token = v.token /\ w.dead = (s.out = "retry")
<1>1. Final(s) \in TERMINAL_STATES
  BY ThreadFields DEF Final, TERMINAL_STATES
<1>2. DeadLetter(s) = (s.out = "retry")
  BY DEF DeadLetter
<1>3. PICK f \in TERMINAL_STATES, b \in BOOLEAN : f = Final(s) /\ b = DeadLetter(s)
  BY <1>1, <1>2
<1>4. PICK u : u = [v EXCEPT !.status = f, !.lease = "none", !.dead = b]
  OBVIOUS
<1>5. /\ u \in Row /\ u.status = f /\ u.lease = "none"
      /\ u.attempt = v.attempt /\ u.token = v.token /\ u.dead = b
  BY <1>4 DEF Row
<1>6. w = [u EXCEPT !.completed = u.completed + 1]
  BY <1>3, <1>4 DEF TerminalWrite
<1>7. u.completed + 1 \in Nat
  BY <1>5 DEF Row
<1>8. PICK n \in Nat : w = [u EXCEPT !.completed = n]
  BY <1>6, <1>7
<1>9. /\ w \in Row /\ w.status = f /\ w.lease = "none"
      /\ w.attempt = u.attempt /\ w.token = u.token /\ w.dead = b
  BY <1>5, <1>8 DEF Row
<1>q. QED
  BY <1>1, <1>2, <1>3, <1>5, <1>9

LEMMA FreshRow ==
    /\ Absent \in Row /\ Absent.status = "absent" /\ Absent.attempt = 0 /\ Absent.token = 0
    /\ Absent.lease = "none" /\ Absent.dead = FALSE
    /\ Queued(0) \in Row /\ Queued(0).status = "queued" /\ Queued(0).attempt = 0
    /\ Queued(0).token = 0 /\ Queued(0).lease = "none" /\ Queued(0).dead = FALSE
  BY DEF Absent, Queued, Row

-----------------------------------------------------------------------------
(* What each step does to the threads and to the rows                      *)

ThreadSet(p, t, s) ==
    /\ thr' \in [Proc -> [Thread -> LocalThread]] /\ s \in LocalThread
    /\ \A q \in Proc, u \in Thread : thr'[q][u] = IF q = p /\ u = t THEN s ELSE thr[q][u]
RowSet(d, r, w) ==
    /\ row' \in [Db -> [Run -> Row]] /\ w \in Row
    /\ \A e \in Db, x \in Run : row'[e][x] = IF e = d /\ x = r THEN w ELSE row[e][x]

LEMMA SetThreadSets ==
    ASSUME LocalTypes, NEW p \in Proc, NEW t \in Thread, NEW s \in LocalThread, SetThread(p, t, s)
    PROVE  ThreadSet(p, t, s)
  BY ThreadPut DEF LocalTypes, SetThread, ThreadSet

LEMMA SetRowSets ==
    ASSUME LocalTypes, NEW p \in Proc, NEW r \in Run, NEW w \in Row, SetRow(p, r, w)
    PROVE  RowSet(DbOf[p], r, w)
  BY RowPut, DbOfAssumption DEF LocalTypes, SetRow, RowSet

LEMMA RunOfBusy ==
    ASSUME LocalTypes, ThreadInv, NEW p \in Proc, NEW t \in Thread, thr[p][t].pc # "idle"
    PROVE  /\ thr[p][t] \in LocalThread /\ thr[p][t].run \in Run
           /\ RowOf(p, thr[p][t].run) \in Row /\ DbOf[p] \in Db
<1>1. thr[p][t] \in LocalThread
  BY DEF LocalTypes
<1>2. thr[p][t].run \in Run
  BY <1>1, ThreadFields DEF ThreadInv
<1>q. QED
  BY <1>1, <1>2, DbOfAssumption DEF LocalTypes, RowOf

LEMMA TakeEffect ==
    ASSUME LocalTypes, NEW p \in Proc, NEW t \in Thread, TakeJob(p, t)
    PROVE  /\ pool[p] # <<>> /\ pool[p] \in Seq(LocalJob) /\ thr[p][t].pc = "idle"
           /\ \E s : /\ ThreadSet(p, t, s) /\ s.pc = "claim" /\ s.run \in Run
                     /\ s.run = Head(pool[p]).run
<1>1. pool[p] # <<>> /\ pool[p] \in Seq(LocalJob) /\ thr[p][t].pc = "idle"
  BY DEF TakeJob, At, LocalTypes
<1>2. Head(pool[p]) \in LocalJob
  BY <1>1
<1>3. PICK s : s = [Idle EXCEPT !.run = Head(pool[p]).run, !.kind = Head(pool[p]).kind,
                        !.pc = IF Head(pool[p]).kind = "message" THEN "peek" ELSE "claim"]
  OBVIOUS
<1>4. s \in LocalThread /\ s.run = Head(pool[p]).run /\ s.run \in Run /\ s.pc = "claim"
  BY <1>2, <1>3, ClaimerThread
<1>5. SetThread(p, t, s)
  BY <1>3 DEF TakeJob
<1>q. QED
  BY <1>1, <1>4, <1>5, SetThreadSets

LEMMA ClaimEffect ==
    ASSUME ~Shared, LocalTypes, ThreadInv, NEW p \in Proc, NEW t \in Thread, ClaimLocal(p, t),
           NEW r, r = thr[p][t].run
    PROVE  /\ r \in Run /\ thr[p][t].pc = "claim"
           /\ \/ /\ LocallyClaimable(RowOf(p, r))
                 /\ \E s, w : /\ ThreadSet(p, t, s) /\ RowSet(DbOf[p], r, w)
                              /\ s.run = r /\ s.pc = "listen" /\ s.token = w.token
                              /\ w.status = "running" /\ w.lease = "live"
                              /\ w.attempt = RowOf(p, r).attempt + 1 /\ w.token = w.attempt
                              /\ w.dead = RowOf(p, r).dead
              \/ ~LocallyClaimable(RowOf(p, r)) /\ ThreadSet(p, t, Idle) /\ row' = row
<1>1. thr[p][t].pc = "claim" /\ thr[p][t] \in LocalThread /\ r \in Run /\ RowOf(p, r) \in Row
  BY RunOfBusy DEF ClaimLocal, At
<1>2. CASE LocallyClaimable(RowOf(p, r))
  <2>1. PICK w : w = [RowOf(p, r) EXCEPT !.status = "running", !.lease = "live",
                          !.attempt = @ + 1, !.token = RowOf(p, r).attempt + 1]
    OBVIOUS
  <2>2. /\ w \in Row /\ w.status = "running" /\ w.lease = "live"
        /\ w.attempt = RowOf(p, r).attempt + 1 /\ w.token = RowOf(p, r).attempt + 1
        /\ w.dead = RowOf(p, r).dead
    BY <1>1, <2>1, ClaimedRow
  <2>3. PICK n \in Nat : n = RowOf(p, r).attempt + 1
    BY <1>1 DEF Row
  <2>4. PICK s : s = [thr[p][t] EXCEPT !.token = n, !.pc = "listen"]
    OBVIOUS
  <2>5. s \in LocalThread /\ s.token = w.token /\ s.pc = "listen" /\ s.run = r
    <3>1. s \in LocalThread /\ s.token = n /\ s.pc = "listen" /\ s.run = thr[p][t].run
      BY <1>1, <2>4 DEF LocalThread, AtRow
    <3>q. QED
      BY <2>2, <2>3, <3>1
  <2>6. SetRow(p, r, w) /\ SetThread(p, t, s)
    BY <1>2, <2>1, <2>3, <2>4 DEF ClaimLocal
  <2>q. QED
    BY <1>1, <1>2, <2>2, <2>5, <2>6, SetThreadSets, SetRowSets
<1>3. CASE ~LocallyClaimable(RowOf(p, r))
  <2>1. SetThread(p, t, Idle) /\ row' = row
    BY <1>1, <1>3, DoneThread DEF ClaimLocal
  <2>q. QED
    BY <1>1, <1>3, <2>1, IdleThread, SetThreadSets
<1>q. QED
  BY <1>2, <1>3

\* Listen and Execute: the worker goes on with the same row and token.
LEMMA WorkEffect ==
    ASSUME ~Shared, LocalTypes, ThreadInv, NEW p \in Proc, NEW t \in Thread,
           Listen(p, t) \/ Execute(p, t)
    PROVE  /\ row' = row /\ thr[p][t].pc \in AtRow
           /\ \E s : /\ ThreadSet(p, t, s) /\ s.run = thr[p][t].run /\ s.token = thr[p][t].token
                     /\ s.pc \in {"exec", "record"} /\ s.beat = "local"
                     /\ s.pc = "record" => s.out # "none"
<1>1. thr[p][t].pc \in AtRow /\ thr[p][t].pc # "idle" /\ row' = row
  BY DEF Listen, Execute, At, AtRow
<1>2. thr[p][t] \in LocalThread
  BY <1>1, RunOfBusy
<1>3. CASE Listen(p, t)
  <2>1. PICK c \in BOOLEAN : c = (\E u \in signals[p][thr[p][t].run] : thr[p][u].cancel)
    OBVIOUS
  <2>2. PICK s : s = [thr[p][t] EXCEPT !.pc = "exec", !.beat = "local", !.cancel = c]
    OBVIOUS
  <2>3. SetThread(p, t, s)
    BY <1>3, <2>1, <2>2 DEF Listen
  <2>4. /\ s \in LocalThread /\ s.token = thr[p][t].token /\ s.pc = "exec"
        /\ s.run = thr[p][t].run /\ s.beat = "local"
    BY <1>2, <2>2, ExecThread
  <2>q. QED
    BY <1>1, <2>3, <2>4, SetThreadSets
<1>4. CASE Execute(p, t)
  <2>1. thr[p][t].beat = "local" /\ ~thr[p][t].lost
    BY <1>2, <1>4, ThreadFields DEF ThreadInv, Execute, At
  <2>2. \A o \in CallbackResults : Reported(o) \in {"retry"} \cup TERMINAL_STATES
    BY ResultsAssumption DEF Reported, TERMINAL_STATES
  <2>3. CASE \E o \in CallbackResults :
               SetThread(p, t, [thr[p][t] EXCEPT !.pc = "record", !.out = Reported(o),
                                !.handler = (o \in {"retry", "error"})])
    <3>1. PICK c \in CallbackResults :
               SetThread(p, t, [thr[p][t] EXCEPT !.pc = "record", !.out = Reported(c),
                                !.handler = (c \in {"retry", "error"})])
      BY <2>3
    <3>2. PICK o \in {"retry"} \cup TERMINAL_STATES : o = Reported(c)
      BY <2>2
    <3>3. PICK h \in BOOLEAN : h = (c = "retry" \/ c = "error")
      OBVIOUS
    <3>4. (c \in {"retry", "error"}) = (c = "retry" \/ c = "error")
      OBVIOUS
    <3>5. PICK s : s = [thr[p][t] EXCEPT !.pc = "record", !.out = o, !.handler = h]
      OBVIOUS
    <3>6. SetThread(p, t, s)
      BY <3>1, <3>2, <3>3, <3>4, <3>5
    <3>7. /\ s \in LocalThread /\ s.token = thr[p][t].token /\ s.pc = "record"
          /\ s.run = thr[p][t].run /\ s.beat = thr[p][t].beat /\ s.out = o
      BY <1>2, <3>5 DEF LocalThread, AtRow
    <3>8. o # "none"
      BY DEF TERMINAL_STATES
    <3>q. QED
      BY <1>1, <2>1, <3>6, <3>7, <3>8, SetThreadSets
  <2>4. CASE SetThread(p, t, [thr[p][t] EXCEPT !.pc = "record", !.handler = TRUE,
                              !.out = "cancelled"])
    <3>1. PICK s : s = [thr[p][t] EXCEPT !.pc = "record", !.handler = TRUE, !.out = "cancelled"]
      OBVIOUS
    <3>2. /\ s \in LocalThread /\ s.token = thr[p][t].token /\ s.pc = "record"
          /\ s.run = thr[p][t].run /\ s.beat = "local" /\ s.out # "none"
      BY <1>2, <2>1, <3>1, CancelThread
    <3>q. QED
      BY <1>1, <2>4, <3>1, <3>2, SetThreadSets
  <2>q. QED
    BY <1>4, <2>1, <2>3, <2>4 DEF Execute
<1>q. QED
  BY <1>3, <1>4

\* The last write to the row: a retry below the limit, or an outcome.
LEMMA RecordEffect ==
    ASSUME LocalTypes, ThreadInv, WorkRow, NEW p \in Proc, NEW t \in Thread, Record(p, t),
           NEW r, r = thr[p][t].run
    PROVE  /\ r \in Run /\ thr[p][t].pc = "record"
           /\ \E s, w :
                /\ ThreadSet(p, t, s) /\ s.run = r /\ s.pc = "cleanup"
                /\ RowSet(DbOf[p], r, w)
                /\ w.attempt = RowOf(p, r).attempt /\ w.token = RowOf(p, r).token
                /\ w.lease = "none"
                /\ \/ /\ w.status = "retrying" /\ w.dead = RowOf(p, r).dead
                      /\ w.token < MaxAttempts
                      /\ timers' = [timers EXCEPT ![p] = @ \cup {r}]
                   \/ /\ w.status \in TERMINAL_STATES /\ timers' = timers
                      /\ w.dead => w.status = "failed" /\ w.token >= MaxAttempts
<1>1. thr[p][t].pc = "record" /\ thr[p][t] \in LocalThread /\ r \in Run /\ RowOf(p, r) \in Row
  BY RunOfBusy DEF Record, At
<1>2. RowOf(p, r).token = thr[p][t].token /\ thr[p][t].out # "none"
  BY <1>1 DEF WorkRow, OnRow, AtRow, ThreadInv
<1>3. thr[p][t].token \in Nat
  BY <1>1, ThreadFields
<1>4. PICK s : s = [thr[p][t] EXCEPT !.pc = "cleanup"]
  OBVIOUS
<1>5. ThreadSet(p, t, s) /\ s.run = r /\ s.pc = "cleanup"
  <2>1. SetThread(p, t, s)
    BY <1>4 DEF Record
  <2>2. s \in LocalThread /\ s.run = r /\ s.pc = "cleanup"
    BY <1>1, <1>4, CleanupThread
  <2>q. QED
    BY <2>1, <2>2, SetThreadSets
<1>6. CASE Retries(thr[p][t])
  <2>1. PICK w : w = RetryWrite(RowOf(p, r), thr[p][t])
    OBVIOUS
  <2>2. /\ w \in Row /\ w.status = "retrying" /\ w.lease = "none" /\ w.dead = RowOf(p, r).dead
        /\ w.attempt = RowOf(p, r).attempt /\ w.token = RowOf(p, r).token
    BY <1>1, <2>1 DEF RetryWrite, Row
  <2>3. SetRow(p, r, w) /\ timers' = [timers EXCEPT ![p] = @ \cup {r}]
    BY <1>6, <2>1 DEF Record
  <2>4. w.token < MaxAttempts
    BY <1>2, <1>6, <2>2 DEF Retries
  <2>q. QED
    BY <1>1, <1>5, <2>2, <2>3, <2>4, SetRowSets
<1>7. CASE ~Retries(thr[p][t])
  <2>1. PICK w : w = TerminalWrite(RowOf(p, r), thr[p][t])
    OBVIOUS
  <2>2. /\ w \in Row /\ w.status = Final(thr[p][t]) /\ w.status \in TERMINAL_STATES /\ w.lease = "none"
        /\ w.attempt = RowOf(p, r).attempt /\ w.token = RowOf(p, r).token
        /\ w.dead = (thr[p][t].out = "retry")
    BY <1>1, <1>2, <2>1, FinalRow
  <2>3. SetRow(p, r, w) /\ timers' = timers
    BY <1>7, <2>1 DEF Record
  <2>4. w.dead => w.status = "failed" /\ w.token >= MaxAttempts
    <3>1. w.dead => thr[p][t].out = "retry"
      BY <2>2
    <3>2. thr[p][t].out = "retry" => w.status = "failed"
      BY <2>2 DEF Final
    <3>3. thr[p][t].out = "retry" => thr[p][t].token >= MaxAttempts
      BY <1>3, <1>7, MaxAttemptsAssumption DEF Retries
    <3>q. QED
      BY <1>2, <2>2, <3>1, <3>2, <3>3
  <2>q. QED
    BY <1>1, <1>5, <2>2, <2>3, <2>4, SetRowSets
<1>q. QED
  BY <1>6, <1>7

LEMMA CleanupEffect ==
    ASSUME LocalTypes, ThreadInv, NEW p \in Proc, NEW t \in Thread, Cleanup(p, t)
    PROVE  ThreadSet(p, t, Idle) /\ thr[p][t].pc = "cleanup" /\ row' = row
<1>1. thr[p][t].pc = "cleanup" /\ thr[p][t] \in LocalThread /\ row' = row
  BY RunOfBusy DEF Cleanup, At
<1>2. SetThread(p, t, Idle)
  BY <1>1, DoneThread DEF Cleanup
<1>q. QED
  BY <1>1, <1>2, IdleThread, SetThreadSets

\* The renewal finds the row running and leased: nothing changes.
LEMMA BeatEffect ==
    ASSUME ~Shared, LocalTypes, ThreadInv, WorkRow, NEW p \in Proc, NEW t \in Thread, BeatLocal(p, t)
    PROVE  /\ thr' \in [Proc -> [Thread -> LocalThread]] /\ row' \in [Db -> [Run -> Row]]
           /\ \A q \in Proc, u \in Thread : thr'[q][u] = thr[q][u]
           /\ \A e \in Db, x \in Run : row'[e][x] = row[e][x]
<1> DEFINE r == thr[p][t].run
<1>1. /\ thr[p][t].pc \in {"exec", "record"} /\ thr[p][t] \in LocalThread
      /\ r \in Run /\ RowOf(p, r) \in Row
  <2>1. thr[p][t] \in LocalThread
    BY DEF LocalTypes
  <2>2. thr[p][t].pc \in {"exec", "record"}
    BY <2>1, ThreadFields DEF BeatLocal, Beating, AtRow
  <2>q. QED
    BY <2>2, RunOfBusy
<1>2. RowOf(p, r).status = "running" /\ RowOf(p, r).lease = "live" /\ thr[p][t].beat = "local"
  BY <1>1 DEF WorkRow, OnRow, AtRow, ThreadInv
<1>3. /\ SetRow(p, r, [RowOf(p, r) EXCEPT !.lease = "live"])
      /\ SetThread(p, t, [thr[p][t] EXCEPT !.beat = "local"])
  BY <1>2 DEF BeatLocal
<1>4. [RowOf(p, r) EXCEPT !.lease = "live"] = RowOf(p, r)
  BY <1>1, <1>2 DEF Row
<1>5. [thr[p][t] EXCEPT !.beat = "local"] = thr[p][t]
  BY <1>1, <1>2 DEF LocalThread
<1>6. ThreadSet(p, t, thr[p][t]) /\ RowSet(DbOf[p], r, RowOf(p, r))
  BY <1>1, <1>3, <1>4, <1>5, SetRowSets, SetThreadSets
<1>q. QED
  BY <1>6 DEF ThreadSet, RowSet, RowOf

\* A row that is not worked on changes: submitted, released, cancelled or lapsed.
LEMMA SubmitEffect ==
    ASSUME ~Shared, LocalTypes, NEW p \in Proc, NEW r \in Run, SubmitInsert(p, r)
    PROVE  /\ thr' = thr /\ DbOf[p] \in Db /\ RowOf(p, r).status = "absent"
           /\ RowSet(DbOf[p], r, Queued(0)) /\ Enqueue(p, r, "run")
<1>1. thr' = thr /\ RowOf(p, r).status = "absent" /\ SetRow(p, r, Queued(0)) /\ Enqueue(p, r, "run")
  BY DEF SubmitInsert
<1>q. QED
  BY <1>1, FreshRow, SetRowSets, DbOfAssumption

LEMMA ReleaseEffect ==
    ASSUME LocalTypes, RowInv, NEW p \in Proc, NEW r \in Run, ReleaseRetry(p, r)
    PROVE  /\ thr' = thr /\ timers' = [timers EXCEPT ![p] = @ \ {r}]
           /\ \/ row' = row /\ pool' = pool /\ RowOf(p, r).status # "retrying"
              \/ /\ RowOf(p, r).status = "retrying" /\ Enqueue(p, r, "run")
                 /\ \E w : /\ RowSet(DbOf[p], r, w) /\ w.status = "queued" /\ w.lease = "none"
                           /\ w.attempt = RowOf(p, r).attempt /\ w.token = RowOf(p, r).token
                           /\ w.dead = RowOf(p, r).dead
<1>1. thr' = thr /\ timers' = [timers EXCEPT ![p] = @ \ {r}]
  BY DEF ReleaseRetry
<1>2. CASE RowOf(p, r).status = "retrying"
  <2>1. RowOf(p, r) \in Row /\ RowOf(p, r).lease = "none"
    BY <1>2, DbOfAssumption DEF LocalTypes, RowOf, RowInv
  <2>2. PICK w : w = [RowOf(p, r) EXCEPT !.status = "queued"]
    OBVIOUS
  <2>3. /\ w \in Row /\ w.status = "queued" /\ w.lease = "none"
        /\ w.attempt = RowOf(p, r).attempt /\ w.token = RowOf(p, r).token
        /\ w.dead = RowOf(p, r).dead
    BY <2>1, <2>2 DEF Row
  <2>4. SetRow(p, r, w) /\ Enqueue(p, r, "run")
    BY <1>2, <2>2 DEF ReleaseRetry
  <2>q. QED
    BY <1>1, <1>2, <2>3, <2>4, SetRowSets
<1>3. CASE RowOf(p, r).status # "retrying"
  BY <1>1, <1>3 DEF ReleaseRetry
<1>q. QED
  BY <1>2, <1>3

LEMMA CancelEffect ==
    ASSUME LocalTypes, NEW p \in Proc, NEW r \in Run, CancelRow(p, r)
    PROVE  /\ thr' = thr
           /\ \/ row' = row
              \/ /\ RowOf(p, r).status \in {"queued", "retrying"}
                 /\ \E w : /\ RowSet(DbOf[p], r, w) /\ w.status = "cancelled" /\ w.lease = "none"
                           /\ w.attempt = RowOf(p, r).attempt /\ w.token = RowOf(p, r).token
                           /\ w.dead = RowOf(p, r).dead
<1>1. thr' = thr
  BY DEF CancelRow, procVars
<1>2. CASE Cancellable(RowOf(p, r))
  <2>1. RowOf(p, r) \in Row
    BY DbOfAssumption DEF LocalTypes, RowOf
  <2>2. PICK w : w = [RowOf(p, r) EXCEPT !.status = "cancelled", !.lease = "none"]
    OBVIOUS
  <2>3. /\ w \in Row /\ w.status = "cancelled" /\ w.lease = "none"
        /\ w.attempt = RowOf(p, r).attempt /\ w.token = RowOf(p, r).token
        /\ w.dead = RowOf(p, r).dead
    BY <2>1, <2>2 DEF Row, TERMINAL_STATES
  <2>4. SetRow(p, r, w)
    BY <1>2, <2>2 DEF CancelRow
  <2>q. QED
    BY <1>1, <1>2, <2>3, <2>4, SetRowSets DEF Cancellable
<1>3. CASE ~Cancellable(RowOf(p, r))
  BY <1>1, <1>3 DEF CancelRow
<1>q. QED
  BY <1>2, <1>3

\* A row somebody works on is not lapsed: its worker holds the row's own token.
LEMMA LapseEffect ==
    ASSUME Punctual, LocalTypes, ThreadInv, WorkRow, NEW d \in Db, NEW r \in Run, LapseLocal(d, r)
    PROVE  /\ thr' = thr /\ row[d][r].lease = "live"
           /\ \A p \in Proc, t \in Thread : ~(DbOf[p] = d /\ OnRow(p, t, r))
           /\ \E w : /\ RowSet(d, r, w) /\ w.status = row[d][r].status /\ w.lease = "lapsed"
                     /\ w.attempt = row[d][r].attempt /\ w.token = row[d][r].token
                     /\ w.dead = row[d][r].dead
<1>1. thr' = thr /\ row[d][r].lease = "live" /\ row[d][r] \in Row
  BY DEF LapseLocal, procVars, LocalTypes
<1>2. \A p \in Proc, t \in Thread : ~(DbOf[p] = d /\ OnRow(p, t, r))
  <2> SUFFICES ASSUME NEW p \in Proc, NEW t \in Thread, DbOf[p] = d, OnRow(p, t, r) PROVE FALSE
    OBVIOUS
  <2>1. thr[p][t].token = row[d][r].token
    BY DEF WorkRow, RowOf
  <2>2. Renewing(p, t, r)
    BY DEF Renewing, Working, OnRow, AtRow, ThreadInv
  <2>q. QED
    BY <2>1, <2>2 DEF LapseLocal
<1>3. PICK w : w = [row[d][r] EXCEPT !.lease = "lapsed"]
  OBVIOUS
<1>4. /\ w \in Row /\ w.status = row[d][r].status /\ w.lease = "lapsed"
      /\ w.attempt = row[d][r].attempt /\ w.token = row[d][r].token /\ w.dead = row[d][r].dead
  BY <1>1, <1>3 DEF Row
<1>5. row' = [row EXCEPT ![d][r] = w]
  BY <1>3 DEF LapseLocal, LocalTypes
<1>6. RowSet(d, r, w)
  BY <1>4, <1>5, RowPut DEF LocalTypes, RowSet
<1>q. QED
  BY <1>1, <1>2, <1>4, <1>6

LEMMA SignalEffect ==
    ASSUME LocalTypes, NEW p \in Proc, NEW ts, Signal(p, ts)
    PROVE  /\ thr' \in [Proc -> [Thread -> LocalThread]]
           /\ \A q \in Proc, u \in Thread :
                 /\ thr'[q][u].pc = thr[q][u].pc /\ thr'[q][u].run = thr[q][u].run
                 /\ thr'[q][u].token = thr[q][u].token /\ thr'[q][u].beat = thr[q][u].beat
                 /\ thr'[q][u].out = thr[q][u].out
<1>1. PICK g : g = [t \in Thread |-> IF t \in ts THEN [thr[p][t] EXCEPT !.cancel = TRUE] ELSE thr[p][t]]
  OBVIOUS
<1>2. \A t \in Thread : thr[p][t] \in LocalThread
  BY DEF LocalTypes
<1>3. \A t \in Thread : g[t] \in LocalThread
  BY <1>1, <1>2, CancelledThread
<1>4. \A t \in Thread : /\ g[t].pc = thr[p][t].pc /\ g[t].run = thr[p][t].run
                        /\ g[t].token = thr[p][t].token /\ g[t].beat = thr[p][t].beat
                        /\ g[t].out = thr[p][t].out
  BY <1>1, <1>2, CancelledThread
<1>5. g \in [Thread -> LocalThread]
  BY <1>1, <1>3
<1>6. thr' = [thr EXCEPT ![p] = g]
  BY <1>1 DEF Signal
<1>7. thr' \in [Proc -> [Thread -> LocalThread]]
  BY <1>5, <1>6 DEF LocalTypes
<1>8. \A q \in Proc : thr'[q] = IF q = p THEN g ELSE thr[q]
  BY <1>6 DEF LocalTypes
<1>q. QED
  BY <1>4, <1>7, <1>8

LEMMA StopEffect ==
    ASSUME LocalTypes, NEW p \in Proc, Stop(p)
    PROVE  /\ thr' \in [Proc -> [Thread -> LocalThread]] /\ row' = row
           /\ \A q \in Proc, u \in Thread : thr'[q][u] = IF q = p THEN Idle ELSE thr[q][u]
<1>1. PICK g : g = [t \in Thread |-> Idle]
  OBVIOUS
<1>2. g \in [Thread -> LocalThread] /\ \A t \in Thread : g[t] = Idle
  BY <1>1, IdleThread
<1>3. thr' = [thr EXCEPT ![p] = g] /\ row' = row
  BY <1>1 DEF Stop
<1>4. thr' \in [Proc -> [Thread -> LocalThread]]
  BY <1>2, <1>3 DEF LocalTypes
<1>q. QED
  BY <1>2, <1>3, <1>4 DEF LocalTypes

\* A row goes from v to w when a new scheduler recovers it.
Requeued(v, w) ==
    /\ (v.status = "running" /\ v.lease = "lapsed") \/ v.status = "retrying"
    /\ w.status = "queued" /\ w.lease = "none"
    /\ w.attempt = v.attempt /\ w.token = v.token /\ w.dead = v.dead

LEMMA RecoveredRow ==
    ASSUME NEW v \in Row, NEW due
    PROVE  Recovered(v, due) \in Row /\ (Recovered(v, due) = v \/ Requeued(v, Recovered(v, due)))
<1>1. CASE (v.status = "running" /\ v.lease = "lapsed") \/ (v.status = "retrying" /\ due)
  <2>1. PICK w : w = [v EXCEPT !.status = "queued", !.lease = "none"]
    OBVIOUS
  <2>2. w = Recovered(v, due)
    BY <1>1, <2>1 DEF Recovered
  <2>3. /\ w \in Row /\ w.status = "queued" /\ w.lease = "none"
        /\ w.attempt = v.attempt /\ w.token = v.token /\ w.dead = v.dead
    BY <2>1 DEF Row
  <2>q. QED
    BY <1>1, <2>2, <2>3 DEF Requeued
<1>2. CASE ~((v.status = "running" /\ v.lease = "lapsed") \/ (v.status = "retrying" /\ due))
  BY <1>2 DEF Recovered
<1>q. QED
  BY <1>1, <1>2

LEMMA RestartEffect ==
    ASSUME LocalTypes, NEW p \in Proc, Restart(p)
    PROVE  /\ thr' = thr /\ row' \in [Db -> [Run -> Row]]
           /\ \A e \in Db, x \in Run : row'[e][x] = row[e][x] \/ Requeued(row[e][x], row'[e][x])
           /\ pool' \in [Proc -> Seq(LocalJob)]
<1>0. PICK due \in SUBSET Run :
        LET table == [r \in Run |-> Recovered(row[DbOf[p]][r], r \in due)] IN
        /\ row' = [row EXCEPT ![DbOf[p]] = table]
        /\ \E order \in Orders({r \in Run : table[r].status = "queued"}) :
              pool' = [pool EXCEPT ![p] =
                  [i \in DOMAIN order |-> [run |-> order[i], kind |-> "run"]]]
  BY DEF Restart
<1>1. PICK table :
        /\ table = [r \in Run |-> Recovered(row[DbOf[p]][r], r \in due)]
        /\ row' = [row EXCEPT ![DbOf[p]] = table]
        /\ \E order \in Orders({r \in Run : table[r].status = "queued"}) :
              pool' = [pool EXCEPT ![p] =
                  [i \in DOMAIN order |-> [run |-> order[i], kind |-> "run"]]]
  BY <1>0
<1>2. \A x \in Run : row[DbOf[p]][x] \in Row
  BY DbOfAssumption DEF LocalTypes
<1>3. \A x \in Run : /\ table[x] \in Row
                     /\ table[x] = row[DbOf[p]][x] \/ Requeued(row[DbOf[p]][x], table[x])
  <2> SUFFICES ASSUME NEW x \in Run
               PROVE  /\ table[x] \in Row
                      /\ table[x] = row[DbOf[p]][x] \/ Requeued(row[DbOf[p]][x], table[x])
    OBVIOUS
  <2>1. table[x] = Recovered(row[DbOf[p]][x], x \in due)
    BY <1>1
  <2>q. QED
    BY <1>2, <2>1, RecoveredRow
<1>4. table \in [Run -> Row]
  BY <1>1, <1>3
<1>5. row' \in [Db -> [Run -> Row]] /\ \A e \in Db : row'[e] = IF e = DbOf[p] THEN table ELSE row[e]
  BY <1>1, <1>4, DbOfAssumption DEF LocalTypes
<1>6. pool' \in [Proc -> Seq(LocalJob)]
  <2>1. PICK S, order : /\ S \in SUBSET Run /\ order \in Orders(S)
                        /\ pool' = [pool EXCEPT ![p] =
                              [i \in DOMAIN order |-> [run |-> order[i], kind |-> "run"]]]
    BY <1>1
  <2>2. Cardinality(S) \in Nat
    BY <2>1, FiniteRuns, FS_Subset, FS_CardinalityType
  <2>3. PICK n \in Nat : order \in [1 .. n -> S]
    BY <2>1, <2>2 DEF Orders
  <2>4. PICK jobs : jobs = [i \in 1 .. n |-> [run |-> order[i], kind |-> "run"]]
    OBVIOUS
  <2>5. jobs \in [1 .. n -> LocalJob]
    BY <2>1, <2>3, <2>4 DEF LocalJob
  <2>6. jobs \in Seq(LocalJob)
    BY <2>5
  <2>7. pool' = [pool EXCEPT ![p] = jobs]
    BY <2>1, <2>3, <2>4
  <2>q. QED
    BY <2>6, <2>7 DEF LocalTypes
<1>q. QED
  BY <1>3, <1>5, <1>6 DEF Restart

-----------------------------------------------------------------------------
(* The types of everything else                                            *)

SideTypes ==
    /\ pool \in [Proc -> Seq(LocalJob)]
    /\ timers \in [Proc -> SUBSET Run]
    /\ signals \in [Proc -> [Run -> SUBSET Thread]]
    /\ up \in [Proc -> {"up", "closed", "down"}]
    /\ admitting \in [Proc -> SUBSET Run]
    /\ crashes \in Nat

LEMMA EnqueueTypes ==
    ASSUME LocalTypes, NEW p \in Proc, NEW r \in Run, Enqueue(p, r, "run")
    PROVE  pool' \in [Proc -> Seq(LocalJob)]
<1>1. [run |-> r, kind |-> "run"] \in LocalJob
  BY DEF LocalJob
<1>2. PICK j \in LocalJob : j = [run |-> r, kind |-> "run"]
  BY <1>1
<1>q. QED
  BY <1>2 DEF LocalTypes, Enqueue

LEMMA SideStep ==
    ASSUME ~Shared, LocalTypes, ThreadInv, LocalNext
    PROVE  SideTypes'
<1> USE DEF SideTypes
<1>1. ASSUME NEW p \in Proc, NEW t \in Thread, LocalThreadStep(p, t) PROVE SideTypes'
  <2>1. CASE TakeJob(p, t)
    <3>1. Tail(pool[p]) \in Seq(LocalJob)
      BY <2>1, TakeEffect
    <3>q. QED
      BY <2>1, <3>1 DEF TakeJob, LocalTypes, bounds
  <2>2. CASE ClaimLocal(p, t)
    BY <2>2 DEF ClaimLocal, LocalTypes, othersOfThread
  <2>3. CASE Listen(p, t)
    <3>1. thr[p][t].run \in Run
      BY <2>3, RunOfBusy DEF Listen, At
    <3>2. PICK r \in Run : signals' = [signals EXCEPT ![p][r] = @ \cup {t}]
      BY <2>3, <3>1 DEF Listen
    <3>3. signals' \in [Proc -> [Run -> SUBSET Thread]]
      BY <3>2 DEF LocalTypes
    <3>q. QED
      BY <2>3, <3>3 DEF Listen, LocalTypes, bounds
  <2>4. CASE Execute(p, t)
    BY <2>4 DEF Execute, LocalTypes, othersOfThread
  <2>5. CASE Record(p, t)
    <3>1. thr[p][t].run \in Run
      BY <2>5, RunOfBusy DEF Record, At
    <3>2. timers' \in [Proc -> SUBSET Run]
      <4>1. timers' = timers \/ \E r \in Run : timers' = [timers EXCEPT ![p] = @ \cup {r}]
        BY <2>5, <3>1 DEF Record
      <4>q. QED
        BY <4>1 DEF LocalTypes
    <3>q. QED
      BY <2>5, <3>2 DEF Record, LocalTypes, bounds
  <2>6. CASE Cleanup(p, t)
    <3>1. thr[p][t].run \in Run
      BY <2>6, RunOfBusy DEF Cleanup, At
    <3>2. signals' \in [Proc -> [Run -> SUBSET Thread]]
      BY <2>6, <3>1 DEF LocalTypes, Cleanup
    <3>q. QED
      BY <2>6, <3>2 DEF Cleanup, LocalTypes, bounds
  <2>7. CASE BeatLocal(p, t)
    BY <2>7 DEF BeatLocal, LocalTypes, othersOfThread
  <2>q. QED
    BY <1>1, <2>1, <2>2, <2>3, <2>4, <2>5, <2>6, <2>7 DEF LocalThreadStep
<1>2. ASSUME NEW p \in Proc, NEW r \in Run, SubmitInsert(p, r) PROVE SideTypes'
  <2>1. pool' \in [Proc -> Seq(LocalJob)]
    BY <1>2, SubmitEffect, EnqueueTypes
  <2>q. QED
    BY <1>2, <2>1 DEF SubmitInsert, LocalTypes, bounds
<1>3. ASSUME NEW p \in Proc, NEW r \in Run, ReleaseRetry(p, r) PROVE SideTypes'
  <2>1. pool' \in [Proc -> Seq(LocalJob)]
    BY <1>3, EnqueueTypes DEF ReleaseRetry, LocalTypes
  <2>q. QED
    BY <1>3, <2>1 DEF ReleaseRetry, LocalTypes, bounds
<1>4. ASSUME NEW p \in Proc, NEW r \in Run, CancelSignal(p, r) \/ CancelRow(p, r) PROVE SideTypes'
  BY <1>4 DEF CancelSignal, CancelRow, LocalTypes, bounds, procVars
<1>5. ASSUME NEW p \in Proc, Close(p) PROVE SideTypes'
  BY <1>5 DEF Close, LocalTypes
<1>6. ASSUME NEW p \in Proc, Crash(p) \/ Exit(p) PROVE SideTypes'
  <2>1. [r \in Run |-> {}] \in [Run -> SUBSET Thread]
    OBVIOUS
  <2>2. signals' \in [Proc -> [Run -> SUBSET Thread]]
    BY <1>6, <2>1 DEF Crash, Exit, Stop, LocalTypes
  <2>3. crashes' \in Nat
    BY <1>6 DEF Crash, Exit, LocalTypes
  <2>4. Stop(p)
    BY <1>6 DEF Crash, Exit
  <2>5. up' \in [Proc -> {"up", "closed", "down"}] /\ pool' \in [Proc -> Seq(LocalJob)]
    BY <2>4 DEF Stop, LocalTypes
  <2>6. timers' \in [Proc -> SUBSET Run] /\ admitting' \in [Proc -> SUBSET Run]
    BY <2>4 DEF Stop, LocalTypes
  <2>q. QED
    BY <2>2, <2>3, <2>5, <2>6
<1>7. ASSUME NEW p \in Proc, Restart(p) PROVE SideTypes'
  <2>1. pool' \in [Proc -> Seq(LocalJob)]
    BY <1>7, RestartEffect
  <2>q. QED
    BY <1>7, <2>1 DEF Restart, LocalTypes, bounds
<1>8. ASSUME NEW d \in Db, NEW r \in Run, LapseLocal(d, r) PROVE SideTypes'
  BY <1>8 DEF LapseLocal, LocalTypes, bounds, procVars
<1>9. ASSUME NEW r \in Run, LapseShared(r) PROVE SideTypes'
  BY <1>9 DEF LapseShared, LocalTypes, bounds, procVars
<1>q. QED
  BY <1>1, <1>2, <1>3, <1>4, <1>5, <1>6, <1>7, <1>8, <1>9 DEF LocalNext, LocalStep

-----------------------------------------------------------------------------
(* One worker on a row, which is running, leased and its own               *)

CoreTypes == row \in [Db -> [Run -> Row]] /\ thr \in [Proc -> [Thread -> LocalThread]]
RowOK(v) ==
    /\ v.token = v.attempt
    /\ v.lease # "none" => v.status = "running"
    /\ v.dead => v.status = "failed" /\ v.attempt >= MaxAttempts
WorkInv == CoreTypes /\ ThreadInv /\ WorkRow /\ RowInv /\ OneOnRow

\* No worker appears, and the rows of those that stay are left alone.
NoNewWorker ==
    \A q \in Proc, u \in Thread, x \in Run : OnRow(q, u, x)' =>
        /\ OnRow(q, u, x) /\ thr'[q][u].token = thr[q][u].token
        /\ row'[DbOf[q]][x] = row[DbOf[q]][x]

LEMMA KeepWorkers ==
    ASSUME WorkRow, OneOnRow, NoNewWorker
    PROVE  WorkRow' /\ OneOnRow'
<1>1. WorkRow'
  BY DEF WorkRow, NoNewWorker, RowOf
<1>2. OneOnRow'
  BY DEF OneOnRow, NoNewWorker
<1>q. QED
  BY <1>1, <1>2

LEMMA KeepRows ==
    ASSUME RowInv, \A e \in Db, x \in Run : row'[e][x] = row[e][x] \/ RowOK(row'[e][x])
    PROVE  RowInv'
  BY DEF RowInv, RowOK

\* A step of one thread.
LEMMA WorkThreadStep ==
    ASSUME ~Shared, ExecInv, NEW p \in Proc, NEW t \in Thread, LocalThreadStep(p, t)
    PROVE  WorkInv'
<1> USE DEF ExecInv
<1>0. row \in [Db -> [Run -> Row]] /\ DbOf[p] \in Db
  BY DbOfAssumption DEF LocalTypes
<1>1. CASE TakeJob(p, t)
  <2>1. PICK s : ThreadSet(p, t, s) /\ s.pc = "claim" /\ s.run \in Run
    BY <1>1, TakeEffect
  <2>2. row' = row
    BY <1>1 DEF TakeJob
  <2>3. ThreadInv' /\ CoreTypes'
    BY <1>0, <2>1, <2>2, NoRunAssumption DEF ThreadInv, CoreTypes, ThreadSet
  <2>4. NoNewWorker
    BY <2>1, <2>2 DEF NoNewWorker, OnRow, ThreadSet, AtRow
  <2>q. QED
    BY <1>0, <2>2, <2>3, <2>4, KeepWorkers, KeepRows DEF WorkInv
<1>2. CASE ClaimLocal(p, t)
  <2>1. PICK r : r = thr[p][t].run
    OBVIOUS
  <2>2. r \in Run /\ thr[p][t].pc = "claim"
    BY <1>2, <2>1, ClaimEffect
  <2>3. CASE ~LocallyClaimable(RowOf(p, r))
    <3>1. ThreadSet(p, t, Idle) /\ row' = row
      BY <1>2, <2>1, <2>3, ClaimEffect
    <3>2. ThreadInv' /\ CoreTypes'
      BY <1>0, <3>1, IdleThread DEF ThreadInv, CoreTypes, ThreadSet
    <3>3. NoNewWorker
      BY <3>1, IdleThread DEF NoNewWorker, OnRow, ThreadSet, AtRow
    <3>q. QED
      BY <1>0, <3>1, <3>2, <3>3, KeepWorkers, KeepRows DEF WorkInv
  <2>4. CASE LocallyClaimable(RowOf(p, r))
    <3>1. PICK s, w : /\ ThreadSet(p, t, s) /\ RowSet(DbOf[p], r, w)
                      /\ s.run = r /\ s.pc = "listen" /\ s.token = w.token
                      /\ w.status = "running" /\ w.lease = "live"
                      /\ w.attempt = RowOf(p, r).attempt + 1 /\ w.token = w.attempt
                      /\ w.dead = RowOf(p, r).dead
      BY <1>2, <2>1, <2>4, ClaimEffect
    <3>2. ThreadInv' /\ CoreTypes'
      BY <2>2, <3>1, NoRunAssumption DEF ThreadInv, CoreTypes, ThreadSet, RowSet
    <3>3. \A q \in Proc, u \in Thread : ~(DbOf[q] = DbOf[p] /\ OnRow(q, u, r))
      BY <2>2, <2>4 DEF WorkRow, RowOf, LocallyClaimable
    <3>4. \A q \in Proc, u \in Thread, x \in Run : OnRow(q, u, x)' =>
            \/ q = p /\ u = t /\ x = r
            \/ /\ OnRow(q, u, x) /\ thr'[q][u].token = thr[q][u].token
               /\ ~(DbOf[q] = DbOf[p] /\ x = r)
      BY <3>1, <3>3 DEF OnRow, ThreadSet
    <3>5. WorkRow'
      BY <1>0, <3>1, <3>4, DbOfAssumption DEF WorkRow, RowOf, RowSet, ThreadSet
    <3>6. OneOnRow'
      BY <3>4 DEF OneOnRow
    <3>7. ~RowOf(p, r).dead
      BY <1>0, <2>2, <2>4 DEF RowInv, LocallyClaimable, RowOf
    <3>8. RowOK(w)
      BY <3>1, <3>7 DEF RowOK
    <3>9. RowInv'
      BY <3>1, <3>8, KeepRows DEF RowSet
    <3>q. QED
      BY <3>2, <3>5, <3>6, <3>9 DEF WorkInv
  <2>q. QED
    BY <2>3, <2>4
<1>3. CASE Listen(p, t) \/ Execute(p, t)
  <2>1. PICK s : /\ ThreadSet(p, t, s) /\ s.run = thr[p][t].run /\ s.token = thr[p][t].token
                 /\ s.pc \in {"exec", "record"} /\ s.beat = "local"
                 /\ s.pc = "record" => s.out # "none"
    BY <1>3, WorkEffect
  <2>2. row' = row /\ thr[p][t].pc \in AtRow
    BY <1>3, WorkEffect
  <2>3. ThreadInv' /\ CoreTypes'
    BY <1>0, <2>1, <2>2 DEF ThreadInv, CoreTypes, ThreadSet, AtRow
  <2>4. NoNewWorker
    BY <2>1, <2>2 DEF NoNewWorker, OnRow, ThreadSet
  <2>q. QED
    BY <1>0, <2>2, <2>3, <2>4, KeepWorkers, KeepRows DEF WorkInv
<1>4. CASE Record(p, t)
  <2>1. PICK r : r = thr[p][t].run
    OBVIOUS
  <2>2. r \in Run /\ thr[p][t].pc = "record"
    BY <1>4, <2>1, RecordEffect
  <2>3. PICK s, w :
                /\ ThreadSet(p, t, s) /\ s.run = r /\ s.pc = "cleanup"
                /\ RowSet(DbOf[p], r, w)
                /\ w.attempt = RowOf(p, r).attempt /\ w.token = RowOf(p, r).token
                /\ w.lease = "none"
                /\ \/ w.status = "retrying" /\ w.dead = RowOf(p, r).dead
                   \/ w.dead => w.status = "failed" /\ w.token >= MaxAttempts
    BY <1>4, <2>1, RecordEffect
  <2>4. ThreadInv' /\ CoreTypes'
    BY <2>2, <2>3, NoRunAssumption DEF ThreadInv, CoreTypes, ThreadSet, RowSet
  <2>5. OnRow(p, t, r)
    BY <2>1, <2>2 DEF OnRow, AtRow
  <2>6. NoNewWorker
    <3>1. \A q \in Proc, u \in Thread, x \in Run : OnRow(q, u, x)' =>
            /\ OnRow(q, u, x) /\ thr'[q][u].token = thr[q][u].token /\ ~(q = p /\ u = t)
      BY <2>3 DEF OnRow, ThreadSet, AtRow
    <3>2. \A q \in Proc, u \in Thread, x \in Run : OnRow(q, u, x)' => ~(DbOf[q] = DbOf[p] /\ x = r)
      BY <2>2, <2>5, <3>1 DEF OneOnRow
    <3>3. \A q \in Proc : DbOf[q] \in Db
      BY DbOfAssumption
    <3>q. QED
      BY <2>3, <3>1, <3>2, <3>3 DEF NoNewWorker, RowSet
  <2>7. RowOK(w)
    <3>1. RowOf(p, r).status = "running"
      BY <2>2, <2>5 DEF WorkRow
    <3>2. ~RowOf(p, r).dead /\ RowOf(p, r).token = RowOf(p, r).attempt
      BY <1>0, <2>2, <3>1 DEF RowInv, RowOf
    <3>q. QED
      BY <2>3, <3>2 DEF RowOK
  <2>8. RowInv'
    BY <2>3, <2>7, KeepRows DEF RowSet
  <2>q. QED
    BY <2>4, <2>6, <2>8, KeepWorkers DEF WorkInv
<1>5. CASE Cleanup(p, t)
  <2>1. ThreadSet(p, t, Idle) /\ row' = row
    BY <1>5, CleanupEffect
  <2>2. ThreadInv' /\ CoreTypes'
    BY <1>0, <2>1, IdleThread DEF ThreadInv, CoreTypes, ThreadSet
  <2>3. NoNewWorker
    BY <2>1, IdleThread DEF NoNewWorker, OnRow, ThreadSet, AtRow
  <2>q. QED
    BY <1>0, <2>1, <2>2, <2>3, KeepWorkers, KeepRows DEF WorkInv
<1>6. CASE BeatLocal(p, t)
  <2>1. /\ CoreTypes'
        /\ \A q \in Proc, u \in Thread : thr'[q][u] = thr[q][u]
        /\ \A e \in Db, x \in Run : row'[e][x] = row[e][x]
    BY <1>6, BeatEffect DEF CoreTypes
  <2>2. ThreadInv'
    BY <2>1 DEF ThreadInv
  <2>3. NoNewWorker
    BY <2>1, DbOfAssumption DEF NoNewWorker, OnRow
  <2>q. QED
    BY <2>1, <2>2, <2>3, KeepWorkers, KeepRows DEF WorkInv
<1>q. QED
  BY <1>1, <1>2, <1>3, <1>4, <1>5, <1>6 DEF LocalThreadStep

\* A write to a row nobody works on.
LEMMA WorkRowWrite ==
    ASSUME ExecInv, thr' = thr, NEW d \in Db, NEW r \in Run, NEW w, RowSet(d, r, w), RowOK(w),
           \A p \in Proc, t \in Thread : ~(DbOf[p] = d /\ OnRow(p, t, r))
    PROVE  WorkInv'
<1>1. NoNewWorker
  BY DbOfAssumption DEF NoNewWorker, OnRow, RowSet
<1>2. CoreTypes' /\ ThreadInv'
  BY DEF ExecInv, LocalTypes, CoreTypes, ThreadInv, RowSet
<1>3. RowInv'
  BY KeepRows DEF ExecInv, RowSet
<1>q. QED
  BY <1>1, <1>2, <1>3, KeepWorkers DEF ExecInv, WorkInv

LEMMA WorkSame ==
    ASSUME ExecInv, thr' = thr, row' = row
    PROVE  WorkInv'
  BY DEF ExecInv, WorkInv, LocalTypes, CoreTypes, ThreadInv, WorkRow, RowInv, OneOnRow, OnRow, RowOf

\* The threads of p are gone, or learn that they are cancelled.
LEMMA WorkThreads ==
    ASSUME ExecInv, row' = row, thr' \in [Proc -> [Thread -> LocalThread]],
           \A q \in Proc, u \in Thread :
              \/ thr'[q][u] = Idle
              \/ /\ thr'[q][u].pc = thr[q][u].pc /\ thr'[q][u].run = thr[q][u].run
                 /\ thr'[q][u].token = thr[q][u].token /\ thr'[q][u].beat = thr[q][u].beat
                 /\ thr'[q][u].out = thr[q][u].out
    PROVE  WorkInv'
<1>1. NoNewWorker
  BY IdleThread DEF NoNewWorker, OnRow, AtRow
<1>2. CoreTypes'
  BY DEF ExecInv, LocalTypes, CoreTypes
<1>3. ThreadInv'
  BY IdleThread DEF ExecInv, ThreadInv
<1>4. RowInv'
  BY KeepRows DEF ExecInv
<1>q. QED
  BY <1>1, <1>2, <1>3, <1>4, KeepWorkers DEF ExecInv, WorkInv

LEMMA WorkStep ==
    ASSUME ~Shared, Punctual, ExecInv, LocalNext
    PROVE  WorkInv'
<1>0. LocalTypes /\ ThreadInv /\ WorkRow /\ RowInv /\ \A p \in Proc : DbOf[p] \in Db
  BY DbOfAssumption DEF ExecInv
<1>1. ASSUME NEW p \in Proc, NEW t \in Thread, LocalThreadStep(p, t) PROVE WorkInv'
  BY <1>1, WorkThreadStep
<1>2. ASSUME NEW p \in Proc, NEW r \in Run, SubmitInsert(p, r) PROVE WorkInv'
  <2>1. thr' = thr /\ RowOf(p, r).status = "absent" /\ RowSet(DbOf[p], r, Queued(0))
    BY <1>0, <1>2, SubmitEffect
  <2>2. RowOK(Queued(0))
    BY FreshRow DEF RowOK
  <2>3. \A q \in Proc, t \in Thread : ~(DbOf[q] = DbOf[p] /\ OnRow(q, t, r))
    BY <1>0, <2>1 DEF WorkRow, RowOf
  <2>q. QED
    BY <1>0, <2>1, <2>2, <2>3, WorkRowWrite
<1>3. ASSUME NEW p \in Proc, NEW r \in Run, ReleaseRetry(p, r) PROVE WorkInv'
  <2>1. CASE row' = row
    BY <1>0, <1>3, <2>1, ReleaseEffect, WorkSame
  <2>2. CASE row' # row
    <3>1. PICK w : /\ thr' = thr /\ RowOf(p, r).status = "retrying"
                   /\ RowSet(DbOf[p], r, w) /\ w.status = "queued" /\ w.lease = "none"
                   /\ w.attempt = RowOf(p, r).attempt /\ w.token = RowOf(p, r).token
                   /\ w.dead = RowOf(p, r).dead
      BY <1>0, <1>3, <2>2, ReleaseEffect
    <3>2. RowOK(w)
      BY <1>0, <3>1 DEF RowInv, RowOf, RowOK
    <3>3. \A q \in Proc, t \in Thread : ~(DbOf[q] = DbOf[p] /\ OnRow(q, t, r))
      BY <1>0, <3>1 DEF WorkRow, RowOf
    <3>q. QED
      BY <1>0, <3>1, <3>2, <3>3, WorkRowWrite
  <2>q. QED
    BY <2>1, <2>2
<1>4. ASSUME NEW p \in Proc, NEW r \in Run, CancelSignal(p, r) PROVE WorkInv'
  <2>1. Signal(p, signals[p][r]) /\ row' = row
    BY <1>4 DEF CancelSignal
  <2>q. QED
    BY <1>0, <2>1, SignalEffect, WorkThreads
<1>5. ASSUME NEW p \in Proc, NEW r \in Run, CancelRow(p, r) PROVE WorkInv'
  <2>1. CASE row' = row
    BY <1>0, <1>5, <2>1, CancelEffect, WorkSame
  <2>2. CASE row' # row
    <3>1. PICK w : /\ thr' = thr /\ RowOf(p, r).status \in {"queued", "retrying"}
                   /\ RowSet(DbOf[p], r, w) /\ w.status = "cancelled" /\ w.lease = "none"
                   /\ w.attempt = RowOf(p, r).attempt /\ w.token = RowOf(p, r).token
                   /\ w.dead = RowOf(p, r).dead
      BY <1>0, <1>5, <2>2, CancelEffect
    <3>2. RowOK(w)
      BY <1>0, <3>1 DEF RowInv, RowOf, RowOK
    <3>3. \A q \in Proc, t \in Thread : ~(DbOf[q] = DbOf[p] /\ OnRow(q, t, r))
      BY <1>0, <3>1 DEF WorkRow, RowOf
    <3>q. QED
      BY <1>0, <3>1, <3>2, <3>3, WorkRowWrite
  <2>q. QED
    BY <2>1, <2>2
<1>6. ASSUME NEW p \in Proc, Close(p) PROVE WorkInv'
  <2>1. PICK ts : Signal(p, ts) /\ row' = row
    BY <1>6 DEF Close
  <2>q. QED
    BY <1>0, <2>1, SignalEffect, WorkThreads
<1>7. ASSUME NEW p \in Proc, Crash(p) \/ Exit(p) PROVE WorkInv'
  <2>1. Stop(p)
    BY <1>7 DEF Crash, Exit
  <2>q. QED
    BY <1>0, <2>1, StopEffect, WorkThreads
<1>8. ASSUME NEW p \in Proc, Restart(p) PROVE WorkInv'
  <2>1. /\ thr' = thr /\ row' \in [Db -> [Run -> Row]]
        /\ \A e \in Db, x \in Run : row'[e][x] = row[e][x] \/ Requeued(row[e][x], row'[e][x])
    BY <1>0, <1>8, RestartEffect
  <2>2. \A q \in Proc, u \in Thread, x \in Run : OnRow(q, u, x) => row'[DbOf[q]][x] = row[DbOf[q]][x]
    BY <1>0, <2>1 DEF WorkRow, RowOf, Requeued
  <2>3. NoNewWorker
    BY <2>1, <2>2 DEF NoNewWorker, OnRow
  <2>4. \A e \in Db, x \in Run : row'[e][x] = row[e][x] \/ RowOK(row'[e][x])
    BY <1>0, <2>1 DEF RowInv, RowOK, Requeued
  <2>5. CoreTypes' /\ ThreadInv'
    BY <1>0, <2>1 DEF LocalTypes, CoreTypes, ThreadInv
  <2>q. QED
    BY <2>3, <2>4, <2>5, KeepRows, KeepWorkers DEF ExecInv, WorkInv
<1>9. ASSUME NEW d \in Db, NEW r \in Run, LapseLocal(d, r) PROVE WorkInv'
  <2>1. PICK w : /\ thr' = thr /\ row[d][r].lease = "live"
                 /\ RowSet(d, r, w) /\ w.status = row[d][r].status /\ w.lease = "lapsed"
                 /\ w.attempt = row[d][r].attempt /\ w.token = row[d][r].token
                 /\ w.dead = row[d][r].dead
    BY <1>0, <1>9, LapseEffect
  <2>2. \A p \in Proc, t \in Thread : ~(DbOf[p] = d /\ OnRow(p, t, r))
    BY <1>0, <1>9, LapseEffect
  <2>3. RowOK(w)
    BY <1>0, <2>1 DEF RowInv, RowOK
  <2>q. QED
    BY <2>1, <2>2, <2>3, WorkRowWrite
<1>10. ASSUME NEW r \in Run, LapseShared(r) PROVE WorkInv'
  BY <1>10, WorkSame DEF LapseShared, procVars
<1>q. QED
  BY <1>1, <1>2, <1>3, <1>4, <1>5, <1>6, <1>7, <1>8, <1>9, <1>10 DEF LocalNext, LocalStep

-----------------------------------------------------------------------------
LEMMA ExecInit ==
    ASSUME Init
    PROVE  ExecInv
<1>1. /\ row = [d \in Db |-> [r \in Run |-> Absent]] /\ \A d \in Db, r \in Run : row[d][r] = Absent
      /\ thr = [p \in Proc |-> [t \in Thread |-> Idle]] /\ \A p \in Proc, t \in Thread : thr[p][t] = Idle
  BY DEF Init
<1>2. LocalTypes
  <2>1. SideTypes
    BY DEF Init, SideTypes
  <2>2. row \in [Db -> [Run -> Row]]
    BY <1>1, FreshRow
  <2>3. thr \in [Proc -> [Thread -> LocalThread]]
    BY <1>1, IdleThread
  <2>q. QED
    BY <2>1, <2>2, <2>3 DEF LocalTypes, SideTypes
<1>3. ThreadInv /\ WorkRow /\ OneOnRow
  BY <1>1, IdleThread DEF ThreadInv, WorkRow, OneOnRow, OnRow, AtRow
<1>4. RowInv
  BY <1>1, FreshRow DEF RowInv
<1>q. QED
  BY <1>2, <1>3, <1>4 DEF ExecInv

LEMMA ExecStep ==
    ASSUME ~Shared, Punctual, ExecInv, [Next]_vars
    PROVE  ExecInv'
<1>1. CASE Next
  <2>1. LocalNext
    BY <1>1, NoSharedStep DEF ExecInv
  <2>2. WorkInv' /\ SideTypes'
    BY <2>1, WorkStep, SideStep DEF ExecInv
  <2>q. QED
    BY <2>2 DEF ExecInv, WorkInv, CoreTypes, SideTypes, LocalTypes
<1>2. CASE UNCHANGED vars
  <2>1. WorkInv'
    BY <1>2, WorkSame DEF vars, procVars
  <2>2. SideTypes'
    BY <1>2 DEF ExecInv, LocalTypes, SideTypes, vars, procVars, bounds
  <2>q. QED
    BY <2>1, <2>2 DEF ExecInv, WorkInv, CoreTypes, SideTypes, LocalTypes
<1>q. QED
  BY <1>1, <1>2

LEMMA WorkingOnRow ==
    ASSUME LocalTypes, NEW p \in Proc, NEW t \in Thread, NEW r \in Run
    PROVE  Working(p, t, r) <=> OnRow(p, t, r)
<1>1. thr[p][t] \in LocalThread
  BY DEF LocalTypes
<1>q. QED
  BY <1>1, ThreadFields DEF Working, OnRow, AtRow

\* The inductive invariant of _worker without a control plane, which the theorems
\* below read off.
THEOREM ExecHolds == ASSUME ~Shared, Punctual PROVE Spec => []ExecInv
  BY ExecInit, ExecStep, PTL DEF Spec

\* Without a control plane a run is executed by one worker at a time, whichever
\* processes share its queue database (_claim refuses a row whose lease is live).
THEOREM SingleExecutor == ASSUME ~Shared, Punctual PROVE Spec => []OneExecutor
<1>1. ExecInv => OneExecutor
  BY WorkingOnRow DEF ExecInv, OneOnRow, OneExecutor
<1>q. QED
  BY <1>1, ExecHolds, PTL

-----------------------------------------------------------------------------
(* An outcome stays                                                        *)

LEMMA NotTerminal ==
    "absent" \notin TERMINAL_STATES /\ "queued" \notin TERMINAL_STATES
    /\ "running" \notin TERMINAL_STATES /\ "retrying" \notin TERMINAL_STATES
  BY DEF TERMINAL_STATES

OutcomeStays == \A d \in Db, r \in Run :
    row[d][r].status \in TERMINAL_STATES => row'[d][r] = row[d][r]

LEMMA OutcomeStep ==
    ASSUME ~Shared, Punctual, ExecInv, LocalNext
    PROVE  OutcomeStays
<1>0. LocalTypes /\ ThreadInv /\ WorkRow /\ RowInv /\ \A p \in Proc : DbOf[p] \in Db
  BY DbOfAssumption DEF ExecInv
<1>1. ASSUME NEW d \in Db, NEW r \in Run, NEW w, RowSet(d, r, w), row[d][r].status \notin TERMINAL_STATES
      PROVE  OutcomeStays
  BY <1>1 DEF RowSet, OutcomeStays
<1>2. ASSUME row' = row PROVE OutcomeStays
  BY <1>2 DEF OutcomeStays
<1>3. ASSUME NEW p \in Proc, NEW t \in Thread, LocalThreadStep(p, t) PROVE OutcomeStays
  <2>1. CASE TakeJob(p, t) \/ Listen(p, t) \/ Execute(p, t) \/ Cleanup(p, t)
    BY <1>2, <2>1 DEF TakeJob, Listen, Execute, Cleanup
  <2>2. CASE ClaimLocal(p, t)
    <3>1. PICK r : r = thr[p][t].run
      OBVIOUS
    <3>2. r \in Run
      BY <1>0, <2>2, <3>1, ClaimEffect
    <3>3. CASE row' = row
      BY <1>2, <3>3
    <3>4. CASE row' # row
      <4>1. LocallyClaimable(RowOf(p, r)) /\ \E w : RowSet(DbOf[p], r, w)
        BY <1>0, <2>2, <3>1, <3>4, ClaimEffect
      <4>q. QED
        BY <1>0, <1>1, <3>2, <4>1, NotTerminal DEF LocallyClaimable, RowOf
    <3>q. QED
      BY <3>3, <3>4
  <2>3. CASE Record(p, t)
    <3>1. PICK r : r = thr[p][t].run
      OBVIOUS
    <3>2. r \in Run /\ thr[p][t].pc = "record" /\ \E w : RowSet(DbOf[p], r, w)
      BY <1>0, <2>3, <3>1, RecordEffect
    <3>3. RowOf(p, r).status = "running"
      BY <1>0, <3>1, <3>2 DEF WorkRow, OnRow, AtRow
    <3>q. QED
      BY <1>0, <1>1, <3>2, <3>3, NotTerminal DEF RowOf
  <2>4. CASE BeatLocal(p, t)
    BY <1>0, <2>4, BeatEffect DEF OutcomeStays
  <2>q. QED
    BY <1>3, <2>1, <2>2, <2>3, <2>4 DEF LocalThreadStep
<1>4. ASSUME NEW p \in Proc, NEW r \in Run, SubmitInsert(p, r) PROVE OutcomeStays
  BY <1>0, <1>1, <1>4, SubmitEffect, NotTerminal DEF RowOf
<1>5. ASSUME NEW p \in Proc, NEW r \in Run, ReleaseRetry(p, r) PROVE OutcomeStays
  <2>1. row' = row \/ (RowOf(p, r).status = "retrying" /\ \E w : RowSet(DbOf[p], r, w))
    BY <1>0, <1>5, ReleaseEffect
  <2>q. QED
    BY <1>0, <1>1, <1>2, <2>1, NotTerminal DEF RowOf
<1>6. ASSUME NEW p \in Proc, NEW r \in Run, CancelRow(p, r) PROVE OutcomeStays
  <2>1. row' = row \/ (RowOf(p, r).status \in {"queued", "retrying"} /\ \E w : RowSet(DbOf[p], r, w))
    BY <1>0, <1>6, CancelEffect
  <2>q. QED
    BY <1>0, <1>1, <1>2, <2>1, NotTerminal DEF RowOf
<1>7. ASSUME NEW p \in Proc, Restart(p) PROVE OutcomeStays
  BY <1>0, <1>7, RestartEffect, NotTerminal DEF OutcomeStays, Requeued
<1>8. ASSUME NEW d \in Db, NEW r \in Run, LapseLocal(d, r) PROVE OutcomeStays
  <2>1. row[d][r].lease = "live" /\ \E w : RowSet(d, r, w)
    BY <1>0, <1>8, LapseEffect
  <2>2. row[d][r].status = "running"
    BY <1>0, <2>1 DEF RowInv
  <2>q. QED
    BY <1>1, <2>1, <2>2, NotTerminal
<1>9. ASSUME NEW p \in Proc, Close(p) \/ Crash(p) \/ Exit(p) PROVE OutcomeStays
  BY <1>2, <1>9 DEF Close, Crash, Exit, Stop
<1>10. ASSUME NEW p \in Proc, NEW r \in Run, CancelSignal(p, r) PROVE OutcomeStays
  BY <1>2, <1>10 DEF CancelSignal
<1>11. ASSUME NEW r \in Run, LapseShared(r) PROVE OutcomeStays
  BY <1>2, <1>11 DEF LapseShared
<1>q. QED
  BY <1>3, <1>4, <1>5, <1>6, <1>7, <1>8, <1>9, <1>10, <1>11 DEF LocalNext, LocalStep

\* The outcome in a queue row never changes: no late retry, cancellation, recovery,
\* lapse or second worker of _worker touches it.
THEOREM OutcomesFinal == ASSUME ~Shared, Punctual PROVE Spec => OutcomeStable
<1>1. ASSUME ExecInv, [Next]_vars PROVE [OutcomeStays]_vars
  <2>1. CASE Next
    BY <1>1, <2>1, NoSharedStep, OutcomeStep DEF ExecInv
  <2>q. QED
    BY <1>1, <2>1
<1>2. OutcomeStable <=> [][OutcomeStays]_vars
  BY DEF OutcomeStable, OutcomeStays
<1>q. QED
  BY <1>1, <1>2, ExecHolds, PTL DEF Spec

-----------------------------------------------------------------------------
(* The attempts                                                            *)

\* Only the lifecycle of a process changes which processes are up.
LEMMA ProcsStay ==
    ASSUME LocalNext
    PROVE  \/ up' = up /\ crashes' = crashes
           \/ \E p \in Proc : Close(p) \/ Crash(p) \/ Exit(p) \/ Restart(p)
<1>1. ASSUME NEW p \in Proc, NEW t \in Thread, LocalThreadStep(p, t) PROVE up' = up /\ crashes' = crashes
  BY <1>1 DEF LocalThreadStep, TakeJob, ClaimLocal, Listen, Execute, Record, Cleanup, BeatLocal,
     othersOfThread, bounds
<1>2. ASSUME NEW p \in Proc, NEW r \in Run,
             SubmitInsert(p, r) \/ ReleaseRetry(p, r) \/ CancelSignal(p, r) \/ CancelRow(p, r)
      PROVE  up' = up /\ crashes' = crashes
  BY <1>2 DEF SubmitInsert, ReleaseRetry, CancelSignal, CancelRow, bounds, procVars
<1>3. ASSUME NEW d \in Db, NEW r \in Run, LapseLocal(d, r) PROVE up' = up /\ crashes' = crashes
  BY <1>3 DEF LapseLocal, bounds, procVars
<1>4. ASSUME NEW r \in Run, LapseShared(r) PROVE up' = up /\ crashes' = crashes
  BY <1>4 DEF LapseShared, bounds, procVars
<1>q. QED
  BY <1>1, <1>2, <1>3, <1>4 DEF LocalNext, LocalStep

LEMMA CutsStep ==
    ASSUME ~Shared, ExecInv, CutsInv, LocalNext
    PROVE  /\ CutsInv'
           /\ IF \E p \in Proc : Crash(p) \/ Exit(p) THEN Cuts' = Cuts + 1 /\ row' = row
              ELSE Cuts' = Cuts
<1>0. up \in [Proc -> {"up", "closed", "down"}] /\ crashes \in Nat /\ Cardinality(Closed) \in Nat
  BY FS_CardinalityType DEF ExecInv, LocalTypes, CutsInv
<1>1. ASSUME Closed' = Closed, crashes' = crashes
      PROVE  CutsInv' /\ Cuts' = Cuts
  BY <1>1 DEF CutsInv, Cuts
<1>2. ASSUME up' = up, crashes' = crashes PROVE CutsInv' /\ Cuts' = Cuts
  BY <1>1, <1>2 DEF Closed
<1>3. ASSUME NEW p \in Proc, Close(p) PROVE CutsInv' /\ Cuts' = Cuts
  <2>1. p \notin Closed /\ Closed' = Closed \cup {p} /\ crashes' = crashes + 1
    BY <1>0, <1>3 DEF Close, Closed
  <2>2. IsFiniteSet(Closed') /\ Cardinality(Closed') = Cardinality(Closed) + 1
    BY <2>1, FS_AddElement DEF CutsInv
  <2>q. QED
    BY <1>0, <2>1, <2>2 DEF CutsInv, Cuts
<1>4. ASSUME NEW p \in Proc, Crash(p) PROVE CutsInv' /\ Cuts' = Cuts + 1 /\ row' = row
  <2>1. Closed' = Closed /\ crashes' = crashes + 1 /\ row' = row
    BY <1>0, <1>4 DEF Crash, Stop, Closed
  <2>q. QED
    BY <1>0, <2>1 DEF CutsInv, Cuts
<1>5. ASSUME NEW p \in Proc, Exit(p) PROVE CutsInv' /\ Cuts' = Cuts + 1 /\ row' = row
  <2>1. p \in Closed /\ Closed' = Closed \ {p} /\ crashes' = crashes /\ row' = row
    BY <1>0, <1>5 DEF Exit, Stop, Closed
  <2>2. IsFiniteSet(Closed') /\ Cardinality(Closed') = Cardinality(Closed) - 1
    BY <2>1, FS_RemoveElement DEF CutsInv
  <2>q. QED
    BY <1>0, <2>1, <2>2 DEF CutsInv, Cuts
<1>6. ASSUME NEW p \in Proc, Restart(p) PROVE CutsInv' /\ Cuts' = Cuts
  <2>1. Closed' = Closed /\ crashes' = crashes
    BY <1>0, <1>6 DEF Restart, Closed, bounds
  <2>q. QED
    BY <1>1, <2>1
<1>q. QED
  BY <1>2, <1>3, <1>4, <1>5, <1>6, ProcsStay

\* The row keeps its attempts and its worker, is below the limit, or is settled or taken.
Spent(d, r) ==
    \/ /\ row'[d][r].attempt = row[d][r].attempt
       /\ row'[d][r].status \notin TERMINAL_STATES /\ ~Taken(d, r)'
            => row[d][r].status \notin TERMINAL_STATES /\ ~Taken(d, r)
    \/ row'[d][r].attempt < MaxAttempts
    \/ /\ row[d][r].status \notin TERMINAL_STATES /\ ~Taken(d, r)
       /\ row'[d][r].attempt = row[d][r].attempt + 1 /\ Taken(d, r)'

LEMMA SpentStep ==
    ASSUME ~Shared, Punctual, ExecInv, LocalNext, ~(\E p \in Proc : Crash(p) \/ Exit(p)),
           NEW d \in Db, NEW r \in Run
    PROVE  Spent(d, r)
<1>0. /\ LocalTypes /\ ThreadInv /\ WorkRow /\ RowInv /\ \A p \in Proc : DbOf[p] \in Db
      /\ row[d][r] \in Row /\ row[d][r].attempt \in Nat
  BY DbOfAssumption DEF ExecInv, LocalTypes, Row
<1>1. ASSUME row'[d][r] = row[d][r], Taken(d, r) => Taken(d, r)' PROVE Spent(d, r)
  BY <1>1 DEF Spent
<1>2. ASSUME \A q \in Proc, u \in Thread : OnRow(q, u, r) => OnRow(q, u, r)'
      PROVE  Taken(d, r) => Taken(d, r)'
  BY <1>2 DEF Taken
<1>3. ASSUME NEW p \in Proc, NEW t \in Thread, LocalThreadStep(p, t) PROVE Spent(d, r)
  <2>1. CASE TakeJob(p, t)
    <3>1. row' = row /\ thr[p][t].pc = "idle" /\ \E s : ThreadSet(p, t, s)
      BY <1>0, <2>1, TakeEffect DEF TakeJob
    <3>2. \A q \in Proc, u \in Thread : OnRow(q, u, r) => OnRow(q, u, r)'
      BY <3>1 DEF OnRow, AtRow, ThreadSet
    <3>q. QED
      BY <1>1, <1>2, <3>1, <3>2
  <2>2. CASE ClaimLocal(p, t)
    <3>1. PICK x : x = thr[p][t].run
      OBVIOUS
    <3>2. x \in Run /\ thr[p][t].pc = "claim"
      BY <1>0, <2>2, <3>1, ClaimEffect
    <3>3. \A q \in Proc, u \in Thread : OnRow(q, u, r) => OnRow(q, u, r)'
      <4>1. \E s : ThreadSet(p, t, s)
        BY <1>0, <2>2, <3>1, ClaimEffect
      <4>q. QED
        BY <3>2, <4>1 DEF OnRow, AtRow, ThreadSet
    <3>4. CASE row'[d][r] = row[d][r]
      BY <1>1, <1>2, <3>3, <3>4
    <3>5. CASE row'[d][r] # row[d][r]
      <4>1. PICK s, w : /\ LocallyClaimable(RowOf(p, x))
                        /\ ThreadSet(p, t, s) /\ RowSet(DbOf[p], x, w)
                        /\ s.run = x /\ s.pc = "listen"
                        /\ w.attempt = RowOf(p, x).attempt + 1
        BY <1>0, <2>2, <3>1, <3>5, ClaimEffect
      <4>2. d = DbOf[p] /\ r = x /\ row'[d][r] = w
        BY <3>5, <4>1 DEF RowSet
      <4>3. row[d][r].status \notin TERMINAL_STATES /\ ~Taken(d, r)
        BY <1>0, <4>1, <4>2, NotTerminal DEF LocallyClaimable, RowOf, WorkRow, Taken
      <4>4. Taken(d, r)'
        BY <4>1, <4>2 DEF Taken, OnRow, AtRow, ThreadSet
      <4>q. QED
        BY <4>1, <4>2, <4>3, <4>4 DEF Spent, RowOf
    <3>q. QED
      BY <3>4, <3>5
  <2>3. CASE Listen(p, t) \/ Execute(p, t)
    <3>1. PICK s : /\ row' = row /\ ThreadSet(p, t, s) /\ s.run = thr[p][t].run
                   /\ s.pc \in {"exec", "record"}
      BY <1>0, <2>3, WorkEffect
    <3>2. \A q \in Proc, u \in Thread : OnRow(q, u, r) => OnRow(q, u, r)'
      BY <3>1 DEF OnRow, AtRow, ThreadSet
    <3>q. QED
      BY <1>1, <1>2, <3>1, <3>2
  <2>4. CASE Record(p, t)
    <3>1. PICK x : x = thr[p][t].run
      OBVIOUS
    <3>2. x \in Run /\ thr[p][t].pc = "record"
      BY <1>0, <2>4, <3>1, RecordEffect
    <3>3. PICK s, w : /\ ThreadSet(p, t, s) /\ RowSet(DbOf[p], x, w)
                      /\ w.attempt = RowOf(p, x).attempt /\ w.token = RowOf(p, x).token
                      /\ w.token < MaxAttempts \/ w.status \in TERMINAL_STATES
      BY <1>0, <2>4, <3>1, RecordEffect
    <3>4. CASE d = DbOf[p] /\ r = x
      <4>1. row'[d][r] = w /\ w.attempt = row[d][r].attempt /\ w.token = row[d][r].attempt
        BY <1>0, <3>3, <3>4 DEF RowSet, RowInv, RowOf
      <4>q. QED
        BY <3>3, <4>1 DEF Spent
    <3>5. CASE ~(d = DbOf[p] /\ r = x)
      <4>1. row'[d][r] = row[d][r]
        BY <3>3, <3>5 DEF RowSet
      <4>2. \A q \in Proc, u \in Thread : DbOf[q] = d /\ OnRow(q, u, r) => OnRow(q, u, r)'
        BY <3>1, <3>3, <3>5 DEF OnRow, ThreadSet
      <4>q. QED
        BY <1>1, <4>1, <4>2 DEF Taken
    <3>q. QED
      BY <3>4, <3>5
  <2>5. CASE Cleanup(p, t)
    <3>1. row' = row /\ thr[p][t].pc = "cleanup" /\ ThreadSet(p, t, Idle)
      BY <1>0, <2>5, CleanupEffect
    <3>2. \A q \in Proc, u \in Thread : OnRow(q, u, r) => OnRow(q, u, r)'
      BY <3>1 DEF OnRow, AtRow, ThreadSet
    <3>q. QED
      BY <1>1, <1>2, <3>1, <3>2
  <2>6. CASE BeatLocal(p, t)
    <3>1. row'[d][r] = row[d][r] /\ \A q \in Proc, u \in Thread : thr'[q][u] = thr[q][u]
      BY <1>0, <2>6, BeatEffect
    <3>q. QED
      BY <1>1, <1>2, <3>1 DEF OnRow
  <2>q. QED
    BY <1>3, <2>1, <2>2, <2>3, <2>4, <2>5, <2>6 DEF LocalThreadStep
<1>4. ASSUME thr' = thr, row'[d][r] = row[d][r] PROVE Spent(d, r)
  BY <1>1, <1>2, <1>4 DEF OnRow
<1>5. ASSUME thr' = thr, row'[d][r].attempt = row[d][r].attempt,
             row[d][r].status \notin TERMINAL_STATES
      PROVE  Spent(d, r)
  <2>1. Taken(d, r) => Taken(d, r)'
    BY <1>2, <1>5 DEF OnRow
  <2>q. QED
    BY <1>5, <2>1 DEF Spent
<1>6. ASSUME NEW p \in Proc, NEW x \in Run, SubmitInsert(p, x) PROVE Spent(d, r)
  <2>1. thr' = thr /\ RowSet(DbOf[p], x, Queued(0))
    BY <1>0, <1>6, SubmitEffect
  <2>2. CASE d = DbOf[p] /\ r = x
    <3>1. row'[d][r].attempt = 0
      BY <2>1, <2>2, FreshRow DEF RowSet
    <3>q. QED
      BY <3>1, MaxAttemptsAssumption DEF Spent
  <2>q. QED
    BY <1>4, <2>1, <2>2 DEF RowSet
<1>7. ASSUME NEW p \in Proc, NEW x \in Run, ReleaseRetry(p, x) \/ CancelRow(p, x) PROVE Spent(d, r)
  <2>1. /\ thr' = thr
        /\ \/ row' = row
           \/ /\ RowOf(p, x).status \in {"queued", "retrying"}
              /\ \E w : RowSet(DbOf[p], x, w) /\ w.attempt = RowOf(p, x).attempt
    BY <1>0, <1>7, ReleaseEffect, CancelEffect
  <2>2. CASE row'[d][r] # row[d][r]
    <3>1. row'[d][r].attempt = row[d][r].attempt /\ row[d][r].status \in {"queued", "retrying"}
      BY <2>1, <2>2 DEF RowSet, RowOf
    <3>q. QED
      BY <1>5, <2>1, <3>1, NotTerminal
  <2>q. QED
    BY <1>4, <2>1, <2>2
<1>8. ASSUME NEW p \in Proc, NEW ts, Signal(p, ts), row' = row PROVE Spent(d, r)
  <2>1. \A q \in Proc, u \in Thread : OnRow(q, u, r) => OnRow(q, u, r)'
    BY <1>0, <1>8, SignalEffect DEF OnRow
  <2>q. QED
    BY <1>1, <1>2, <1>8, <2>1
<1>9. ASSUME NEW p \in Proc, NEW x \in Run, CancelSignal(p, x) PROVE Spent(d, r)
  BY <1>8, <1>9 DEF CancelSignal
<1>10. ASSUME NEW p \in Proc, Close(p) PROVE Spent(d, r)
  BY <1>8, <1>10 DEF Close
<1>11. ASSUME NEW p \in Proc, Restart(p) PROVE Spent(d, r)
  <2>1. thr' = thr /\ (row'[d][r] = row[d][r] \/ Requeued(row[d][r], row'[d][r]))
    BY <1>0, <1>11, RestartEffect
  <2>q. QED
    BY <1>4, <1>5, <2>1, NotTerminal DEF Requeued
<1>12. ASSUME NEW e \in Db, NEW x \in Run, LapseLocal(e, x) PROVE Spent(d, r)
  <2>1. PICK w : /\ thr' = thr /\ row[e][x].lease = "live" /\ RowSet(e, x, w)
                 /\ w.attempt = row[e][x].attempt
    BY <1>0, <1>12, LapseEffect
  <2>2. row[e][x].status = "running"
    BY <1>0, <2>1 DEF RowInv
  <2>3. CASE d = e /\ r = x
    BY <1>5, <2>1, <2>2, <2>3, NotTerminal DEF RowSet
  <2>4. CASE ~(d = e /\ r = x)
    BY <1>4, <2>1, <2>4 DEF RowSet
  <2>q. QED
    BY <2>3, <2>4
<1>13. ASSUME NEW x \in Run, LapseShared(x) PROVE Spent(d, r)
  BY <1>4, <1>13 DEF LapseShared, procVars
<1>q. QED
  BY <1>3, <1>6, <1>7, <1>9, <1>10, <1>11, <1>12, <1>13 DEF LocalNext, LocalStep

LEMMA BudgetStep ==
    ASSUME ~Shared, Punctual, ExecInv, BudgetInv, [Next]_vars
    PROVE  BudgetInv'
<1>0. Cuts \in Nat /\ CutsInv /\ \A d \in Db, r \in Run : row[d][r].attempt \in Nat
  BY DEF BudgetInv, CutsInv, ExecInv, LocalTypes, Row
<1>1. CASE Next
  <2>1. LocalNext
    BY <1>1, NoSharedStep DEF ExecInv
  <2>2. CutsInv' /\ IF \E p \in Proc : Crash(p) \/ Exit(p) THEN Cuts' = Cuts + 1 /\ row' = row
                    ELSE Cuts' = Cuts
    BY <1>0, <2>1, CutsStep
  <2>3. CASE \E p \in Proc : Crash(p) \/ Exit(p)
    <3>1. \A d \in Db, r \in Run : row'[d][r].attempt < MaxAttempts + Cuts'
      BY <1>0, <2>2, <2>3, MaxAttemptsAssumption DEF BudgetInv
    <3>2. Cuts' \in Nat /\ \A d \in Db, r \in Run : row'[d][r].attempt \in Nat
      BY <1>0, <2>2, <2>3
    <3>3. \A d \in Db, r \in Run : row'[d][r].attempt <= MaxAttempts + Cuts'
      BY <3>1, <3>2, MaxAttemptsAssumption
    <3>q. QED
      BY <2>2, <3>1, <3>3 DEF BudgetInv
  <2>4. CASE ~\E p \in Proc : Crash(p) \/ Exit(p)
    <3>1. Cuts' = Cuts
      BY <2>2, <2>4
    <3>2. ASSUME NEW d \in Db, NEW r \in Run
          PROVE  /\ row'[d][r].attempt <= MaxAttempts + Cuts
                 /\ row'[d][r].status \notin TERMINAL_STATES /\ ~Taken(d, r)'
                      => row'[d][r].attempt < MaxAttempts + Cuts
      <4>1. Spent(d, r)
        BY <2>1, <2>4, SpentStep
      <4>2. row[d][r].attempt \in Nat /\ row'[d][r].attempt \in Nat
        BY <1>0, ExecStep DEF ExecInv, LocalTypes, Row
      <4>3. /\ row[d][r].attempt <= MaxAttempts + Cuts
            /\ row[d][r].status \notin TERMINAL_STATES /\ ~Taken(d, r)
                 => row[d][r].attempt < MaxAttempts + Cuts
        BY DEF BudgetInv
      <4>q. QED
        BY <1>0, <4>1, <4>2, <4>3, MaxAttemptsAssumption DEF Spent
    <3>q. QED
      BY <2>2, <3>1, <3>2 DEF BudgetInv
  <2>q. QED
    BY <2>3, <2>4
<1>2. CASE UNCHANGED vars
  <2>1. Closed' = Closed /\ Cuts' = Cuts /\ row' = row /\ thr' = thr
    BY <1>2 DEF vars, procVars, bounds, Closed, Cuts
  <2>2. \A d \in Db, r \in Run : Taken(d, r)' <=> Taken(d, r)
    BY <2>1 DEF Taken, OnRow
  <2>q. QED
    BY <2>1, <2>2 DEF BudgetInv, CutsInv
<1>q. QED
  BY <1>1, <1>2

\* The attempts of a run are counted exactly over claims, retries, crashes, shutdowns
\* and recoveries: beyond max_attempts there are only those the end of a process cut
\* short, and a dead letter failed with its attempts used up.
THEOREM AttemptsCounted == ASSUME ~Shared, Punctual PROVE Spec => []AttemptsExact
<1>1. Init => BudgetInv
  <2> SUFFICES ASSUME Init PROVE BudgetInv
    OBVIOUS
  <2>1. Closed = {} /\ crashes = 0 /\ \A d \in Db, r \in Run : row[d][r] = Absent
    BY DEF Init, Closed
  <2>2. IsFiniteSet(Closed) /\ Cuts = 0
    BY <2>1, FS_EmptySet DEF Cuts
  <2>q. QED
    BY <2>1, <2>2, FreshRow, MaxAttemptsAssumption DEF BudgetInv, CutsInv
<1>2. ExecInv /\ BudgetInv /\ [Next]_vars => BudgetInv'
  BY BudgetStep
<1>3. ExecInv /\ BudgetInv => AttemptsExact
  <2> SUFFICES ASSUME ExecInv, BudgetInv PROVE AttemptsExact
    OBVIOUS
  <2>1. crashes \in Nat /\ Cardinality(Closed) \in Nat
    BY FS_CardinalityType DEF ExecInv, LocalTypes, BudgetInv, CutsInv
  <2>2. Cuts \in Nat /\ Cuts <= crashes
    BY <2>1 DEF Cuts, BudgetInv, CutsInv
  <2>3. ASSUME NEW d \in Db, NEW r \in Run
        PROVE  row[d][r].attempt <= MaxAttempts + crashes
    <3>1. row[d][r].attempt \in Nat /\ row[d][r].attempt <= MaxAttempts + Cuts
      BY DEF ExecInv, LocalTypes, Row, BudgetInv
    <3>q. QED
      BY <2>1, <2>2, <3>1, MaxAttemptsAssumption
  <2>q. QED
    BY <2>3 DEF AttemptsExact, ExecInv, RowInv
<1>q. QED
  BY <1>1, <1>2, <1>3, ExecHolds, PTL DEF Spec

-----------------------------------------------------------------------------
(* Nothing is forgotten                                                    *)

LEMMA PoolAppend ==
    ASSUME LocalTypes, NEW p \in Proc, NEW x \in Run, Enqueue(p, x, "run")
    PROVE  InPool(p, x)' /\ \A q \in Proc, r \in Run : InPool(q, r) => InPool(q, r)'
<1>1. pool \in [Proc -> Seq(LocalJob)]
  BY DEF LocalTypes
<1>2. PICK j : j = [run |-> x, kind |-> "run"]
  OBVIOUS
<1>3. j \in LocalJob /\ j.run = x
  BY <1>2 DEF LocalJob
<1>4. pool'[p] = Append(pool[p], j) /\ \A q \in Proc : q # p => pool'[q] = pool[q]
  BY <1>1, <1>2 DEF Enqueue
<1>5. pool[p] \in Seq(LocalJob)
  BY <1>1
<1>6. /\ Len(pool[p]) + 1 \in DOMAIN pool'[p] /\ pool'[p][Len(pool[p]) + 1] = j
      /\ \A i \in DOMAIN pool[p] : i \in DOMAIN pool'[p] /\ pool'[p][i] = pool[p][i]
  BY <1>3, <1>4, <1>5
<1>q. QED
  BY <1>3, <1>4, <1>6 DEF InPool

LEMMA PoolTail ==
    ASSUME LocalTypes, NEW p \in Proc, pool[p] # <<>>, pool' = [pool EXCEPT ![p] = Tail(@)]
    PROVE  \A q \in Proc, r \in Run : InPool(q, r) => InPool(q, r)' \/ (q = p /\ r = Head(pool[p]).run)
<1>1. pool \in [Proc -> Seq(LocalJob)] /\ pool[p] \in Seq(LocalJob)
  BY DEF LocalTypes
<1>2. pool'[p] = Tail(pool[p]) /\ \A q \in Proc : q # p => pool'[q] = pool[q]
  BY <1>1
<1>3. \A i \in DOMAIN pool[p] : i = 1 \/ (i - 1 \in DOMAIN pool'[p] /\ pool'[p][i - 1] = pool[p][i])
  BY <1>1, <1>2
<1>4. pool[p][1] = Head(pool[p])
  BY <1>1
<1>5. \A r \in Run : InPool(p, r) => InPool(p, r)' \/ r = Head(pool[p]).run
  BY <1>3, <1>4 DEF InPool
<1>6. \A q \in Proc, r \in Run : q # p /\ InPool(q, r) => InPool(q, r)'
  BY <1>2 DEF InPool
<1>q. QED
  BY <1>5, <1>6

\* The row's status stays, and so does what carries it on.
LEMMA KeepCarried ==
    ASSUME NEW d \in Db, NEW r \in Run, RowCarried(d, r), row'[d][r].status = row[d][r].status,
           \A q \in Proc : DbOf[q] = d =>
              /\ InPool(q, r) => InPool(q, r)' \/ \E u \in Thread : Claiming(q, u, r)'
              /\ r \in timers[q] => r \in timers'[q]
              /\ \A u \in Thread : (Claiming(q, u, r) => Claiming(q, u, r)')
                                   /\ (OnRow(q, u, r) => OnRow(q, u, r)')
    PROVE  RowCarried(d, r)'
<1>1. Ready(d, r) => Ready(d, r)'
  BY DEF Ready
<1>2. Taken(d, r) => Taken(d, r)'
  BY DEF Taken
<1>3. HasTimer(d, r) => HasTimer(d, r)'
  BY DEF HasTimer
<1>q. QED
  BY <1>1, <1>2, <1>3 DEF RowCarried

LEMMA SettledCarried ==
    ASSUME NEW d \in Db, NEW r \in Run, row'[d][r].status \in TERMINAL_STATES
    PROVE  RowCarried(d, r)'
  BY NotTerminal DEF RowCarried

LEMMA CarriedThreadStep ==
    ASSUME ~Shared, ExecInv, NEW p \in Proc, NEW t \in Thread, LocalThreadStep(p, t),
           NEW d \in Db, NEW r \in Run, RowCarried(d, r)
    PROVE  RowCarried(d, r)'
<1>0. LocalTypes /\ ThreadInv /\ WorkRow /\ RowInv
  BY DEF ExecInv
<1>1. CASE TakeJob(p, t)
  <2>1. row' = row /\ timers' = timers /\ pool' = [pool EXCEPT ![p] = Tail(@)]
    BY <1>1 DEF TakeJob
  <2>2. PICK s : /\ pool[p] # <<>> /\ thr[p][t].pc = "idle" /\ ThreadSet(p, t, s) /\ s.pc = "claim"
                 /\ s.run = Head(pool[p]).run
    BY <1>0, <1>1, TakeEffect
  <2>3. \A q \in Proc : InPool(q, r) => InPool(q, r)' \/ \E u \in Thread : Claiming(q, u, r)'
    <3>1. \A q \in Proc : InPool(q, r) => InPool(q, r)' \/ (q = p /\ r = Head(pool[p]).run)
      BY <1>0, <2>1, <2>2, PoolTail
    <3>2. r = Head(pool[p]).run => Claiming(p, t, r)'
      BY <2>2 DEF Claiming, ThreadSet
    <3>q. QED
      BY <3>1, <3>2
  <2>4. \A q \in Proc, u \in Thread : (Claiming(q, u, r) => Claiming(q, u, r)')
                                      /\ (OnRow(q, u, r) => OnRow(q, u, r)')
    BY <2>2 DEF Claiming, OnRow, ThreadSet, AtRow
  <2>q. QED
    BY <2>1, <2>3, <2>4, KeepCarried
<1>2. CASE ClaimLocal(p, t)
  <2>1. PICK x : x = thr[p][t].run
    OBVIOUS
  <2>2. x \in Run /\ thr[p][t].pc = "claim" /\ timers' = timers /\ pool' = pool
    BY <1>0, <1>2, <2>1, ClaimEffect DEF ClaimLocal, othersOfThread
  <2>3. PICK s : ThreadSet(p, t, s)
    BY <1>0, <1>2, <2>1, ClaimEffect
  <2>4. CASE ~(d = DbOf[p] /\ r = x)
    <3>1. row'[d][r] = row[d][r]
      BY <1>0, <1>2, <2>1, <2>4, ClaimEffect DEF RowSet
    <3>2. \A q \in Proc, u \in Thread : DbOf[q] = d =>
            (Claiming(q, u, r) => Claiming(q, u, r)') /\ (OnRow(q, u, r) => OnRow(q, u, r)')
      BY <2>1, <2>3, <2>4 DEF Claiming, OnRow, ThreadSet
    <3>3. \A q \in Proc : InPool(q, r) => InPool(q, r)'
      BY <2>2 DEF InPool
    <3>q. QED
      BY <2>2, <3>1, <3>2, <3>3, KeepCarried
  <2>5. CASE d = DbOf[p] /\ r = x
    <3>1. CASE LocallyClaimable(RowOf(p, x))
      <4>1. PICK h, w : /\ ThreadSet(p, t, h) /\ RowSet(DbOf[p], x, w)
                        /\ h.run = x /\ h.pc = "listen" /\ w.status = "running"
        BY <1>0, <1>2, <2>1, <3>1, ClaimEffect
      <4>2. Taken(d, r)' /\ row'[d][r].status = "running"
        BY <2>5, <4>1 DEF Taken, OnRow, AtRow, ThreadSet, RowSet
      <4>q. QED
        BY <4>2 DEF RowCarried
    <3>2. CASE ~LocallyClaimable(RowOf(p, x))
      <4>1. row' = row /\ row[d][r].status # "queued"
        BY <1>0, <1>2, <2>1, <2>5, <3>2, ClaimEffect DEF LocallyClaimable, RowOf
      <4>2. \A q \in Proc, u \in Thread : OnRow(q, u, r) => OnRow(q, u, r)'
        BY <2>2, <2>3 DEF OnRow, ThreadSet, AtRow
      <4>3. (Taken(d, r) => Taken(d, r)') /\ (HasTimer(d, r) => HasTimer(d, r)')
        BY <2>2, <4>2 DEF Taken, HasTimer
      <4>q. QED
        BY <4>1, <4>3 DEF RowCarried
    <3>q. QED
      BY <3>1, <3>2
  <2>q. QED
    BY <2>4, <2>5
<1>3. CASE Listen(p, t) \/ Execute(p, t)
  <2>1. PICK s : /\ row' = row /\ thr[p][t].pc \in AtRow /\ ThreadSet(p, t, s)
                 /\ s.run = thr[p][t].run /\ s.pc \in {"exec", "record"}
    BY <1>0, <1>3, WorkEffect
  <2>2. timers' = timers /\ pool' = pool
    BY <1>3 DEF Listen, Execute, othersOfThread
  <2>3. \A q \in Proc, u \in Thread : (Claiming(q, u, r) => Claiming(q, u, r)')
                                      /\ (OnRow(q, u, r) => OnRow(q, u, r)')
    BY <2>1 DEF Claiming, OnRow, ThreadSet, AtRow
  <2>4. \A q \in Proc : InPool(q, r) => InPool(q, r)'
    BY <2>2 DEF InPool
  <2>q. QED
    BY <2>1, <2>2, <2>3, <2>4, KeepCarried
<1>4. CASE Record(p, t)
  <2>1. PICK x : x = thr[p][t].run
    OBVIOUS
  <2>2. PICK s, w :
                /\ x \in Run /\ thr[p][t].pc = "record"
                /\ ThreadSet(p, t, s) /\ RowSet(DbOf[p], x, w)
                /\ \/ w.status = "retrying" /\ timers' = [timers EXCEPT ![p] = @ \cup {x}]
                   \/ w.status \in TERMINAL_STATES /\ timers' = timers
    BY <1>0, <1>4, <2>1, RecordEffect
  <2>3. timers \in [Proc -> SUBSET Run] /\ pool' = pool
    BY <1>0, <1>4 DEF LocalTypes, Record
  <2>4. CASE d = DbOf[p] /\ r = x
    <3>1. CASE w.status \in TERMINAL_STATES
      BY <2>2, <2>4, <3>1, SettledCarried DEF RowSet
    <3>2. CASE w.status = "retrying" /\ timers' = [timers EXCEPT ![p] = @ \cup {x}]
      <4>1. row'[d][r].status = "retrying" /\ r \in timers'[p]
        BY <2>2, <2>3, <2>4, <3>2 DEF RowSet
      <4>q. QED
        BY <2>4, <4>1 DEF RowCarried, HasTimer
    <3>q. QED
      BY <2>2, <3>1, <3>2
  <2>5. CASE ~(d = DbOf[p] /\ r = x)
    <3>1. row'[d][r] = row[d][r]
      BY <2>2, <2>5 DEF RowSet
    <3>2. \A q \in Proc, u \in Thread : DbOf[q] = d =>
            (Claiming(q, u, r) => Claiming(q, u, r)') /\ (OnRow(q, u, r) => OnRow(q, u, r)')
      BY <2>1, <2>2, <2>5 DEF Claiming, OnRow, ThreadSet
    <3>3. \A q \in Proc : (InPool(q, r) => InPool(q, r)') /\ (r \in timers[q] => r \in timers'[q])
      BY <2>2, <2>3 DEF InPool
    <3>q. QED
      BY <3>1, <3>2, <3>3, KeepCarried
  <2>q. QED
    BY <2>4, <2>5
<1>5. CASE Cleanup(p, t)
  <2>1. /\ row' = row /\ thr[p][t].pc = "cleanup" /\ ThreadSet(p, t, Idle)
        /\ timers' = timers /\ pool' = pool
    BY <1>0, <1>5, CleanupEffect DEF Cleanup
  <2>2. \A q \in Proc, u \in Thread : (Claiming(q, u, r) => Claiming(q, u, r)')
                                      /\ (OnRow(q, u, r) => OnRow(q, u, r)')
    BY <2>1 DEF Claiming, OnRow, ThreadSet, AtRow
  <2>3. \A q \in Proc : InPool(q, r) => InPool(q, r)'
    BY <2>1 DEF InPool
  <2>q. QED
    BY <2>1, <2>2, <2>3, KeepCarried
<1>6. CASE BeatLocal(p, t)
  <2>1. row'[d][r] = row[d][r] /\ \A q \in Proc, u \in Thread : thr'[q][u] = thr[q][u]
    BY <1>0, <1>6, BeatEffect
  <2>2. timers' = timers /\ pool' = pool
    BY <1>6 DEF BeatLocal, othersOfThread
  <2>3. \A q \in Proc, u \in Thread : (Claiming(q, u, r) => Claiming(q, u, r)')
                                      /\ (OnRow(q, u, r) => OnRow(q, u, r)')
    BY <2>1 DEF Claiming, OnRow
  <2>4. \A q \in Proc : InPool(q, r) => InPool(q, r)'
    BY <2>2 DEF InPool
  <2>q. QED
    BY <2>1, <2>2, <2>3, <2>4, KeepCarried
<1>q. QED
  BY <1>1, <1>2, <1>3, <1>4, <1>5, <1>6 DEF LocalThreadStep

\* Threads and pools as they were: the status decides.
LEMMA CarriedRowStep ==
    ASSUME ~Shared, Punctual, ExecInv, NEW d \in Db, NEW r \in Run, RowCarried(d, r),
           \/ \E p \in Proc, x \in Run : SubmitInsert(p, x) \/ ReleaseRetry(p, x)
                                         \/ CancelSignal(p, x) \/ CancelRow(p, x)
           \/ \E e \in Db, x \in Run : LapseLocal(e, x)
           \/ \E x \in Run : LapseShared(x)
    PROVE  RowCarried(d, r)'
<1>0. LocalTypes /\ ThreadInv /\ WorkRow /\ RowInv /\ timers \in [Proc -> SUBSET Run]
  BY DEF ExecInv, LocalTypes
<1>1. ASSUME thr' = thr PROVE \A q \in Proc, u \in Thread :
        (Claiming(q, u, r) => Claiming(q, u, r)') /\ (OnRow(q, u, r) => OnRow(q, u, r)')
  BY <1>1 DEF Claiming, OnRow
<1>2. ASSUME pool' = pool PROVE \A q \in Proc : InPool(q, r) => InPool(q, r)'
  BY <1>2 DEF InPool
<1>3. ASSUME thr' = thr, pool' = pool, timers' = timers, row'[d][r].status = row[d][r].status
      PROVE  RowCarried(d, r)'
  BY <1>1, <1>2, <1>3, KeepCarried
<1>4. ASSUME NEW p \in Proc, NEW x \in Run, SubmitInsert(p, x) PROVE RowCarried(d, r)'
  <2>1. thr' = thr /\ timers' = timers /\ RowSet(DbOf[p], x, Queued(0)) /\ Enqueue(p, x, "run")
    BY <1>0, <1>4, SubmitEffect DEF SubmitInsert
  <2>2. InPool(p, x)' /\ \A q \in Proc : InPool(q, r) => InPool(q, r)'
    BY <1>0, <2>1, PoolAppend
  <2>3. CASE d = DbOf[p] /\ r = x
    <3>1. row'[d][r].status = "queued" /\ Ready(d, r)'
      BY <2>1, <2>2, <2>3, FreshRow DEF RowSet, Ready
    <3>q. QED
      BY <3>1 DEF RowCarried
  <2>4. CASE ~(d = DbOf[p] /\ r = x)
    <3>1. row'[d][r] = row[d][r]
      BY <2>1, <2>4 DEF RowSet
    <3>q. QED
      BY <1>1, <2>1, <2>2, <3>1, KeepCarried
  <2>q. QED
    BY <2>3, <2>4
<1>5. ASSUME NEW p \in Proc, NEW x \in Run, ReleaseRetry(p, x) PROVE RowCarried(d, r)'
  <2>1. thr' = thr /\ timers' = [timers EXCEPT ![p] = @ \ {x}]
    BY <1>0, <1>5, ReleaseEffect
  <2>2. \A q \in Proc : r \in timers[q] => r \in timers'[q] \/ (q = p /\ r = x)
    BY <1>0, <2>1
  <2>3. CASE row' = row /\ pool' = pool /\ RowOf(p, x).status # "retrying"
    <3>1. CASE d = DbOf[p] /\ r = x
      <4>1. row[d][r].status # "retrying"
        BY <2>3, <3>1 DEF RowOf
      <4>2. (Ready(d, r) => Ready(d, r)') /\ (Taken(d, r) => Taken(d, r)')
        BY <1>1, <1>2, <2>1, <2>3 DEF Ready, Taken
      <4>q. QED
        BY <2>3, <4>1, <4>2 DEF RowCarried
    <3>2. CASE ~(d = DbOf[p] /\ r = x)
      <4>1. \A q \in Proc : DbOf[q] = d => (r \in timers[q] => r \in timers'[q])
        BY <2>2, <3>2
      <4>q. QED
        BY <1>1, <1>2, <2>1, <2>3, <4>1, KeepCarried
    <3>q. QED
      BY <3>1, <3>2
  <2>4. CASE ~(row' = row /\ pool' = pool /\ RowOf(p, x).status # "retrying")
    <3>1. PICK w : Enqueue(p, x, "run") /\ RowSet(DbOf[p], x, w) /\ w.status = "queued"
      BY <1>0, <1>5, <2>4, ReleaseEffect
    <3>2. InPool(p, x)' /\ \A q \in Proc : InPool(q, r) => InPool(q, r)'
      BY <1>0, <3>1, PoolAppend
    <3>3. CASE d = DbOf[p] /\ r = x
      <4>1. row'[d][r].status = "queued" /\ Ready(d, r)'
        BY <3>1, <3>2, <3>3 DEF RowSet, Ready
      <4>q. QED
        BY <4>1 DEF RowCarried
    <3>4. CASE ~(d = DbOf[p] /\ r = x)
      <4>1. row'[d][r] = row[d][r]
        BY <3>1, <3>4 DEF RowSet
      <4>2. \A q \in Proc : DbOf[q] = d => (r \in timers[q] => r \in timers'[q])
        BY <2>2, <3>4
      <4>q. QED
        BY <1>1, <2>1, <3>2, <4>1, <4>2, KeepCarried
    <3>q. QED
      BY <3>3, <3>4
  <2>q. QED
    BY <2>3, <2>4
<1>6. ASSUME NEW p \in Proc, NEW x \in Run, CancelSignal(p, x) PROVE RowCarried(d, r)'
  <2>1. Signal(p, signals[p][x]) /\ row' = row /\ pool' = pool /\ timers' = timers
    BY <1>6 DEF CancelSignal
  <2>2. \A q \in Proc, u \in Thread : (Claiming(q, u, r) => Claiming(q, u, r)')
                                      /\ (OnRow(q, u, r) => OnRow(q, u, r)')
    BY <1>0, <2>1, SignalEffect DEF Claiming, OnRow
  <2>q. QED
    BY <1>2, <2>1, <2>2, KeepCarried
<1>7. ASSUME NEW p \in Proc, NEW x \in Run, CancelRow(p, x) PROVE RowCarried(d, r)'
  <2>1. thr' = thr /\ pool' = pool /\ timers' = timers
    BY <1>7 DEF CancelRow, procVars
  <2>2. row' = row \/ \E w : RowSet(DbOf[p], x, w) /\ w.status = "cancelled"
    BY <1>0, <1>7, CancelEffect
  <2>3. row'[d][r] = row[d][r] \/ row'[d][r].status \in TERMINAL_STATES
    BY <2>2 DEF RowSet, TERMINAL_STATES
  <2>q. QED
    BY <1>3, <2>1, <2>3, SettledCarried
<1>8. ASSUME NEW e \in Db, NEW x \in Run, LapseLocal(e, x) PROVE RowCarried(d, r)'
  <2>1. thr' = thr /\ pool' = pool /\ timers' = timers
    BY <1>8 DEF LapseLocal, procVars
  <2>2. PICK w : RowSet(e, x, w) /\ w.status = row[e][x].status
    BY <1>0, <1>8, LapseEffect
  <2>3. row'[d][r].status = row[d][r].status
    BY <2>2 DEF RowSet
  <2>q. QED
    BY <1>3, <2>1, <2>3
<1>9. ASSUME NEW x \in Run, LapseShared(x) PROVE RowCarried(d, r)'
  BY <1>3, <1>9 DEF LapseShared, procVars
<1>q. QED
  BY <1>4, <1>5, <1>6, <1>7, <1>8, <1>9

LEMMA CarriedStep ==
    ASSUME ~Shared, Punctual, ExecInv, CarriedInv, [Next]_vars
    PROVE  CarriedInv'
<1> SUFFICES ASSUME crashes' = 0
             PROVE  /\ \A p \in Proc : up'[p] = "up"
                    /\ \A d \in Db, r \in Run : RowCarried(d, r)'
  BY DEF CarriedInv
<1>1. CASE Next
  <2>1. LocalNext
    BY <1>1, NoSharedStep DEF ExecInv
  <2>2. \A p \in Proc : ~Close(p) /\ ~Crash(p)
    BY DEF Close, Crash, ExecInv, LocalTypes
  <2>3. (up' = up /\ crashes' = crashes) \/ \E p \in Proc : Exit(p) \/ Restart(p)
    BY <2>1, <2>2, ProcsStay
  <2>4. crashes = 0
    BY <2>3 DEF Exit, Restart, bounds
  <2>5. /\ \A p \in Proc : up[p] = "up"
        /\ \A d \in Db, r \in Run : RowCarried(d, r)
    BY <2>4 DEF CarriedInv
  <2>6. \A p \in Proc : ~Exit(p) /\ ~Restart(p)
    BY <2>5 DEF Exit, Restart
  <2>7. ASSUME NEW d \in Db, NEW r \in Run PROVE RowCarried(d, r)'
    <3>1. RowCarried(d, r)
      BY <2>5
    <3>2. ASSUME NEW p \in Proc, NEW t \in Thread, LocalThreadStep(p, t) PROVE RowCarried(d, r)'
      BY <3>1, <3>2, CarriedThreadStep
    <3>q. QED
      BY <2>1, <2>2, <2>6, <3>1, <3>2, CarriedRowStep DEF LocalNext, LocalStep
  <2>q. QED
    BY <2>3, <2>5, <2>6, <2>7
<1>2. CASE UNCHANGED vars
  <2>1. /\ row' = row /\ thr' = thr /\ pool' = pool /\ timers' = timers /\ up' = up
        /\ crashes' = crashes
    BY <1>2 DEF vars, procVars, bounds
  <2>q. QED
    BY <2>1 DEF CarriedInv, RowCarried, Ready, InPool, Claiming, Taken, OnRow, HasTimer
<1>q. QED
  BY <1>1, <1>2

\* While no process is stopped no row is forgotten: a queued row has a job or a thread
\* about to claim it, a running row its worker, a retrying row its timer.
THEOREM RowsCarried == ASSUME ~Shared, Punctual PROVE Spec => []NothingForgotten
<1>1. Init => CarriedInv
  BY FreshRow DEF Init, CarriedInv, RowCarried
<1>2. ExecInv /\ CarriedInv /\ [Next]_vars => CarriedInv'
  BY CarriedStep
<1>3. ExecInv /\ CarriedInv => NothingForgotten
  <2> SUFFICES ASSUME ExecInv, CarriedInv, crashes = 0, NEW d \in Db, NEW r \in Run
               PROVE  /\ row[d][r].status = "queued" => HasJob(d, r)
                      /\ row[d][r].status = "running" => HasWorker(d, r)
                      /\ row[d][r].status = "retrying" => HasTimer(d, r)
    BY DEF NothingForgotten
  <2>1. RowCarried(d, r)
    BY DEF CarriedInv
  <2>2. Ready(d, r) => HasJob(d, r)
    BY DEF Ready, InPool, Claiming, HasJob
  <2>3. Taken(d, r) => HasWorker(d, r)
    BY WorkingOnRow DEF Taken, HasWorker, ExecInv
  <2>q. QED
    BY <2>1, <2>2, <2>3 DEF RowCarried
<1>q. QED
  BY <1>1, <1>2, <1>3, ExecHolds, PTL DEF Spec

-----------------------------------------------------------------------------
(* The scheduler over the control plane                                    *)

CPP == INSTANCE ControlPlaneProofs WITH
    Key <- Run, Owner <- Proc, NoOwner <- NoProc, Hash <- {Request},
    NoHash <- NoRequest, Outcomes <- TERMINAL_STATES

LEMMA ControlPlaneConstants ==
    /\ NoProc \notin Proc
    /\ NoRequest \notin {Request}
    /\ TERMINAL_STATES \subseteq CPP!ClaimTerminal \cup CPP!Parked
    /\ MaxFence \in Nat
BY ControlPlaneAssumption DEF TERMINAL_STATES, CPP!ClaimTerminal, CPP!Parked

\* The calls of the scheduler, in the terms of the control plane's proofs.
LEMMA ScriptsAre ==
    /\ \A r \in Run : CP!Admit(r, Request) <=> CPP!Admit(r, Request)
    /\ \A r \in Run, p \in Proc : CP!Claim(r, p) <=> CPP!Claim(r, p)
    /\ \A t : CP!Renew(t) <=> CPP!Renew(t)
    /\ \A t, s : CP!Transition(t, s) <=> CPP!Transition(t, s)
    /\ \A t : CP!ScheduleRetry(t) <=> CPP!ScheduleRetry(t)
    /\ \A r \in Run : CP!Lapse(r) <=> CPP!Lapse(r)
    /\ \A p \in Proc : CP!Poll(p) <=> CPP!Poll(p)
    /\ \A p \in Proc, r \in Run : CP!Reclaim(p, r) <=> CPP!Reclaim(p, r)
    /\ \A r \in Run : CP!Ack(r) <=> CPP!Ack(r)
    /\ \A t : CP!Holds(t) <=> CPP!Holds(t)
<1>1. \A r \in Run : CP!Admit(r, Request) <=> CPP!Admit(r, Request)
  BY DEF CP!Admit, CPP!Admit, CP!Admission, CPP!Admission, CP!Publish, CPP!Publish
<1>2. \A r \in Run, p \in Proc : CP!Claim(r, p) <=> CPP!Claim(r, p)
  BY DEF CP!Claim, CPP!Claim, CP!Claimable, CPP!Claimable, CP!ClaimTerminal, CPP!ClaimTerminal,
     CP!NextFence, CPP!NextFence, CP!Grant, CPP!Grant, CP!Publish, CPP!Publish,
     CP!queueVars, CPP!queueVars
<1>3. \A t : CP!Holds(t) <=> CPP!Holds(t)
  BY DEF CP!Holds, CPP!Holds
<1>4. \A t : CP!Renew(t) <=> CPP!Renew(t)
  BY <1>3 DEF CP!Renew, CPP!Renew, CP!queueVars, CPP!queueVars
<1>5. \A t, s : CP!Transition(t, s) <=> CPP!Transition(t, s)
  BY <1>3 DEF CP!Transition, CPP!Transition, CP!Release, CPP!Release, CP!Publish, CPP!Publish,
     CP!queueVars, CPP!queueVars
<1>6. \A t : CP!ScheduleRetry(t) <=> CPP!ScheduleRetry(t)
  BY <1>3 DEF CP!ScheduleRetry, CPP!ScheduleRetry, CP!Release, CPP!Release, CP!Publish, CPP!Publish,
     CP!queueVars, CPP!queueVars
<1>7. \A r \in Run : CP!Lapse(r) <=> CPP!Lapse(r)
  BY DEF CP!Lapse, CPP!Lapse, CP!queueVars, CPP!queueVars
<1>8. \A p \in Proc : CP!Poll(p) <=> CPP!Poll(p)
  BY DEF CP!Poll, CPP!Poll, CP!leaseVars, CPP!leaseVars
<1>9. \A p \in Proc, r \in Run : CP!Reclaim(p, r) <=> CPP!Reclaim(p, r)
  BY DEF CP!Reclaim, CPP!Reclaim, CP!leaseVars, CPP!leaseVars
<1>10. \A r \in Run : CP!Ack(r) <=> CPP!Ack(r)
  BY DEF CP!Ack, CPP!Ack, CP!leaseVars, CPP!leaseVars
<1>q. QED
  BY <1>1, <1>2, <1>3, <1>4, <1>5, <1>6, <1>7, <1>8, <1>9, <1>10

\* Every value a thread, a job and a table may take, with or without a control plane.
Places == {"idle", "peek", "look", "fetch", "hydrate", "ack", "claim", "share", "requeue",
           "listen", "exec", "settle", "record", "cleanup"}
ThreadState ==
    [pc : Places, run : Run \cup {NoRun}, kind : {"run", "message"}, token : Nat, fence : Nat,
     beat : {"off", "local", "shared"}, lost : BOOLEAN, cancel : BOOLEAN,
     out : {"none", "retry"} \cup TERMINAL_STATES, handler : BOOLEAN]

\* A worker past the shared claim carries the token it was granted.
Tokened == {"listen", "exec", "settle", "record"}

\* It may execute: it was granted the lease and has a heartbeat to keep it.
Leased(s) == s.pc = "listen" \/ (s.pc = "exec" /\ s.beat # "off")

\* It is about to write a final outcome into the row.
Closing(s) == s.pc = "record" /\ ~Retries(s) /\ Final(s) \in CP!ClaimTerminal

StateOK(z) ==
    /\ z \in ThreadState
    /\ z.pc = "idle" <=> z.run = NoRun
    /\ z.pc = "settle" \/ z.beat = "shared" => Shared
    /\ z.pc \in {"settle", "record"} => z.out # "none"

StateTypes ==
    /\ row \in [Db -> [Run -> Row]]
    /\ thr \in [Proc -> [Thread -> ThreadState]]
    /\ \A p \in Proc, t \in Thread : StateOK(thr[p][t])
    /\ pool \in [Proc -> Seq(Job)]
    /\ timers \in [Proc -> SUBSET Run]
    /\ signals \in [Proc -> [Run -> SUBSET Thread]]
    /\ up \in [Proc -> {"up", "closed", "down"}]
    /\ admitting \in [Proc -> SUBSET Run]

TokensIssued ==
    Shared => \A p \in Proc, t \in Thread : thr[p][t].pc \in Tokened => TokenOf(p, t) \in issued

ClientInv == CPP!FencingInv /\ StateTypes /\ TokensIssued

\* What one thread does to the control plane from where it is.
ThreadCall(p, t) ==
    \/ UNCHANGED cpVars
    \/ thr[p][t].pc = "share" /\ CP!Claim(thr[p][t].run, p)
    \/ thr[p][t].pc \in Tokened /\ Shared /\ CP!Renew(TokenOf(p, t))
    \/ thr[p][t].pc = "settle" /\ SettleCall(p, t)
    \/ thr[p][t].run \in Run /\ CP!Ack(thr[p][t].run)

\* How a worker's state z may follow from its state s: it keeps its token, or was just
\* granted one; and it may go on executing, or go on to write an outcome, only so.
Kept(s, z) ==
    /\ s.pc \in Tokened /\ z.run = s.run /\ z.fence = s.fence
    /\ Leased(z) => Leased(s)
Granted(p, s, z) ==
    /\ s.pc = "share" /\ z.pc = "listen" /\ z.run = s.run /\ z.fence = fence[s.run] + 1
    /\ CP!Claim(s.run, p)
Settled(s, z) ==
    \/ Closing(s) /\ Final(z) = Final(s) /\ z.run = s.run
    \/ status'[z.run] = Final(z)

Moves(p, t, z) ==
    /\ thr' = [thr EXCEPT ![p][t] = z]
    /\ StateOK(z)
    /\ Shared /\ z.pc \in Tokened => Kept(thr[p][t], z) \/ Granted(p, thr[p][t], z)
    /\ Shared /\ Closing(z) => Settled(thr[p][t], z)

-----------------------------------------------------------------------------
(* The states the code puts a thread in                                    *)

TakenOn(r, k, c) == [Idle EXCEPT !.run = r, !.kind = k, !.pc = c]
TokenAt(s, c, k) == [s EXCEPT !.pc = c, !.token = k]
GrantTo(s, f) == [s EXCEPT !.pc = "listen", !.fence = f]
Listening(s, b) == [s EXCEPT !.pc = "exec", !.beat = "local", !.cancel = b]
Beats(s, b) == [s EXCEPT !.beat = b]
BeatLost(s) == [s EXCEPT !.beat = "off", !.lost = TRUE]
Reports(s, c, o, h) == [s EXCEPT !.pc = c, !.out = o, !.handler = h]
FailsToSettle(s) == [s EXCEPT !.out = "failed", !.handler = TRUE]
Signalled(s) == [s EXCEPT !.cancel = TRUE]
Placed(s, c) == [s EXCEPT !.pc = c]

LEMMA StateFields ==
    ASSUME NEW s \in ThreadState
    PROVE  /\ s.pc \in Places /\ s.run \in Run \cup {NoRun} /\ s.kind \in {"run", "message"}
           /\ s.token \in Nat /\ s.fence \in Nat /\ s.beat \in {"off", "local", "shared"}
           /\ s.lost \in BOOLEAN /\ s.cancel \in BOOLEAN
           /\ s.out \in {"none", "retry"} \cup TERMINAL_STATES /\ s.handler \in BOOLEAN
  BY DEF ThreadState

LEMMA IdleState == StateOK(Idle) /\ Idle.pc = "idle"
  BY DEF Idle, StateOK, ThreadState, Places

LEMMA TakenState ==
    ASSUME NEW r \in Run, NEW k \in {"run", "message"}, NEW c \in {"peek", "claim", "ack"}
    PROVE  StateOK(TakenOn(r, k, c)) /\ TakenOn(r, k, c).pc = c
<1>0. PICK z : z = TakenOn(r, k, c)
  OBVIOUS
<1>1. /\ z \in ThreadState /\ z.pc = c /\ z.run = r /\ z.beat = "off"
  BY <1>0 DEF TakenOn, Idle, ThreadState, Places
<1>q. QED
  BY <1>0, <1>1, NoRunAssumption DEF StateOK

LEMMA DoneState ==
    ASSUME NEW s, StateOK(s), s.pc # "idle"
    PROVE  StateOK(WorkerDone(s)) /\ WorkerDone(s).pc \in {"idle", "ack"}
<1>1. CASE s.kind = "message"
  <2>1. s.run \in Run
    BY DEF StateOK, ThreadState
  <2>2. WorkerDone(s) = [Idle EXCEPT !.pc = "ack", !.run = s.run, !.kind = "message"]
    BY <1>1 DEF WorkerDone
  <2>3. PICK r \in Run : r = s.run
    BY <2>1
  <2>4. WorkerDone(s) = TakenOn(r, "message", "ack")
    BY <2>2, <2>3 DEF TakenOn
  <2>q. QED
    BY <2>4, TakenState
<1>2. CASE s.kind # "message"
  BY <1>2, IdleState DEF WorkerDone
<1>q. QED
  BY <1>1, <1>2

\* The fields that a step leaves alone.
SameWork(s, z) == z.run = s.run /\ z.fence = s.fence

LEMMA PlacedState ==
    ASSUME NEW s, StateOK(s), s.pc # "idle", NEW c \in Places \ {"idle", "settle", "record"}
    PROVE  StateOK(Placed(s, c)) /\ Placed(s, c).pc = c /\ SameWork(s, Placed(s, c))
<1>0. PICK z : z = Placed(s, c)
  OBVIOUS
<1>1. z \in ThreadState /\ z.pc = c /\ z.run = s.run /\ z.fence = s.fence /\ z.beat = s.beat
  BY <1>0 DEF Placed, StateOK, ThreadState, Places
<1>q. QED
  BY <1>0, <1>1, NoRunAssumption DEF StateOK, SameWork

LEMMA TokenState ==
    ASSUME NEW s, StateOK(s), s.pc # "idle", NEW k \in Nat,
           NEW c \in Places \ {"idle", "settle", "record"}
    PROVE  StateOK(TokenAt(s, c, k)) /\ TokenAt(s, c, k).pc = c /\ SameWork(s, TokenAt(s, c, k))
<1>0. PICK z : z = TokenAt(s, c, k)
  OBVIOUS
<1>1. z \in ThreadState /\ z.pc = c /\ z.run = s.run /\ z.fence = s.fence /\ z.beat = s.beat
  BY <1>0 DEF TokenAt, StateOK, ThreadState, Places
<1>q. QED
  BY <1>0, <1>1, NoRunAssumption DEF StateOK, SameWork

LEMMA GrantedState ==
    ASSUME NEW s, StateOK(s), s.pc # "idle", NEW f \in Nat
    PROVE  /\ StateOK(GrantTo(s, f)) /\ GrantTo(s, f).pc = "listen"
           /\ GrantTo(s, f).run = s.run /\ GrantTo(s, f).fence = f
<1>0. PICK z : z = GrantTo(s, f)
  OBVIOUS
<1>1. z \in ThreadState /\ z.pc = "listen" /\ z.run = s.run /\ z.fence = f /\ z.beat = s.beat
  BY <1>0 DEF GrantTo, StateOK, ThreadState, Places
<1>q. QED
  BY <1>0, <1>1, NoRunAssumption DEF StateOK

LEMMA ListeningState ==
    ASSUME NEW s, StateOK(s), s.pc # "idle", NEW b \in BOOLEAN
    PROVE  StateOK(Listening(s, b)) /\ Listening(s, b).pc = "exec" /\ SameWork(s, Listening(s, b))
<1>0. PICK z : z = Listening(s, b)
  OBVIOUS
<1>1. z \in ThreadState /\ z.pc = "exec" /\ z.run = s.run /\ z.fence = s.fence /\ z.beat = "local"
  BY <1>0 DEF Listening, StateOK, ThreadState, Places
<1>q. QED
  BY <1>0, <1>1, NoRunAssumption DEF StateOK, SameWork

LEMMA BeatState ==
    ASSUME NEW s, StateOK(s), NEW b \in {"off", "local", "shared"}, b = "shared" => Shared
    PROVE  /\ StateOK(Beats(s, b)) /\ Beats(s, b).pc = s.pc /\ SameWork(s, Beats(s, b))
           /\ Beats(s, b).beat = b /\ Beats(s, b).out = s.out /\ Beats(s, b).token = s.token
<1>0. PICK z : z = Beats(s, b)
  OBVIOUS
<1>1. z \in ThreadState /\ z.pc = s.pc /\ z.run = s.run /\ z.fence = s.fence /\ z.beat = b
      /\ z.out = s.out /\ z.token = s.token
  BY <1>0 DEF Beats, StateOK, ThreadState
<1>q. QED
  BY <1>0, <1>1 DEF StateOK, SameWork

LEMMA BeatLostState ==
    ASSUME NEW s, StateOK(s)
    PROVE  /\ StateOK(BeatLost(s)) /\ BeatLost(s).pc = s.pc /\ SameWork(s, BeatLost(s))
           /\ BeatLost(s).beat = "off" /\ BeatLost(s).out = s.out /\ BeatLost(s).token = s.token
<1>0. PICK z : z = BeatLost(s)
  OBVIOUS
<1>1. z \in ThreadState /\ z.pc = s.pc /\ z.run = s.run /\ z.fence = s.fence /\ z.beat = "off"
      /\ z.out = s.out /\ z.token = s.token
  BY <1>0 DEF BeatLost, StateOK, ThreadState
<1>q. QED
  BY <1>0, <1>1 DEF StateOK, SameWork

LEMMA ReportedState ==
    ASSUME NEW s, StateOK(s), s.pc # "idle", NEW c \in {"settle", "record"}, c = "settle" => Shared,
           NEW o \in {"retry"} \cup TERMINAL_STATES, NEW h \in BOOLEAN
    PROVE  StateOK(Reports(s, c, o, h)) /\ Reports(s, c, o, h).pc = c /\ SameWork(s, Reports(s, c, o, h))
<1>0. PICK z : z = Reports(s, c, o, h)
  OBVIOUS
<1>1. z \in ThreadState /\ z.pc = c /\ z.run = s.run /\ z.fence = s.fence /\ z.beat = s.beat
      /\ z.out = o
  BY <1>0 DEF Reports, StateOK, ThreadState, Places
<1>2. o # "none"
  BY <1>0 DEF Reports, TERMINAL_STATES
<1>q. QED
  BY <1>0, <1>1, <1>2, NoRunAssumption DEF StateOK, SameWork

LEMMA RecordingState ==
    ASSUME NEW s, StateOK(s), s.pc = "settle"
    PROVE  /\ StateOK(Placed(s, "record")) /\ Placed(s, "record").pc = "record"
           /\ SameWork(s, Placed(s, "record")) /\ Placed(s, "record").out = s.out
           /\ Placed(s, "record").token = s.token
<1>0. PICK z : z = Placed(s, "record")
  OBVIOUS
<1>1. z \in ThreadState /\ z.pc = "record" /\ z.run = s.run /\ z.fence = s.fence /\ z.beat = s.beat
      /\ z.out = s.out /\ z.token = s.token
  BY <1>0 DEF Placed, StateOK, ThreadState, Places
<1>q. QED
  BY <1>0, <1>1, NoRunAssumption DEF StateOK, SameWork

LEMMA FailedState ==
    ASSUME NEW s, StateOK(s), s.pc = "settle"
    PROVE  StateOK(FailsToSettle(s)) /\ FailsToSettle(s).pc = "settle" /\ SameWork(s, FailsToSettle(s))
<1>0. PICK z : z = FailsToSettle(s)
  OBVIOUS
<1>1. z \in ThreadState /\ z.pc = "settle" /\ z.run = s.run /\ z.fence = s.fence /\ z.beat = s.beat
      /\ z.out = "failed"
  BY <1>0 DEF FailsToSettle, StateOK, ThreadState, TERMINAL_STATES
<1>q. QED
  BY <1>0, <1>1 DEF StateOK, SameWork

LEMMA SignalledState ==
    ASSUME NEW s, StateOK(s)
    PROVE  /\ StateOK(Signalled(s)) /\ Signalled(s).pc = s.pc
           /\ SameWork(s, Signalled(s)) /\ Signalled(s).beat = s.beat
           /\ Signalled(s).out = s.out /\ Signalled(s).token = s.token
<1>0. PICK z : z = Signalled(s)
  OBVIOUS
<1>1. z \in ThreadState /\ z.pc = s.pc /\ z.run = s.run /\ z.fence = s.fence /\ z.beat = s.beat
      /\ z.out = s.out /\ z.token = s.token
  BY <1>0 DEF Signalled, StateOK, ThreadState
<1>q. QED
  BY <1>0, <1>1 DEF StateOK, SameWork

-----------------------------------------------------------------------------
(* What each step does to its thread and to the control plane              *)

LEMMA MovesOff ==
    ASSUME NEW p \in Proc, NEW t \in Thread, NEW z, SetThread(p, t, z), StateOK(z),
           z.pc \notin Tokened
    PROVE  \E y : Moves(p, t, y)
<1>1. z.pc # "record"
  BY DEF Tokened
<1>q. QED
  BY <1>1 DEF Moves, SetThread, Closing

LEMMA MovesOn ==
    ASSUME NEW p \in Proc, NEW t \in Thread, NEW z, SetThread(p, t, z), StateOK(z),
           SameWork(thr[p][t], z), thr[p][t].pc \in Tokened, z.pc # "record",
           Leased(z) => Leased(thr[p][t])
    PROVE  \E y : Moves(p, t, y)
  BY DEF Moves, SetThread, Closing, Kept, SameWork

LEMMA StateAt ==
    ASSUME StateTypes, NEW p \in Proc, NEW t \in Thread
    PROVE  /\ StateOK(thr[p][t]) /\ thr[p][t] \in ThreadState
           /\ thr[p][t].pc # "idle" => thr[p][t].run \in Run
<1>1. StateOK(thr[p][t])
  BY DEF StateTypes
<1>q. QED
  BY <1>1, StateFields DEF StateOK

LEMMA RowAt ==
    ASSUME StateTypes, NEW p \in Proc, NEW r \in Run
    PROVE  RowOf(p, r) \in Row /\ RowOf(p, r).attempt \in Nat /\ RowOf(p, r).token \in Nat
<1>1. RowOf(p, r) \in Row
  BY DbOfAssumption DEF StateTypes, RowOf
<1>q. QED
  BY <1>1 DEF Row

\* Calm: the thread changes itself only.
LEMMA TakeMoves ==
    ASSUME StateTypes, NEW p \in Proc, NEW t \in Thread, TakeJob(p, t)
    PROVE  (\E y : Moves(p, t, y)) /\ UNCHANGED cpVars
<1>1. pool[p] \in Seq(Job) /\ pool[p] # <<>>
  BY DEF StateTypes, TakeJob
<1>2. PICK j \in Job : j = Head(pool[p])
  BY <1>1
<1>3. j.run \in Run /\ j.kind \in {"run", "message"}
  BY DEF Job
<1>4. PICK c \in {"peek", "claim", "ack"} : c = IF j.kind = "message" THEN "peek" ELSE "claim"
  OBVIOUS
<1>5. PICK z : z = TakenOn(j.run, j.kind, c)
  OBVIOUS
<1>6. SetThread(p, t, z)
  BY <1>2, <1>4, <1>5 DEF TakeJob, TakenOn
<1>7. StateOK(z) /\ z.pc = c
  BY <1>3, <1>5, TakenState
<1>q. QED
  BY <1>4, <1>6, <1>7, MovesOff DEF TakeJob, Tokened

LEMMA MessageMoves ==
    ASSUME StateTypes, fence \in [Run -> Nat], NEW p \in Proc, NEW t \in Thread,
           Peek(p, t) \/ Look(p, t) \/ Fetch(p, t) \/ Hydrate(p, t)
    PROVE  (\E y : Moves(p, t, y)) /\ UNCHANGED cpVars
<1>0. StateOK(thr[p][t]) /\ (thr[p][t].pc # "idle" => thr[p][t].run \in Run)
  BY StateAt
<1>s. PICK s : s = thr[p][t]
  OBVIOUS
<1>1. CASE Peek(p, t)
  <2>1. s.pc = "peek"
    BY <1>1, <1>s DEF Peek, At
  <2>2. PICK z : z = Placed(s, "look")
    OBVIOUS
  <2>3. SetThread(p, t, Idle) \/ SetThread(p, t, z)
    BY <1>1, <1>s, <2>2 DEF Peek, Placed
  <2>4. StateOK(z) /\ z.pc = "look"
    BY <1>0, <1>s, <2>1, <2>2, PlacedState DEF Places
  <2>q. QED
    BY <1>1, <2>3, <2>4, IdleState, MovesOff DEF Peek, Tokened
<1>2. CASE Look(p, t)
  <2>1. s.pc = "look"
    BY <1>2, <1>s DEF Look, At
  <2>2. PICK c \in {"fetch", "claim"} : SetThread(p, t, Placed(s, c))
    BY <1>2, <1>s DEF Look, Placed
  <2>3. PICK z : z = Placed(s, c)
    OBVIOUS
  <2>4. StateOK(z) /\ z.pc = c
    BY <1>0, <1>s, <2>1, <2>3, PlacedState DEF Places
  <2>q. QED
    BY <1>2, <2>2, <2>3, <2>4, MovesOff DEF Look, Tokened
<1>3. CASE Fetch(p, t)
  <2>1. s.pc = "fetch" /\ s.run \in Run
    BY <1>0, <1>3, <1>s DEF Fetch, At
  <2>2. PICK k \in Nat : k = fence[s.run]
    BY <2>1
  <2>3. PICK z : z = TokenAt(s, "hydrate", k)
    OBVIOUS
  <2>4. SetThread(p, t, WorkerDone(s)) \/ SetThread(p, t, z)
    BY <1>3, <1>s, <2>2, <2>3 DEF Fetch, TokenAt
  <2>5. StateOK(z) /\ z.pc = "hydrate"
    BY <1>0, <1>s, <2>1, <2>3, TokenState DEF Places
  <2>6. StateOK(WorkerDone(s)) /\ WorkerDone(s).pc \in {"idle", "ack"}
    BY <1>0, <1>s, <2>1, DoneState
  <2>q. QED
    BY <1>3, <2>4, <2>5, <2>6, MovesOff DEF Fetch, Tokened
<1>4. CASE Hydrate(p, t)
  <2>1. s.pc = "hydrate"
    BY <1>4, <1>s DEF Hydrate, At
  <2>2. PICK z : z = TokenAt(s, "claim", 0)
    OBVIOUS
  <2>3. SetThread(p, t, z)
    BY <1>4, <1>s, <2>2 DEF Hydrate, TokenAt
  <2>4. StateOK(z) /\ z.pc = "claim"
    BY <1>0, <1>s, <2>1, <2>2, TokenState DEF Places
  <2>q. QED
    BY <1>4, <2>3, <2>4, MovesOff DEF Hydrate, Tokened
<1>q. QED
  BY <1>1, <1>2, <1>3, <1>4

\* A worker that leaves: WorkerDone, or on to its cleanup.
LEMMA LeaveMoves ==
    ASSUME StateTypes, NEW p \in Proc, NEW t \in Thread, thr[p][t].pc # "idle",
           \/ SetThread(p, t, WorkerDone(thr[p][t]))
           \/ SetThread(p, t, [thr[p][t] EXCEPT !.pc = "cleanup"])
           \/ SetThread(p, t, Idle)
    PROVE  \E y : Moves(p, t, y)
<1>s. PICK s : s = thr[p][t]
  OBVIOUS
<1>1. StateOK(s)
  BY <1>s, StateAt
<1>2. StateOK(WorkerDone(s)) /\ WorkerDone(s).pc \in {"idle", "ack"}
  BY <1>s, <1>1, DoneState
<1>3. PICK z : z = Placed(s, "cleanup")
  OBVIOUS
<1>4. StateOK(z) /\ z.pc = "cleanup"
  BY <1>s, <1>1, <1>3, PlacedState DEF Places
<1>q. QED
  BY <1>s, <1>2, <1>3, <1>4, IdleState, MovesOff DEF Tokened, Placed

LEMMA ClaimLocalMoves ==
    ASSUME StateTypes, NEW p \in Proc, NEW t \in Thread, ClaimLocal(p, t)
    PROVE  (\E y : Moves(p, t, y)) /\ UNCHANGED cpVars
<1>s. PICK s : s = thr[p][t]
  OBVIOUS
<1>0. StateOK(s) /\ s.pc = "claim" /\ s.run \in Run
  BY <1>s, StateAt DEF ClaimLocal, At
<1>1. CASE SetThread(p, t, WorkerDone(s))
  BY <1>0, <1>1, <1>s, LeaveMoves DEF ClaimLocal
<1>2. CASE ~SetThread(p, t, WorkerDone(s))
  <2>1. PICK k \in Nat : k = RowOf(p, s.run).attempt + 1
    BY <1>0, RowAt
  <2>2. PICK c \in {"share", "listen"} : c = (IF Shared THEN "share" ELSE "listen")
    OBVIOUS
  <2>3. SetThread(p, t, [s EXCEPT !.token = k, !.pc = c])
    BY <1>2, <1>s, <2>1, <2>2 DEF ClaimLocal
  <2>4. [s EXCEPT !.token = k, !.pc = c] = [s EXCEPT !.pc = c, !.token = k]
    OBVIOUS
  <2>5. PICK z : z = TokenAt(s, c, k)
    OBVIOUS
  <2>6. StateOK(z) /\ z.pc = c
    BY <1>0, <2>5, TokenState DEF Places
  <2>7. SetThread(p, t, z)
    BY <2>3, <2>4, <2>5 DEF TokenAt
  <2>8. Moves(p, t, z)
    BY <2>2, <2>6, <2>7 DEF Moves, SetThread, Closing, Tokened
  <2>q. QED
    BY <2>8 DEF ClaimLocal
<1>q. QED
  BY <1>1, <1>2

LEMMA ClaimSharedMoves ==
    ASSUME StateTypes, fence \in [Run -> Nat], NEW p \in Proc, NEW t \in Thread, ClaimShared(p, t)
    PROVE  (\E y : Moves(p, t, y)) /\ ThreadCall(p, t)
<1>s. PICK s : s = thr[p][t]
  OBVIOUS
<1>0. StateOK(s) /\ s.pc = "share" /\ s.run \in Run
  BY <1>s, StateAt DEF ClaimShared, At
<1>1. CASE CP!Claimable(s.run)
  <2>1. PICK f \in Nat : f = fence[s.run] + 1
    BY <1>0
  <2>2. PICK z : z = GrantTo(s, f)
    OBVIOUS
  <2>3. CP!Claim(s.run, p) /\ SetThread(p, t, z)
    BY <1>1, <1>s, <2>1, <2>2 DEF ClaimShared, CP!NextFence, GrantTo
  <2>4. StateOK(z) /\ z.pc = "listen" /\ z.run = s.run /\ z.fence = f
    BY <1>0, <2>2, GrantedState
  <2>5. Granted(p, s, z)
    BY <1>0, <2>1, <2>3, <2>4 DEF Granted
  <2>6. Moves(p, t, z)
    BY <1>s, <2>3, <2>4, <2>5 DEF Moves, SetThread, Closing
  <2>q. QED
    BY <1>0, <1>s, <2>3, <2>6 DEF ThreadCall
<1>2. CASE ~CP!Claimable(s.run)
  <2>1. PICK z : z = Placed(s, "requeue")
    OBVIOUS
  <2>2. SetThread(p, t, z) /\ UNCHANGED cpVars
    BY <1>2, <1>s, <2>1 DEF ClaimShared, Placed
  <2>3. StateOK(z) /\ z.pc = "requeue"
    BY <1>0, <2>1, PlacedState DEF Places
  <2>q. QED
    BY <2>2, <2>3, MovesOff DEF ThreadCall, Tokened
<1>q. QED
  BY <1>1, <1>2

LEMMA ListenMoves ==
    ASSUME StateTypes, NEW p \in Proc, NEW t \in Thread, Listen(p, t)
    PROVE  (\E y : Moves(p, t, y)) /\ UNCHANGED cpVars
<1>s. PICK s : s = thr[p][t]
  OBVIOUS
<1>0. StateOK(s) /\ s.pc = "listen"
  BY <1>s, StateAt DEF Listen, At
<1>1. PICK b \in BOOLEAN : b = (\E u \in signals[p][s.run] : thr[p][u].cancel)
  OBVIOUS
<1>2. PICK z : z = Listening(s, b)
  OBVIOUS
<1>3. SetThread(p, t, z)
  BY <1>s, <1>1, <1>2 DEF Listen, Listening
<1>4. StateOK(z) /\ z.pc = "exec" /\ SameWork(s, z)
  BY <1>0, <1>2, ListeningState
<1>5. Leased(s) /\ s.pc \in Tokened
  BY <1>0 DEF Leased, Tokened
<1>q. QED
  BY <1>s, <1>3, <1>4, <1>5, MovesOn DEF Listen

\* A change of the heartbeat, in any of its forms.
LEMMA BeatMoves ==
    ASSUME StateTypes, NEW p \in Proc, NEW t \in Thread, NEW z, SetThread(p, t, z),
           thr[p][t].pc \in {"exec", "settle", "record"}, thr[p][t].beat # "off",
           \/ z = BeatLost(thr[p][t])
           \/ \E b \in {"off", "local", "shared"} : z = Beats(thr[p][t], b) /\ (b = "shared" => Shared)
    PROVE  \E y : Moves(p, t, y)
<1>s. PICK s : s = thr[p][t]
  OBVIOUS
<1>0. StateOK(s)
  BY <1>s, StateAt
<1>1. /\ StateOK(z) /\ z.pc = s.pc /\ SameWork(s, z) /\ z.out = s.out /\ z.token = s.token
  BY <1>0, <1>s, BeatState, BeatLostState
<1>2. s.pc \in Tokened /\ (Leased(z) => Leased(s))
  BY <1>1, <1>s DEF Tokened, Leased
<1>3. Closing(z) => Closing(s) /\ Final(z) = Final(s) /\ z.run = s.run
  BY <1>1 DEF Closing, Final, Retries, SameWork
<1>4. Kept(s, z)
  BY <1>1, <1>2 DEF Kept, SameWork
<1>q. QED
  BY <1>s, <1>1, <1>3, <1>4 DEF Moves, SetThread, Settled

LEMMA BeatLocalMoves ==
    ASSUME StateTypes, NEW p \in Proc, NEW t \in Thread, BeatLocal(p, t)
    PROVE  (\E y : Moves(p, t, y)) /\ UNCHANGED cpVars
<1>1. thr[p][t].pc \in {"exec", "settle", "record"} /\ thr[p][t].beat # "off"
  BY DEF BeatLocal, Beating
<1>2. PICK z : SetThread(p, t, z) /\ (\/ z = BeatLost(thr[p][t])
                                      \/ z = Beats(thr[p][t], IF Shared THEN "shared" ELSE "local"))
  BY DEF BeatLocal, BeatLost, Beats
<1>3. \/ z = BeatLost(thr[p][t])
      \/ \E b \in {"off", "local", "shared"} : z = Beats(thr[p][t], b) /\ (b = "shared" => Shared)
  BY <1>2
<1>q. QED
  BY <1>1, <1>2, <1>3, BeatMoves DEF BeatLocal

LEMMA BeatSharedMoves ==
    ASSUME StateTypes, NEW p \in Proc, NEW t \in Thread, BeatShared(p, t) \/ BeatOutage(p, t)
    PROVE  (\E y : Moves(p, t, y)) /\ ThreadCall(p, t)
<1>1. /\ thr[p][t].pc \in {"exec", "settle", "record"} /\ thr[p][t].beat = "shared"
  BY DEF BeatShared, BeatOutage, Beating
<1>2. Shared /\ thr[p][t].pc \in Tokened
  BY <1>1, StateAt DEF StateOK, Tokened
<1>3. PICK z : SetThread(p, t, z) /\ (\/ z = BeatLost(thr[p][t])
                                      \/ z = Beats(thr[p][t], "local")
                                      \/ z = Beats(thr[p][t], "off"))
  BY DEF BeatShared, BeatOutage, BeatLost, Beats
<1>4. \E y : Moves(p, t, y)
  BY <1>1, <1>3, BeatMoves
<1>5. UNCHANGED cpVars \/ CP!Renew(TokenOf(p, t))
  BY DEF BeatShared, BeatOutage
<1>q. QED
  BY <1>2, <1>4, <1>5 DEF ThreadCall

LEMMA ReportedType ==
    ASSUME NEW o \in CallbackResults
    PROVE  Reported(o) \in {"retry"} \cup TERMINAL_STATES
<1>1. o \in TERMINAL_STATES \cup {"retry", "error", "other"}
  BY ResultsAssumption
<1>2. CASE o = "other"
  BY <1>2 DEF Reported, TERMINAL_STATES
<1>3. CASE o = "error"
  BY <1>3 DEF Reported, TERMINAL_STATES
<1>4. CASE o \notin {"other", "error"}
  BY <1>1, <1>4 DEF Reported
<1>q. QED
  BY <1>2, <1>3, <1>4

LEMMA ExecuteMoves ==
    ASSUME StateTypes, NEW p \in Proc, NEW t \in Thread, Execute(p, t)
    PROVE  (\E y : Moves(p, t, y)) /\ UNCHANGED cpVars
<1>s. PICK s : s = thr[p][t]
  OBVIOUS
<1>0. StateOK(s) /\ s.pc = "exec"
  BY <1>s, StateAt DEF Execute, At
<1>1. CASE SetThread(p, t, [s EXCEPT !.pc = "cleanup"])
  BY <1>0, <1>1, <1>s, LeaveMoves DEF Execute
<1>2. CASE ~SetThread(p, t, [s EXCEPT !.pc = "cleanup"])
  <2>1. PICK c \in {"settle", "record"} : c = IF Shared THEN "settle" ELSE "record"
    OBVIOUS
  <2>2. \/ \E o \in CallbackResults :
              SetThread(p, t, [s EXCEPT !.pc = c, !.out = Reported(o),
                                        !.handler = (o \in {"retry", "error"})])
        \/ SetThread(p, t, [s EXCEPT !.pc = c, !.handler = TRUE, !.out = "cancelled"])
    BY <1>2, <1>s, <2>1 DEF Execute
  <2>3. \E o \in {"retry"} \cup TERMINAL_STATES, h \in BOOLEAN : SetThread(p, t, Reports(s, c, o, h))
    <3>1. CASE SetThread(p, t, [s EXCEPT !.pc = c, !.handler = TRUE, !.out = "cancelled"])
      <4>1. [s EXCEPT !.pc = c, !.handler = TRUE, !.out = "cancelled"] = Reports(s, c, "cancelled", TRUE)
        BY DEF Reports
      <4>2. "cancelled" \in {"retry"} \cup TERMINAL_STATES
        BY DEF TERMINAL_STATES
      <4>q. QED
        BY <3>1, <4>1, <4>2
    <3>2. ASSUME NEW o \in CallbackResults,
                 SetThread(p, t, [s EXCEPT !.pc = c, !.out = Reported(o),
                                           !.handler = (o \in {"retry", "error"})])
          PROVE  \E x \in {"retry"} \cup TERMINAL_STATES, h \in BOOLEAN :
                    SetThread(p, t, Reports(s, c, x, h))
      <4>0. (o \in {"retry", "error"}) \in BOOLEAN
        OBVIOUS
      <4>1. PICK h \in BOOLEAN : h = (o \in {"retry", "error"})
        BY <4>0, Zenon
      <4>2. SetThread(p, t, Reports(s, c, Reported(o), h))
        BY <3>2, <4>1 DEF Reports
      <4>q. QED
        BY <4>2, ReportedType
    <3>q. QED
      BY <2>2, <3>1, <3>2
  <2>4. PICK o \in {"retry"} \cup TERMINAL_STATES, h \in BOOLEAN : SetThread(p, t, Reports(s, c, o, h))
    BY <2>3
  <2>5. PICK z : z = Reports(s, c, o, h)
    OBVIOUS
  <2>6. c = "settle" => Shared
    BY <2>1
  <2>7. StateOK(z) /\ z.pc = c /\ SameWork(s, z)
    BY <1>0, <2>5, <2>6, ReportedState
  <2>8. s.pc \in Tokened /\ ~Leased(z)
    BY <1>0, <2>7 DEF Tokened, Leased
  <2>9. Shared => z.pc # "record"
    BY <2>1, <2>7
  <2>10. ~Shared => Moves(p, t, z)
    BY <2>4, <2>5, <2>7 DEF Moves, SetThread
  <2>11. Shared => \E y : Moves(p, t, y)
    BY <1>s, <2>4, <2>5, <2>7, <2>8, <2>9, MovesOn
  <2>q. QED
    BY <2>10, <2>11 DEF Execute
<1>q. QED
  BY <1>1, <1>2

LEMMA SettleMoves ==
    ASSUME StateTypes, status \in [Run -> CPP!Status], NEW p \in Proc, NEW t \in Thread,
           SettleShared(p, t)
    PROVE  (\E y : Moves(p, t, y)) /\ ThreadCall(p, t)
<1>s. PICK s : s = thr[p][t]
  OBVIOUS
<1>0. StateOK(s) /\ s.pc = "settle" /\ s.run \in Run
  BY <1>s, StateAt DEF SettleShared, At
<1>1. CASE CP!Holds(TokenOf(p, t))
  <2>1. PICK z : z = Placed(s, "record")
    OBVIOUS
  <2>2. SettleCall(p, t) /\ SetThread(p, t, z)
    BY <1>1, <1>s, <2>1 DEF SettleShared, Placed
  <2>3. StateOK(z) /\ z.pc = "record" /\ SameWork(s, z) /\ z.out = s.out /\ z.token = s.token
    BY <1>0, <2>1, RecordingState
  <2>4. Kept(s, z)
    BY <1>0, <2>3 DEF Kept, SameWork, Leased, Tokened
  <2>5. Closing(z) => status'[z.run] = Final(z)
    <3>1. ASSUME Closing(z) PROVE status'[z.run] = Final(z)
      <4>1. ~Retries(s) /\ Final(s) = Final(z) /\ z.run = s.run
        BY <2>3, <3>1 DEF Closing, Retries, Final, SameWork
      <4>2. CP!Transition(TokenOf(p, t), Final(s))
        BY <1>s, <2>2, <4>1 DEF SettleCall
      <4>3. status' = [status EXCEPT ![s.run] = Final(s)]
        BY <1>s, <4>2 DEF CP!Transition, TokenOf
      <4>q. QED
        BY <1>0, <4>1, <4>3
    <3>q. QED
      BY <3>1
  <2>6. Moves(p, t, z)
    BY <1>s, <2>2, <2>3, <2>4, <2>5 DEF Moves, SetThread, Settled
  <2>q. QED
    BY <1>0, <1>s, <2>2, <2>6 DEF ThreadCall
<1>2. CASE ~CP!Holds(TokenOf(p, t))
  <2>1. SetThread(p, t, [s EXCEPT !.pc = "cleanup"]) /\ UNCHANGED cpVars
    BY <1>2, <1>s DEF SettleShared, StaleGivesUp
  <2>2. \E y : Moves(p, t, y)
    BY <1>0, <1>s, <2>1, LeaveMoves
  <2>q. QED
    BY <2>1, <2>2 DEF ThreadCall
<1>q. QED
  BY <1>1, <1>2

LEMMA SettleOutageMoves ==
    ASSUME StateTypes, NEW p \in Proc, NEW t \in Thread, SettleOutage(p, t)
    PROVE  (\E y : Moves(p, t, y)) /\ ThreadCall(p, t)
<1>s. PICK s : s = thr[p][t]
  OBVIOUS
<1>0. StateOK(s) /\ s.pc = "settle"
  BY <1>s, StateAt DEF SettleOutage, At
<1>1. ThreadCall(p, t)
  BY <1>0, <1>s DEF SettleOutage, ThreadCall
<1>2. CASE SetThread(p, t, [s EXCEPT !.pc = "cleanup"])
  BY <1>0, <1>1, <1>2, <1>s, LeaveMoves
<1>3. CASE SetThread(p, t, FailsToSettle(s))
  <2>1. PICK z : z = FailsToSettle(s)
    OBVIOUS
  <2>2. StateOK(z) /\ z.pc = "settle" /\ SameWork(s, z)
    BY <1>0, <2>1, FailedState
  <2>3. s.pc \in Tokened /\ ~Leased(z)
    BY <1>0, <2>2 DEF Tokened, Leased
  <2>q. QED
    BY <1>1, <1>3, <1>s, <2>1, <2>2, <2>3, MovesOn
<1>q. QED
  BY <1>2, <1>3, <1>s DEF SettleOutage, AfterSettleOutage, FailsToSettle

\* The steps after which the thread is done with the run, or goes on to its cleanup.
LEMMA DoneMoves ==
    ASSUME StateTypes, NEW p \in Proc, NEW t \in Thread,
           \/ RequeueLocalClaim(p, t) \/ Record(p, t) \/ Cleanup(p, t) \/ Acknowledge(p, t)
           \/ ReadOutage(p, t) \/ ClaimOutage(p, t) \/ AckOutage(p, t)
    PROVE  (\E y : Moves(p, t, y)) /\ ThreadCall(p, t)
<1>1. thr[p][t].pc # "idle"
  BY DEF RequeueLocalClaim, Record, Cleanup, Acknowledge, ReadOutage, ClaimOutage, AckOutage, At
<1>2. \/ SetThread(p, t, WorkerDone(thr[p][t]))
      \/ SetThread(p, t, [thr[p][t] EXCEPT !.pc = "cleanup"])
      \/ SetThread(p, t, Idle)
  BY DEF RequeueLocalClaim, Record, Cleanup, Acknowledge, ReadOutage, ClaimOutage, AckOutage
<1>3. thr[p][t].run \in Run
  BY <1>1, StateAt
<1>4. ThreadCall(p, t)
  BY <1>3 DEF RequeueLocalClaim, Record, Cleanup, Acknowledge, ReadOutage, ClaimOutage, AckOutage,
     ThreadCall, At
<1>q. QED
  BY <1>1, <1>2, <1>4, LeaveMoves

\* All steps of a thread and of its heartbeat.
WorkerStep(p, t) ==
    \/ ThreadStep(p, t) \/ BeatLocal(p, t) \/ BeatShared(p, t)
    \/ ReadOutage(p, t) \/ ClaimOutage(p, t) \/ SettleOutage(p, t) \/ BeatOutage(p, t)
    \/ AckOutage(p, t)

LEMMA WorkerMoves ==
    ASSUME StateTypes, CPP!TypeOK, NEW p \in Proc, NEW t \in Thread, WorkerStep(p, t)
    PROVE  (\E y : Moves(p, t, y)) /\ ThreadCall(p, t)
<1>1. fence \in [Run -> Nat] /\ status \in [Run -> CPP!Status]
  BY DEF CPP!TypeOK
<1>2. UNCHANGED cpVars => ThreadCall(p, t)
  BY DEF ThreadCall
<1>3. CASE TakeJob(p, t)
  BY <1>2, <1>3, TakeMoves
<1>4. CASE Peek(p, t) \/ Look(p, t) \/ Fetch(p, t) \/ Hydrate(p, t)
  BY <1>1, <1>2, <1>4, MessageMoves
<1>5. CASE ClaimLocal(p, t)
  BY <1>2, <1>5, ClaimLocalMoves
<1>6. CASE ClaimShared(p, t)
  BY <1>1, <1>6, ClaimSharedMoves
<1>7. CASE Listen(p, t)
  BY <1>2, <1>7, ListenMoves
<1>8. CASE Execute(p, t)
  BY <1>2, <1>8, ExecuteMoves
<1>9. CASE SettleShared(p, t)
  BY <1>1, <1>9, SettleMoves
<1>10. CASE BeatLocal(p, t)
  BY <1>2, <1>10, BeatLocalMoves
<1>11. CASE BeatShared(p, t) \/ BeatOutage(p, t)
  BY <1>11, BeatSharedMoves
<1>12. CASE SettleOutage(p, t)
  BY <1>12, SettleOutageMoves
<1>13. CASE \/ RequeueLocalClaim(p, t) \/ Record(p, t) \/ Cleanup(p, t) \/ Acknowledge(p, t)
            \/ ReadOutage(p, t) \/ ClaimOutage(p, t) \/ AckOutage(p, t)
  BY <1>13, DoneMoves
<1>q. QED
  BY <1>3, <1>4, <1>5, <1>6, <1>7, <1>8, <1>9, <1>10, <1>11, <1>12, <1>13 DEF WorkerStep, ThreadStep

-----------------------------------------------------------------------------
(* What each step does to the rows                                         *)

\* The outcomes every process is to agree on.
Decided == CP!ClaimTerminal \ {"cancelled"}

\* The row's outcome is the old one, or a worker's that is closing it.
Attributed(d, r, w) ==
    w.status \in Decided =>
        \/ w.status = row[d][r].status
        \/ \E p \in Proc, t \in Thread : /\ thr[p][t].run = r /\ Closing(thr[p][t])
                                         /\ w.status = Final(thr[p][t])
RowsMove ==
    /\ row' \in [Db -> [Run -> Row]]
    /\ \A d \in Db, r \in Run : Attributed(d, r, row'[d][r])

LEMMA OneRow ==
    ASSUME StateTypes, NEW d \in Db, NEW r \in Run, NEW w \in Row,
           row' = [row EXCEPT ![d][r] = w], Attributed(d, r, w)
    PROVE  RowsMove
<1>1. /\ row' \in [Db -> [Run -> Row]]
      /\ \A e \in Db, x \in Run : row'[e][x] = IF e = d /\ x = r THEN w ELSE row[e][x]
  BY RowPut DEF StateTypes
<1>2. ASSUME NEW e \in Db, NEW x \in Run, ~(e = d /\ x = r) PROVE Attributed(e, x, row'[e][x])
  BY <1>1, <1>2 DEF Attributed
<1>q. QED
  BY <1>1, <1>2 DEF RowsMove

LEMMA SameRows ==
    ASSUME StateTypes, row' = row
    PROVE  RowsMove
  BY DEF StateTypes, RowsMove, Attributed

\* A write that leaves the run undecided, or its status as it was.
LEMMA PlainRow ==
    ASSUME StateTypes, NEW p \in Proc, NEW r \in Run, NEW w \in Row, SetRow(p, r, w),
           \/ w.status \in {"queued", "running", "retrying", "cancelled"}
           \/ w.status = RowOf(p, r).status
    PROVE  RowsMove
<1>1. Attributed(DbOf[p], r, w)
  BY DEF Attributed, RowOf, Decided, CP!ClaimTerminal
<1>q. QED
  BY <1>1, OneRow, DbOfAssumption DEF SetRow

LEMMA QueuedRow ==
    ASSUME NEW k \in Nat
    PROVE  Queued(k) \in Row /\ Queued(k).status = "queued"
  BY DEF Queued, Absent, Row

\* The two writes of a settlement, for any worker and any row.
LEMMA RecordedRow ==
    ASSUME NEW v \in Row, NEW s \in ThreadState, s.out # "none"
    PROVE  /\ RetryWrite(v, s) \in Row /\ RetryWrite(v, s).status = "retrying"
           /\ TerminalWrite(v, s) \in Row
           /\ TerminalWrite(v, s).status \in {v.status, Final(s)}
<1>1. Final(s) \in TERMINAL_STATES
  BY StateFields DEF Final, TERMINAL_STATES
<1>2. PICK f \in TERMINAL_STATES, b \in BOOLEAN : f = Final(s) /\ b = DeadLetter(s)
  BY <1>1 DEF DeadLetter
<1>3. PICK u : u = IF v.token \in {0, s.token} THEN [v EXCEPT !.status = f, !.lease = "none", !.dead = b]
                   ELSE v
  OBVIOUS
<1>4. u \in Row /\ u.status \in {v.status, f}
  BY <1>3 DEF Row
<1>5. TerminalWrite(v, s) = [u EXCEPT !.completed = u.completed + 1]
  BY <1>2, <1>3 DEF TerminalWrite
<1>6. u.completed + 1 \in Nat
  BY <1>4 DEF Row
<1>7. PICK n \in Nat : TerminalWrite(v, s) = [u EXCEPT !.completed = n]
  BY <1>5, <1>6
<1>8. TerminalWrite(v, s) \in Row /\ TerminalWrite(v, s).status = u.status
  BY <1>4, <1>7 DEF Row
<1>9. RetryWrite(v, s) \in Row /\ RetryWrite(v, s).status = "retrying"
  BY DEF RetryWrite, Row
<1>q. QED
  BY <1>2, <1>4, <1>8, <1>9

LEMMA RecordRows ==
    ASSUME StateTypes, NEW p \in Proc, NEW t \in Thread, Record(p, t)
    PROVE  RowsMove
<1>s. PICK s : s = thr[p][t]
  OBVIOUS
<1>1. StateOK(s) /\ s \in ThreadState /\ s.pc = "record" /\ s.run \in Run /\ s.out # "none"
  BY <1>s, StateAt DEF Record, At, StateOK
<1>2. PICK v \in Row : v = RowOf(p, s.run)
  BY <1>1, RowAt
<1>3. CASE Retries(s)
  <2>1. SetRow(p, s.run, RetryWrite(v, s))
    BY <1>2, <1>3, <1>s DEF Record
  <2>q. QED
    BY <1>1, <2>1, RecordedRow, PlainRow
<1>4. CASE ~Retries(s)
  <2>1. SetRow(p, s.run, TerminalWrite(v, s))
    BY <1>2, <1>4, <1>s DEF Record
  <2>2. PICK w \in Row : w = TerminalWrite(v, s) /\ w.status \in {v.status, Final(s)}
    BY <1>1, RecordedRow
  <2>3. w.status \in Decided /\ w.status = Final(s) => Closing(s)
    BY <1>1, <1>4 DEF Closing, Decided
  <2>4. Attributed(DbOf[p], s.run, w)
    BY <1>2, <1>s, <2>2, <2>3 DEF Attributed, RowOf
  <2>q. QED
    BY <1>1, <2>1, <2>2, <2>4, OneRow, DbOfAssumption DEF SetRow
<1>q. QED
  BY <1>3, <1>4

LEMMA WorkerRows ==
    ASSUME StateTypes, NEW p \in Proc, NEW t \in Thread, WorkerStep(p, t)
    PROVE  RowsMove
<1>s. PICK s : s = thr[p][t]
  OBVIOUS
<1>0. StateOK(s) /\ s \in ThreadState /\ (s.pc # "idle" => s.run \in Run)
  BY <1>s, StateAt
<1>1. CASE row' = row
  BY <1>1, SameRows
<1>2. CASE Hydrate(p, t)
  <2>1. s.run \in Run /\ s.token \in Nat
    BY <1>0, <1>2, <1>s, StateFields DEF Hydrate, At
  <2>2. row' = row \/ SetRow(p, s.run, Queued(s.token))
    BY <1>2, <1>s DEF Hydrate
  <2>q. QED
    BY <1>1, <2>1, <2>2, QueuedRow, PlainRow
<1>3. CASE ClaimLocal(p, t)
  <2>1. s.run \in Run
    BY <1>0, <1>3, <1>s DEF ClaimLocal, At
  <2>2. PICK v \in Row : v = RowOf(p, s.run)
    BY <2>1, RowAt
  <2>3. PICK w : w = [v EXCEPT !.status = "running", !.lease = "live",
                               !.attempt = @ + 1, !.token = v.attempt + 1]
    OBVIOUS
  <2>4. row' = row \/ SetRow(p, s.run, w)
    BY <1>3, <1>s, <2>2, <2>3 DEF ClaimLocal
  <2>5. w \in Row /\ w.status = "running"
    <3>1. PICK n \in Nat : n = v.attempt + 1
      BY DEF Row
    <3>2. w = [v EXCEPT !.status = "running", !.lease = "live", !.attempt = n, !.token = n]
      BY <2>3, <3>1
    <3>q. QED
      BY <3>2 DEF Row
  <2>q. QED
    BY <1>1, <2>1, <2>4, <2>5, PlainRow
<1>4. CASE RequeueLocalClaim(p, t)
  <2>1. s.run \in Run
    BY <1>0, <1>4, <1>s DEF RequeueLocalClaim, At
  <2>2. PICK v \in Row : v = RowOf(p, s.run)
    BY <2>1, RowAt
  <2>3. PICK w : w = [v EXCEPT !.status = "queued", !.lease = "none"]
    OBVIOUS
  <2>4. row' = row \/ SetRow(p, s.run, w)
    BY <1>4, <1>s, <2>2, <2>3 DEF RequeueLocalClaim
  <2>5. w \in Row /\ w.status = "queued"
    BY <2>3 DEF Row
  <2>q. QED
    BY <1>1, <2>1, <2>4, <2>5, PlainRow
<1>5. CASE BeatLocal(p, t)
  <2>1. s.run \in Run
    BY <1>0, <1>5, <1>s DEF BeatLocal, Beating
  <2>2. PICK v \in Row : v = RowOf(p, s.run)
    BY <2>1, RowAt
  <2>3. PICK w : w = [v EXCEPT !.lease = "live"]
    OBVIOUS
  <2>4. row' = row \/ SetRow(p, s.run, w)
    BY <1>5, <1>s, <2>2, <2>3 DEF BeatLocal
  <2>5. w \in Row /\ w.status = v.status
    BY <2>3 DEF Row
  <2>q. QED
    BY <1>1, <2>1, <2>2, <2>4, <2>5, PlainRow
<1>6. CASE Record(p, t)
  BY <1>6, RecordRows
<1>q. QED
  BY <1>1, <1>2, <1>3, <1>4, <1>5, <1>6
     DEF WorkerStep, ThreadStep, TakeJob, Peek, Look, Fetch, ClaimShared, Listen, Execute, SettleShared,
         Cleanup, Acknowledge, BeatShared, ReadOutage, ClaimOutage, SettleOutage, BeatOutage, AckOutage

\* The steps that are no worker's.
CalmStep ==
    \/ \E p \in Proc :
        \/ \E r \in Run : \/ SubmitAdmit(p, r) \/ SubmitInsert(p, r) \/ DiscoverReclaim(p, r)
                          \/ ReleaseRetry(p, r) \/ CancelSignal(p, r) \/ CancelRow(p, r)
                          \/ SubmitOutage(p, r)
        \/ DiscoverPoll(p) \/ DiscoverOutage(p)
        \/ Close(p) \/ Crash(p) \/ Exit(p) \/ Restart(p)
    \/ \E d \in Db, r \in Run : LapseLocal(d, r)
    \/ \E r \in Run : LapseShared(r)

LEMMA NextParts == Next <=> CalmStep \/ \E p \in Proc, t \in Thread : WorkerStep(p, t)
  BY DEF Next, CalmStep, WorkerStep, OutageStep

LEMMA RestartRows ==
    ASSUME StateTypes, NEW p \in Proc, Restart(p)
    PROVE  RowsMove /\ pool' \in [Proc -> Seq(Job)]
<1>0. PICK due \in SUBSET Run :
        LET table == [r \in Run |-> Recovered(row[DbOf[p]][r], r \in due)] IN
        /\ row' = [row EXCEPT ![DbOf[p]] = table]
        /\ \E order \in Orders({r \in Run : table[r].status = "queued"}) :
              pool' = [pool EXCEPT ![p] =
                  [i \in DOMAIN order |-> [run |-> order[i], kind |-> "run"]]]
  BY DEF Restart
<1>1. PICK table :
        /\ table = [r \in Run |-> Recovered(row[DbOf[p]][r], r \in due)]
        /\ row' = [row EXCEPT ![DbOf[p]] = table]
        /\ \E order \in Orders({r \in Run : table[r].status = "queued"}) :
              pool' = [pool EXCEPT ![p] =
                  [i \in DOMAIN order |-> [run |-> order[i], kind |-> "run"]]]
  BY <1>0
<1>2. \A x \in Run : row[DbOf[p]][x] \in Row
  BY DbOfAssumption DEF StateTypes
<1>3. ASSUME NEW x \in Run PROVE table[x] \in Row /\ Attributed(DbOf[p], x, table[x])
  <2>1. table[x] = Recovered(row[DbOf[p]][x], x \in due)
    BY <1>1
  <2>2. table[x] \in Row /\ (table[x] = row[DbOf[p]][x] \/ table[x].status = "queued")
    BY <1>2, <2>1, RecoveredRow DEF Requeued
  <2>q. QED
    BY <2>2 DEF Attributed, Decided, CP!ClaimTerminal
<1>4. table \in [Run -> Row]
  BY <1>1, <1>3
<1>5. row' \in [Db -> [Run -> Row]] /\ \A e \in Db : row'[e] = IF e = DbOf[p] THEN table ELSE row[e]
  BY <1>1, <1>4, DbOfAssumption DEF StateTypes
<1>6. RowsMove
  <2>1. ASSUME NEW e \in Db, NEW x \in Run PROVE Attributed(e, x, row'[e][x])
    <3>1. CASE e = DbOf[p]
      BY <1>3, <1>5, <3>1
    <3>2. CASE e # DbOf[p]
      BY <1>5, <3>2 DEF Attributed
    <3>q. QED
      BY <3>1, <3>2
  <2>q. QED
    BY <1>5, <2>1 DEF RowsMove
<1>7. pool' \in [Proc -> Seq(Job)]
  <2>1. PICK S, order : /\ S \in SUBSET Run /\ order \in Orders(S)
                        /\ pool' = [pool EXCEPT ![p] =
                              [i \in DOMAIN order |-> [run |-> order[i], kind |-> "run"]]]
    BY <1>1
  <2>2. Cardinality(S) \in Nat
    BY <2>1, FiniteRuns, FS_Subset, FS_CardinalityType
  <2>3. PICK n \in Nat : order \in [1 .. n -> S]
    BY <2>1, <2>2 DEF Orders
  <2>4. PICK jobs : jobs = [i \in 1 .. n |-> [run |-> order[i], kind |-> "run"]]
    OBVIOUS
  <2>5. jobs \in [1 .. n -> Job]
    BY <2>1, <2>3, <2>4 DEF Job
  <2>6. jobs \in Seq(Job)
    BY <2>5
  <2>7. pool' = [pool EXCEPT ![p] = jobs]
    BY <2>1, <2>3, <2>4
  <2>q. QED
    BY <2>6, <2>7 DEF StateTypes
<1>q. QED
  BY <1>6, <1>7

LEMMA CalmRows ==
    ASSUME StateTypes, CalmStep
    PROVE  RowsMove
<1>1. CASE row' = row
  BY <1>1, SameRows
<1>2. ASSUME NEW p \in Proc, NEW r \in Run, SubmitInsert(p, r) PROVE RowsMove
  <2>1. row' = row \/ SetRow(p, r, Queued(0))
    BY <1>2 DEF SubmitInsert
  <2>q. QED
    BY <1>1, <2>1, QueuedRow, PlainRow
<1>3. ASSUME NEW p \in Proc, NEW r \in Run, ReleaseRetry(p, r) PROVE RowsMove
  <2>1. PICK v \in Row : v = RowOf(p, r)
    BY RowAt
  <2>2. PICK w : w = [v EXCEPT !.status = "queued"]
    OBVIOUS
  <2>3. row' = row \/ SetRow(p, r, w)
    BY <1>3, <2>1, <2>2 DEF ReleaseRetry
  <2>4. w \in Row /\ w.status = "queued"
    BY <2>2 DEF Row
  <2>q. QED
    BY <1>1, <2>3, <2>4, PlainRow
<1>4. ASSUME NEW p \in Proc, NEW r \in Run, CancelRow(p, r) PROVE RowsMove
  <2>1. PICK v \in Row : v = RowOf(p, r)
    BY RowAt
  <2>2. PICK w : w = [v EXCEPT !.status = "cancelled", !.lease = "none"]
    OBVIOUS
  <2>3. row' = row \/ SetRow(p, r, w)
    BY <1>4, <2>1, <2>2 DEF CancelRow
  <2>4. w \in Row /\ w.status = "cancelled"
    BY <2>2 DEF Row, TERMINAL_STATES
  <2>q. QED
    BY <1>1, <2>3, <2>4, PlainRow
<1>5. ASSUME NEW d \in Db, NEW r \in Run, LapseLocal(d, r) PROVE RowsMove
  <2>1. PICK v \in Row : v = row[d][r]
    BY DEF StateTypes
  <2>2. PICK w : w = [v EXCEPT !.lease = "lapsed"]
    OBVIOUS
  <2>3. row' = [row EXCEPT ![d][r] = w]
    BY <1>5, <2>1, <2>2 DEF LapseLocal, StateTypes
  <2>4. w \in Row /\ w.status = v.status
    BY <2>2 DEF Row
  <2>5. Attributed(d, r, w)
    BY <2>1, <2>4 DEF Attributed
  <2>q. QED
    BY <2>3, <2>4, <2>5, OneRow
<1>6. ASSUME NEW p \in Proc, Restart(p) PROVE RowsMove
  BY <1>6, RestartRows
<1>q. QED
  BY <1>1, <1>2, <1>3, <1>4, <1>5, <1>6
     DEF CalmStep, SubmitAdmit, DiscoverReclaim, CancelSignal, SubmitOutage, DiscoverPoll,
         DiscoverOutage, Close, Crash, Exit, Stop, LapseShared

-----------------------------------------------------------------------------
(* What the other steps do to the threads                                  *)

\* A thread that another step touches is told of a cancellation, or ends with its process.
Calm(s, z) ==
    \/ z = Idle
    \/ /\ z.pc = s.pc /\ SameWork(s, z) /\ z.beat = s.beat
       /\ z.out = s.out /\ z.token = s.token
ThreadsCalm ==
    /\ thr' \in [Proc -> [Thread -> ThreadState]]
    /\ \A p \in Proc, t \in Thread : StateOK(thr'[p][t]) /\ Calm(thr[p][t], thr'[p][t])

LEMMA SameThreads ==
    ASSUME StateTypes, thr' = thr
    PROVE  ThreadsCalm
  BY DEF StateTypes, ThreadsCalm, Calm, SameWork

LEMMA SignalThreads ==
    ASSUME StateTypes, NEW p \in Proc, NEW ts, Signal(p, ts)
    PROVE  ThreadsCalm
<1>1. PICK g : g = [t \in Thread |-> IF t \in ts THEN Signalled(thr[p][t]) ELSE thr[p][t]]
  OBVIOUS
<1>2. ASSUME NEW t \in Thread PROVE StateOK(g[t]) /\ Calm(thr[p][t], g[t])
  <2>1. StateOK(thr[p][t])
    BY StateAt
  <2>2. CASE t \in ts
    BY <1>1, <2>1, <2>2, SignalledState DEF Calm
  <2>3. CASE t \notin ts
    BY <1>1, <2>1, <2>3 DEF Calm, SameWork
  <2>q. QED
    BY <2>2, <2>3
<1>3. g \in [Thread -> ThreadState]
  BY <1>1, <1>2 DEF StateOK
<1>4. thr' = [thr EXCEPT ![p] = g]
  BY <1>1 DEF Signal, Signalled
<1>5. /\ thr' \in [Proc -> [Thread -> ThreadState]]
      /\ \A q \in Proc : thr'[q] = IF q = p THEN g ELSE thr[q]
  BY <1>3, <1>4 DEF StateTypes
<1>6. ASSUME NEW q \in Proc, NEW u \in Thread, q # p
      PROVE  StateOK(thr'[q][u]) /\ Calm(thr[q][u], thr'[q][u])
  BY <1>5, <1>6, StateAt DEF Calm, SameWork
<1>q. QED
  BY <1>2, <1>5, <1>6 DEF ThreadsCalm

LEMMA StopThreads ==
    ASSUME StateTypes, NEW p \in Proc, Stop(p)
    PROVE  ThreadsCalm
<1>1. PICK g : g = [t \in Thread |-> Idle]
  OBVIOUS
<1>2. g \in [Thread -> ThreadState] /\ \A t \in Thread : g[t] = Idle
  BY <1>1, IdleState DEF StateOK
<1>3. thr' = [thr EXCEPT ![p] = g]
  BY <1>1 DEF Stop
<1>4. /\ thr' \in [Proc -> [Thread -> ThreadState]]
      /\ \A q \in Proc : thr'[q] = IF q = p THEN g ELSE thr[q]
  BY <1>2, <1>3 DEF StateTypes
<1>5. ASSUME NEW q \in Proc, NEW u \in Thread, q # p
      PROVE  StateOK(thr'[q][u]) /\ Calm(thr[q][u], thr'[q][u])
  BY <1>4, <1>5, StateAt DEF Calm, SameWork
<1>q. QED
  BY <1>2, <1>4, <1>5, IdleState DEF ThreadsCalm, Calm

LEMMA CalmThreads ==
    ASSUME StateTypes, CalmStep
    PROVE  ThreadsCalm
<1>1. ASSUME NEW p \in Proc, Close(p) PROVE ThreadsCalm
  <2>1. PICK ts : ts = UNION {signals[p][r] : r \in Run}
    OBVIOUS
  <2>2. Signal(p, ts)
    BY <1>1, <2>1 DEF Close
  <2>q. QED
    BY <2>2, SignalThreads
<1>2. ASSUME NEW p \in Proc, NEW r \in Run, CancelSignal(p, r) PROVE ThreadsCalm
  <2>1. PICK ts : ts = signals[p][r]
    OBVIOUS
  <2>2. Signal(p, ts)
    BY <1>2, <2>1 DEF CancelSignal
  <2>q. QED
    BY <2>2, SignalThreads
<1>3. ASSUME NEW p \in Proc, Crash(p) \/ Exit(p) PROVE ThreadsCalm
  BY <1>3, StopThreads DEF Crash, Exit
<1>4. ASSUME NEW p \in Proc, NEW r \in Run,
             \/ SubmitAdmit(p, r) \/ SubmitInsert(p, r) \/ DiscoverReclaim(p, r)
             \/ ReleaseRetry(p, r) \/ CancelRow(p, r) \/ SubmitOutage(p, r)
      PROVE  thr' = thr
  BY <1>4 DEF SubmitAdmit, SubmitInsert, DiscoverReclaim, ReleaseRetry, CancelRow, SubmitOutage, procVars
<1>5. ASSUME NEW p \in Proc, DiscoverPoll(p) \/ DiscoverOutage(p) \/ Restart(p)
      PROVE  thr' = thr
  BY <1>5 DEF DiscoverPoll, DiscoverOutage, Restart, procVars
<1>6. ASSUME NEW d \in Db, NEW r \in Run, LapseLocal(d, r) PROVE thr' = thr
  BY <1>6 DEF LapseLocal, procVars
<1>7. ASSUME NEW r \in Run, LapseShared(r) PROVE thr' = thr
  BY <1>7 DEF LapseShared, procVars
<1>q. QED
  BY <1>1, <1>2, <1>3, <1>4, <1>5, <1>6, <1>7, SameThreads DEF CalmStep

-----------------------------------------------------------------------------
(* The jobs, timers, cancel events and submissions of a process            *)

JobTypes ==
    /\ pool \in [Proc -> Seq(Job)]
    /\ timers \in [Proc -> SUBSET Run]
    /\ signals \in [Proc -> [Run -> SUBSET Thread]]
    /\ up \in [Proc -> {"up", "closed", "down"}]
    /\ admitting \in [Proc -> SUBSET Run]

LEMMA SameJobs ==
    ASSUME JobTypes, UNCHANGED <<pool, timers, signals, up, admitting>>
    PROVE  JobTypes'
  BY DEF JobTypes

LEMMA EnqueueJob ==
    ASSUME JobTypes, NEW p \in Proc, NEW r \in Run, NEW k \in {"run", "message"}, Enqueue(p, r, k)
    PROVE  pool' \in [Proc -> Seq(Job)]
<1>1. [run |-> r, kind |-> k] \in Job
  BY DEF Job
<1>2. PICK j \in Job : j = [run |-> r, kind |-> k]
  BY <1>1
<1>q. QED
  BY <1>2 DEF JobTypes, Enqueue

LEMMA WorkerJobs ==
    ASSUME StateTypes, JobTypes, NEW p \in Proc, NEW t \in Thread, WorkerStep(p, t)
    PROVE  JobTypes'
<1>0. thr[p][t].pc # "idle" => thr[p][t].run \in Run
  BY StateAt
<1>1. CASE TakeJob(p, t)
  <2>1. pool[p] \in Seq(Job) /\ pool[p] # <<>>
    BY <1>1 DEF JobTypes, TakeJob
  <2>2. Tail(pool[p]) \in Seq(Job)
    BY <2>1
  <2>3. pool' \in [Proc -> Seq(Job)]
    BY <1>1, <2>2 DEF TakeJob, JobTypes
  <2>q. QED
    BY <1>1, <2>3 DEF TakeJob, JobTypes
<1>2. CASE Listen(p, t)
  <2>1. PICK r \in Run : signals' = [signals EXCEPT ![p][r] = @ \cup {t}]
    BY <1>0, <1>2 DEF Listen, At
  <2>2. signals' \in [Proc -> [Run -> SUBSET Thread]]
    BY <2>1 DEF JobTypes
  <2>q. QED
    BY <1>2, <2>2 DEF Listen, JobTypes
<1>3. CASE Record(p, t)
  <2>1. thr[p][t].run \in Run
    BY <1>0, <1>3 DEF Record, At
  <2>2. timers' = timers \/ \E r \in Run : timers' = [timers EXCEPT ![p] = @ \cup {r}]
    BY <1>3, <2>1 DEF Record
  <2>3. timers' \in [Proc -> SUBSET Run]
    <3>1. CASE timers' = timers
      BY <3>1 DEF JobTypes
    <3>2. ASSUME NEW r \in Run, timers' = [timers EXCEPT ![p] = @ \cup {r}]
          PROVE  timers' \in [Proc -> SUBSET Run]
      BY <3>2 DEF JobTypes
    <3>q. QED
      BY <2>2, <3>1, <3>2
  <2>q. QED
    BY <1>3, <2>3 DEF Record, JobTypes
<1>4. CASE Cleanup(p, t)
  <2>1. PICK r \in Run : signals' = [signals EXCEPT ![p][r] = {}]
    BY <1>0, <1>4 DEF Cleanup, At
  <2>2. signals' \in [Proc -> [Run -> SUBSET Thread]]
    BY <2>1 DEF JobTypes
  <2>q. QED
    BY <1>4, <2>2 DEF Cleanup, JobTypes
<1>5. CASE UNCHANGED othersOfThread
  BY <1>5, SameJobs DEF othersOfThread
<1>6. ASSUME \/ Peek(p, t) \/ Look(p, t) \/ Fetch(p, t) \/ Hydrate(p, t) \/ ClaimLocal(p, t)
             \/ ClaimShared(p, t) \/ RequeueLocalClaim(p, t) \/ Execute(p, t) \/ SettleShared(p, t)
             \/ Acknowledge(p, t)
      PROVE  UNCHANGED othersOfThread
  BY <1>6 DEF Peek, Look, Fetch, Hydrate, ClaimLocal, ClaimShared, RequeueLocalClaim, Execute,
     SettleShared, Acknowledge
<1>7. ASSUME \/ BeatLocal(p, t) \/ BeatShared(p, t) \/ ReadOutage(p, t) \/ ClaimOutage(p, t)
             \/ SettleOutage(p, t) \/ BeatOutage(p, t) \/ AckOutage(p, t)
      PROVE  UNCHANGED othersOfThread
  BY <1>7 DEF BeatLocal, BeatShared, ReadOutage, ClaimOutage, SettleOutage, BeatOutage, AckOutage
<1>q. QED
  BY <1>1, <1>2, <1>3, <1>4, <1>5, <1>6, <1>7 DEF WorkerStep, ThreadStep

LEMMA CalmJobs ==
    ASSUME StateTypes, JobTypes, queue \in Seq(Run), CalmStep
    PROVE  JobTypes'
<1>1. ASSUME NEW p \in Proc, NEW r \in Run, SubmitAdmit(p, r) PROVE JobTypes'
  BY <1>1 DEF SubmitAdmit, JobTypes
<1>2. ASSUME NEW p \in Proc, NEW r \in Run, SubmitInsert(p, r) PROVE JobTypes'
  <2>1. pool' \in [Proc -> Seq(Job)]
    BY <1>2, EnqueueJob DEF SubmitInsert, JobTypes
  <2>q. QED
    BY <1>2, <2>1 DEF SubmitInsert, JobTypes
<1>3. ASSUME NEW p \in Proc, NEW r \in Run, DiscoverReclaim(p, r) PROVE JobTypes'
  <2>1. pool' \in [Proc -> Seq(Job)]
    BY <1>3, EnqueueJob DEF DiscoverReclaim
  <2>q. QED
    BY <1>3, <2>1 DEF DiscoverReclaim, JobTypes
<1>4. ASSUME NEW p \in Proc, NEW r \in Run, ReleaseRetry(p, r) PROVE JobTypes'
  <2>1. pool' \in [Proc -> Seq(Job)]
    BY <1>4, EnqueueJob DEF ReleaseRetry, JobTypes
  <2>q. QED
    BY <1>4, <2>1 DEF ReleaseRetry, JobTypes
<1>5. ASSUME NEW p \in Proc, NEW r \in Run, CancelSignal(p, r) \/ CancelRow(p, r) \/ SubmitOutage(p, r)
      PROVE  JobTypes'
  BY <1>5, SameJobs DEF CancelSignal, CancelRow, SubmitOutage, procVars
<1>6. ASSUME NEW p \in Proc, DiscoverPoll(p) PROVE JobTypes'
  <2>1. queue # <<>> /\ Enqueue(p, Head(queue), "message")
    BY <1>6 DEF DiscoverPoll, CP!Poll
  <2>2. PICK r \in Run : r = Head(queue)
    BY <2>1
  <2>3. pool' \in [Proc -> Seq(Job)]
    BY <2>1, <2>2, EnqueueJob
  <2>q. QED
    BY <1>6, <2>3 DEF DiscoverPoll, JobTypes
<1>7. ASSUME NEW p \in Proc, Close(p) PROVE JobTypes'
  BY <1>7 DEF Close, JobTypes
<1>8. ASSUME NEW p \in Proc, Crash(p) \/ Exit(p) PROVE JobTypes'
  <2>1. [r \in Run |-> {}] \in [Run -> SUBSET Thread]
    OBVIOUS
  <2>2. Stop(p)
    BY <1>8 DEF Crash, Exit
  <2>3. signals' \in [Proc -> [Run -> SUBSET Thread]]
    BY <2>1, <2>2 DEF Stop, JobTypes
  <2>4. up' \in [Proc -> {"up", "closed", "down"}] /\ pool' \in [Proc -> Seq(Job)]
    BY <2>2 DEF Stop, JobTypes
  <2>5. timers' \in [Proc -> SUBSET Run] /\ admitting' \in [Proc -> SUBSET Run]
    BY <2>2 DEF Stop, JobTypes
  <2>q. QED
    BY <2>3, <2>4, <2>5 DEF JobTypes
<1>9. ASSUME NEW p \in Proc, Restart(p) PROVE JobTypes'
  <2>1. pool' \in [Proc -> Seq(Job)]
    BY <1>9, RestartRows
  <2>q. QED
    BY <1>9, <2>1 DEF Restart, JobTypes
<1>10. ASSUME NEW d \in Db, NEW r \in Run, LapseLocal(d, r) PROVE JobTypes'
  BY <1>10, SameJobs DEF LapseLocal, procVars
<1>11. ASSUME NEW r \in Run, LapseShared(r) PROVE JobTypes'
  BY <1>11, SameJobs DEF LapseShared, procVars
<1>12. ASSUME NEW p \in Proc, DiscoverOutage(p) PROVE JobTypes'
  BY <1>12, SameJobs DEF DiscoverOutage, procVars
<1>q. QED
  BY <1>1, <1>2, <1>3, <1>4, <1>5, <1>6, <1>7, <1>8, <1>9, <1>10, <1>11, <1>12 DEF CalmStep

-----------------------------------------------------------------------------
(* The shape of a step: one worker moves and makes one call, or every      *)
(* thread keeps its place and one call is made on nobody's token           *)

\* The calls that carry no token.
CalmCall ==
    \/ UNCHANGED cpVars
    \/ \E r \in Run : CP!Admit(r, Request)
    \/ \E p \in Proc : CP!Poll(p)
    \/ \E p \in Proc, r \in Run : CP!Reclaim(p, r)
    \/ \E r \in Run : LapseShared(r)

LEMMA CalmCalls ==
    ASSUME CalmStep
    PROVE  CalmCall
<1>1. ASSUME NEW p \in Proc, NEW r \in Run, SubmitAdmit(p, r) \/ SubmitOutage(p, r)
      PROVE  CP!Admit(r, Request)
  BY <1>1 DEF SubmitAdmit, SubmitOutage
<1>2. ASSUME NEW p \in Proc, NEW r \in Run, DiscoverReclaim(p, r) PROVE CP!Reclaim(p, r)
  BY <1>2 DEF DiscoverReclaim
<1>3. ASSUME NEW p \in Proc, DiscoverPoll(p) PROVE CP!Poll(p)
  BY <1>3 DEF DiscoverPoll
<1>4. ASSUME NEW p \in Proc, NEW r \in Run,
             SubmitInsert(p, r) \/ ReleaseRetry(p, r) \/ CancelSignal(p, r) \/ CancelRow(p, r)
      PROVE  UNCHANGED cpVars
  BY <1>4 DEF SubmitInsert, ReleaseRetry, CancelSignal, CancelRow
<1>5. ASSUME NEW p \in Proc, Close(p) \/ Crash(p) \/ Exit(p) \/ Restart(p) PROVE UNCHANGED cpVars
  BY <1>5 DEF Close, Crash, Exit, Stop, Restart
<1>6. ASSUME NEW d \in Db, NEW r \in Run, LapseLocal(d, r) PROVE UNCHANGED cpVars
  BY <1>6 DEF LapseLocal
<1>7. ASSUME NEW p \in Proc, DiscoverOutage(p)
      PROVE  CP!Poll(p) \/ \E r \in Run : CP!Reclaim(p, r)
  BY <1>7 DEF DiscoverOutage
<1>q. QED
  BY <1>1, <1>2, <1>3, <1>4, <1>5, <1>6, <1>7 DEF CalmStep, CalmCall

LEMMA StepShape ==
    ASSUME StateTypes, CPP!TypeOK, Next
    PROVE  /\ RowsMove
           /\ \/ ThreadsCalm /\ CalmCall
              \/ \E p \in Proc, t \in Thread : (\E z : Moves(p, t, z)) /\ ThreadCall(p, t)
<1>1. CASE CalmStep
  BY <1>1, CalmRows, CalmThreads, CalmCalls
<1>2. ASSUME NEW p \in Proc, NEW t \in Thread, WorkerStep(p, t)
      PROVE  RowsMove /\ (\E z : Moves(p, t, z)) /\ ThreadCall(p, t)
  BY <1>2, WorkerRows, WorkerMoves
<1>q. QED
  BY <1>1, <1>2, NextParts

LEMMA MovedThreads ==
    ASSUME StateTypes, NEW p \in Proc, NEW t \in Thread, NEW z, Moves(p, t, z)
    PROVE  /\ thr' \in [Proc -> [Thread -> ThreadState]]
           /\ \A q \in Proc, u \in Thread : thr'[q][u] = IF q = p /\ u = t THEN z ELSE thr[q][u]
           /\ \A q \in Proc, u \in Thread : StateOK(thr'[q][u])
<1>1. z \in ThreadState /\ StateOK(z) /\ thr' = [thr EXCEPT ![p][t] = z]
  BY DEF Moves, StateOK
<1>2. thr \in [Proc -> [Thread -> ThreadState]]
  BY DEF StateTypes
<1>3. /\ thr' \in [Proc -> [Thread -> ThreadState]]
      /\ \A q \in Proc, u \in Thread : thr'[q][u] = IF q = p /\ u = t THEN z ELSE thr[q][u]
  BY <1>1, <1>2
<1>q. QED
  BY <1>1, <1>3, StateAt

LEMMA StateStep ==
    ASSUME StateTypes, CPP!TypeOK, [Next]_vars
    PROVE  StateTypes'
<1>1. CASE UNCHANGED vars
  BY <1>1 DEF StateTypes, StateOK, vars, procVars
<1>2. CASE Next
  <2>1. JobTypes /\ queue \in Seq(Run)
    BY DEF StateTypes, JobTypes, CPP!TypeOK
  <2>2. JobTypes'
    BY <1>2, <2>1, WorkerJobs, CalmJobs, NextParts
  <2>3. row' \in [Db -> [Run -> Row]]
    BY <1>2, StepShape DEF RowsMove
  <2>4. /\ thr' \in [Proc -> [Thread -> ThreadState]]
        /\ \A q \in Proc, u \in Thread : StateOK(thr'[q][u])
    BY <1>2, StepShape, MovedThreads DEF ThreadsCalm
  <2>q. QED
    BY <2>2, <2>3, <2>4 DEF StateTypes, JobTypes, StateOK
<1>q. QED
  BY <1>1, <1>2

-----------------------------------------------------------------------------
(* The scheduler is a client of the control plane                          *)

LEMMA ControlPlaneNext == CPP!Next <=> CP!Next
  BY ScriptsAre DEF CPP!Next, CP!Next

\* The outcome of a settlement that is no retry is one the control plane knows.
LEMMA FinalOutcome ==
    ASSUME NEW s, StateOK(s), s.pc \in {"settle", "record"}
    PROVE  Final(s) \in TERMINAL_STATES
  BY StateFields DEF StateOK, Final, TERMINAL_STATES

LEMMA ThreadCallStep ==
    ASSUME StateTypes, TokensIssued, NEW p \in Proc, NEW t \in Thread, ThreadCall(p, t)
    PROVE  [CPP!Next]_(CPP!vars)
<1>s. PICK s : s = thr[p][t]
  OBVIOUS
<1>0. StateOK(s) /\ (s.pc # "idle" => s.run \in Run)
  BY <1>s, StateAt
<1>1. CASE UNCHANGED cpVars
  BY <1>1 DEF cpVars, CPP!vars
<1>2. CASE s.pc = "share" /\ CP!Claim(s.run, p)
  <2>1. PICK r \in Run : r = s.run
    BY <1>0, <1>2
  <2>2. CPP!Claim(r, p)
    BY <1>2, <2>1, ScriptsAre
  <2>q. QED
    BY <2>2 DEF CPP!Next
<1>3. CASE s.pc \in Tokened /\ Shared /\ CP!Renew(TokenOf(p, t))
  <2>1. TokenOf(p, t) \in issued /\ CPP!Renew(TokenOf(p, t))
    BY <1>3, <1>s, ScriptsAre DEF TokensIssued
  <2>q. QED
    BY <2>1 DEF CPP!Next
<1>4. CASE s.pc = "settle" /\ SettleCall(p, t)
  <2>1. TokenOf(p, t) \in issued
    BY <1>0, <1>4, <1>s DEF TokensIssued, StateOK, Tokened
  <2>2. PICK k \in issued : k = TokenOf(p, t)
    BY <2>1
  <2>3. CASE CP!ScheduleRetry(TokenOf(p, t))
    <3>1. CPP!ScheduleRetry(k)
      BY <2>2, <2>3, ScriptsAre
    <3>q. QED
      BY <3>1 DEF CPP!Next
  <2>4. CASE CP!Transition(TokenOf(p, t), Final(s))
    <3>1. PICK o \in TERMINAL_STATES : o = Final(s)
      BY <1>0, <1>4, FinalOutcome
    <3>2. CPP!Transition(k, o)
      BY <2>2, <2>4, <3>1, ScriptsAre
    <3>q. QED
      BY <3>2 DEF CPP!Next
  <2>q. QED
    BY <1>4, <1>s, <2>3, <2>4 DEF SettleCall
<1>5. CASE s.run \in Run /\ CP!Ack(s.run)
  <2>1. PICK r \in Run : r = s.run
    BY <1>5
  <2>2. CPP!Ack(r)
    BY <1>5, <2>1, ScriptsAre
  <2>q. QED
    BY <2>2 DEF CPP!Next
<1>q. QED
  BY <1>1, <1>2, <1>3, <1>4, <1>5, <1>s DEF ThreadCall

LEMMA CalmCallStep ==
    ASSUME CalmCall
    PROVE  [CPP!Next]_(CPP!vars)
<1>1. CASE UNCHANGED cpVars
  BY <1>1 DEF cpVars, CPP!vars
<1>2. ASSUME NEW r \in Run, CP!Admit(r, Request) PROVE CPP!Next
  BY <1>2, ScriptsAre DEF CPP!Next
<1>3. ASSUME NEW p \in Proc, CP!Poll(p) PROVE CPP!Next
  BY <1>3, ScriptsAre DEF CPP!Next
<1>4. ASSUME NEW p \in Proc, NEW r \in Run, CP!Reclaim(p, r) PROVE CPP!Next
  BY <1>4, ScriptsAre DEF CPP!Next
<1>5. ASSUME NEW r \in Run, LapseShared(r) PROVE CPP!Next
  BY <1>5, ScriptsAre DEF CPP!Next, LapseShared
<1>q. QED
  BY <1>1, <1>2, <1>3, <1>4, <1>5 DEF CalmCall

LEMMA ClientStep ==
    ASSUME ClientInv, [Next]_vars
    PROVE  [CPP!Next]_(CPP!vars)
<1>1. CASE UNCHANGED vars
  BY <1>1 DEF vars, cpVars, CPP!vars
<1>2. CASE Next
  <2>1. StateTypes /\ TokensIssued /\ CPP!TypeOK
    BY DEF ClientInv, CPP!FencingInv
  <2>2. \/ CalmCall
        \/ \E p \in Proc, t \in Thread : ThreadCall(p, t)
    BY <1>2, <2>1, StepShape
  <2>q. QED
    BY <2>1, <2>2, CalmCallStep, ThreadCallStep
<1>q. QED
  BY <1>1, <1>2

\* No token is taken back.
LEMMA IssuedGrows ==
    ASSUME [CPP!Next]_(CPP!vars)
    PROVE  issued \subseteq issued'
  BY DEF CPP!Next, CPP!vars, CPP!Admit, CPP!Claim, CPP!Renew, CPP!Transition, CPP!ScheduleRetry,
     CPP!Lapse, CPP!Poll, CPP!Reclaim, CPP!Ack, CPP!leaseVars

-----------------------------------------------------------------------------
(* Tokens                                                                  *)

\* What a step does to one thread, whether it is the one that moves or not.
Grants(q, u) == Granted(q, thr[q][u], thr'[q][u])
Follows(q, u) ==
    /\ thr'[q][u].pc \in Tokened => Kept(thr[q][u], thr'[q][u]) \/ Grants(q, u)
    /\ Closing(thr'[q][u]) => Settled(thr[q][u], thr'[q][u])

LEMMA CalmFollows ==
    ASSUME NEW q \in Proc, NEW u \in Thread, Calm(thr[q][u], thr'[q][u])
    PROVE  Follows(q, u) /\ ~Grants(q, u)
<1>s. PICK s, z : s = thr[q][u] /\ z = thr'[q][u]
  OBVIOUS
<1>1. CASE z = Idle
  BY <1>1, <1>s, IdleState DEF Follows, Grants, Granted, Tokened, Closing
<1>2. CASE z.pc = s.pc /\ SameWork(s, z) /\ z.beat = s.beat /\ z.out = s.out /\ z.token = s.token
  <2>1. Closing(z) => Closing(s) /\ Final(z) = Final(s) /\ z.run = s.run
    BY <1>2 DEF Closing, Retries, Final, SameWork
  <2>2. z.pc \in Tokened => Kept(s, z)
    BY <1>2 DEF Kept, SameWork, Leased
  <2>3. ~Granted(q, s, z)
    BY <1>2 DEF Granted
  <2>q. QED
    BY <1>s, <2>1, <2>2, <2>3 DEF Follows, Grants, Settled
<1>q. QED
  BY <1>1, <1>2, <1>s DEF Calm

LEMMA ThreadsFollow ==
    ASSUME Shared, StateTypes, CPP!TypeOK, [Next]_vars
    PROVE  /\ \A q \in Proc, u \in Thread : Follows(q, u)
           /\ \A p, q \in Proc, t, u \in Thread : Grants(p, t) /\ Grants(q, u) => p = q /\ t = u
<1>1. ASSUME NEW q \in Proc, NEW u \in Thread, thr'[q][u] = thr[q][u] PROVE Calm(thr[q][u], thr'[q][u])
  BY <1>1 DEF Calm, SameWork
<1>2. CASE \A q \in Proc, u \in Thread : Calm(thr[q][u], thr'[q][u])
  BY <1>2, CalmFollows
<1>3. ASSUME NEW p \in Proc, NEW t \in Thread, NEW z, Moves(p, t, z)
      PROVE  /\ \A q \in Proc, u \in Thread : Follows(q, u)
             /\ \A q \in Proc, u \in Thread : Grants(q, u) => p = q /\ t = u
  <2>1. \A q \in Proc, u \in Thread : thr'[q][u] = IF q = p /\ u = t THEN z ELSE thr[q][u]
    BY <1>3, MovedThreads
  <2>2. Follows(p, t)
    BY <1>3, <2>1 DEF Moves, Follows, Grants
  <2>3. ASSUME NEW q \in Proc, NEW u \in Thread, ~(q = p /\ u = t)
        PROVE  Follows(q, u) /\ ~Grants(q, u)
    BY <1>1, <2>1, <2>3, CalmFollows
  <2>q. QED
    BY <2>2, <2>3
<1>4. CASE UNCHANGED vars
  BY <1>1, <1>2, <1>4 DEF vars, procVars
<1>5. CASE Next
  <2>1. CASE ThreadsCalm
    BY <1>2, <2>1 DEF ThreadsCalm
  <2>2. CASE \E p \in Proc, t \in Thread : \E z : Moves(p, t, z)
    <3>1. PICK p \in Proc, t \in Thread : \E z : Moves(p, t, z)
      BY <2>2
    <3>2. PICK z : Moves(p, t, z)
      BY <3>1
    <3>q. QED
      BY <1>3, <3>2
  <2>q. QED
    BY <1>5, <2>1, <2>2, StepShape
<1>q. QED
  BY <1>4, <1>5

LEMMA TokensStep ==
    ASSUME ClientInv, [Next]_vars
    PROVE  TokensIssued'
<1>1. issued \subseteq issued'
  BY ClientStep, IssuedGrows
<1>2. ASSUME Shared, NEW q \in Proc, NEW u \in Thread, thr'[q][u].pc \in Tokened
      PROVE  [key |-> thr'[q][u].run, owner |-> q, fence |-> thr'[q][u].fence] \in issued'
  <2>s. PICK s, z : s = thr[q][u] /\ z = thr'[q][u]
    OBVIOUS
  <2>0. Kept(s, z) \/ Granted(q, s, z)
    BY <1>2, <2>s, ThreadsFollow DEF Follows, Grants, ClientInv, CPP!FencingInv
  <2>1. CASE Kept(s, z)
    <3>1. [key |-> s.run, owner |-> q, fence |-> s.fence] \in issued
      BY <1>2, <2>1, <2>s DEF Kept, ClientInv, TokensIssued, TokenOf
    <3>q. QED
      BY <1>1, <2>1, <2>s, <3>1 DEF Kept
  <2>2. CASE Granted(q, s, z)
    BY <2>2, <2>s DEF Granted, CP!Claim, CP!Grant, CP!NextFence
  <2>q. QED
    BY <2>0, <2>1, <2>2
<1>q. QED
  BY <1>2 DEF TokensIssued, TokenOf

LEMMA ClientInit == Init => ClientInv
<1> SUFFICES ASSUME Init PROVE ClientInv
  OBVIOUS
<1>1. CPP!Init
  BY DEF Init, CP!Init, CPP!Init
<1>2. CPP!FencingInv
  BY <1>1, ControlPlaneConstants, CPP!FencingInit
<1>3. \A p \in Proc, t \in Thread : thr[p][t] = Idle
  BY DEF Init
<1>4. \A p \in Proc, t \in Thread : StateOK(thr[p][t])
  BY <1>3, IdleState
<1>5. TokensIssued
  BY <1>3, IdleState DEF TokensIssued, Tokened
<1>6. row \in [Db -> [Run -> Row]]
  <2>1. Absent \in Row
    BY DEF Absent, Row
  <2>q. QED
    BY <2>1 DEF Init
<1>7. thr \in [Proc -> [Thread -> ThreadState]]
  BY IdleState DEF Init, StateOK
<1>8. JobTypes
  BY DEF Init, JobTypes
<1>q. QED
  BY <1>2, <1>4, <1>5, <1>6, <1>7, <1>8 DEF ClientInv, StateTypes, JobTypes

LEMMA ClientInvStep == ClientInv /\ [Next]_vars => ClientInv'
<1> SUFFICES ASSUME ClientInv, [Next]_vars PROVE ClientInv'
  OBVIOUS
<1>1. CPP!FencingInv'
  BY ClientStep, ControlPlaneConstants, CPP!FencingStep DEF ClientInv
<1>2. StateTypes'
  BY StateStep DEF ClientInv, CPP!FencingInv
<1>q. QED
  BY <1>1, <1>2, TokensStep DEF ClientInv

\* The inductive invariant of the scheduler over the control plane: the fencing
\* invariant of the scripts, the states of the threads, and a token that was issued in
\* the hands of every worker past _claim_shared.
THEOREM ClientHolds == Spec => []ClientInv
  BY ClientInit, ClientInvStep, PTL DEF Spec

\* The type invariant, with and without a control plane.
THEOREM TypeCorrect == Spec => []TypeOK
<1>1. ASSUME ClientInv PROVE TypeOK
  <2>1. StateTypes
    BY <1>1 DEF ClientInv
  <2>2. \A p \in Proc : \A i \in DOMAIN pool[p] : pool[p][i] \in Job
    BY <2>1 DEF StateTypes
  <2>3. \A p \in Proc, t \in Thread : (thr[p][t].pc = "idle") <=> (thr[p][t].run = NoRun)
    BY <2>1, StateAt DEF StateOK
  <2>q. QED
    BY <2>1, <2>2, <2>3 DEF StateTypes, TypeOK
<1>q. QED
  BY <1>1, ClientHolds, PTL

\* Whatever the processes, their threads, crashes and outages do to it, the control
\* plane sees a client of its own specification: calls on tokens it issued, with
\* outcomes it knows.
THEOREM ControlPlaneUsed == Spec => CP!Spec
<1>1. Init => CP!Init
  BY DEF Init
<1>2. ClientInv /\ [Next]_vars => [CP!Next]_(CP!vars)
  BY ClientStep, ControlPlaneNext DEF CP!vars, CPP!vars
<1>q. QED
  BY <1>1, <1>2, ClientHolds, PTL DEF Spec, CP!Spec

-----------------------------------------------------------------------------
(* One worker can settle a run                                             *)

\* Two workers of a run, in any process, carry different fences.
FencesApart ==
    \A p, q \in Proc, t, u \in Thread :
        /\ thr[p][t].pc \in Tokened /\ thr[q][u].pc \in Tokened
        /\ thr[p][t].run = thr[q][u].run /\ thr[p][t].fence = thr[q][u].fence
        => p = q /\ t = u

\* A fence just granted is above every fence carried before.
LEMMA FreshFence ==
    ASSUME Shared, ClientInv, NEW p \in Proc, NEW t \in Thread, NEW q \in Proc, NEW u \in Thread,
           Grants(p, t), Kept(thr[q][u], thr'[q][u]), thr'[p][t].run = thr'[q][u].run
    PROVE  thr'[p][t].fence # thr'[q][u].fence
<1>s. PICK r, f : r = thr[q][u].run /\ f = thr[q][u].fence
  OBVIOUS
<1>1. thr[q][u].pc \in Tokened /\ thr'[q][u].run = r /\ thr'[q][u].fence = f
  BY <1>s DEF Kept
<1>2. r \in Run /\ f \in Nat
  <2>1. StateOK(thr[q][u]) /\ thr[q][u].pc # "idle"
    BY <1>1, StateAt DEF ClientInv, Tokened
  <2>q. QED
    BY <1>s, <2>1, StateAt, StateFields DEF ClientInv
<1>3. PICK k \in issued : k = [key |-> r, owner |-> q, fence |-> f]
  BY <1>1, <1>s DEF ClientInv, TokensIssued, TokenOf
<1>4. k.key = r /\ k.fence = f
  BY <1>3
<1>5. f <= fence[r]
  BY <1>3, <1>4 DEF ClientInv, CPP!FencingInv, CPP!TokensBehindCounter
<1>6. fence[r] \in Nat
  BY <1>2 DEF ClientInv, CPP!FencingInv, CPP!TypeOK
<1>7. thr'[p][t].fence = fence[r] + 1
  BY <1>1 DEF Grants, Granted
<1>q. QED
  BY <1>1, <1>2, <1>5, <1>6, <1>7

LEMMA ApartStep ==
    ASSUME Shared, ClientInv, FencesApart, [Next]_vars
    PROVE  FencesApart'
<1>0. /\ \A q \in Proc, u \in Thread : Follows(q, u)
      /\ \A p, q \in Proc, t, u \in Thread : Grants(p, t) /\ Grants(q, u) => p = q /\ t = u
  BY ThreadsFollow DEF ClientInv, CPP!FencingInv
<1>1. ASSUME NEW p \in Proc, NEW q \in Proc, NEW t \in Thread, NEW u \in Thread,
             thr'[p][t].pc \in Tokened, thr'[q][u].pc \in Tokened,
             thr'[p][t].run = thr'[q][u].run, thr'[p][t].fence = thr'[q][u].fence
      PROVE  p = q /\ t = u
  <2>1. /\ Kept(thr[p][t], thr'[p][t]) \/ Grants(p, t)
        /\ Kept(thr[q][u], thr'[q][u]) \/ Grants(q, u)
    BY <1>0, <1>1 DEF Follows
  <2>2. CASE Kept(thr[p][t], thr'[p][t]) /\ Kept(thr[q][u], thr'[q][u])
    <3>1. /\ thr[p][t].pc \in Tokened /\ thr[q][u].pc \in Tokened
          /\ thr[p][t].run = thr[q][u].run /\ thr[p][t].fence = thr[q][u].fence
      BY <1>1, <2>2 DEF Kept
    <3>q. QED
      BY <3>1 DEF FencesApart
  <2>3. CASE Grants(p, t) /\ Grants(q, u)
    BY <1>0, <2>3
  <2>q. QED
    BY <1>1, <2>1, <2>2, <2>3, FreshFence
<1>q. QED
  BY <1>1 DEF FencesApart

\* Of all the workers that believe they run a job, whatever leases lapsed and whoever
\* took over, the scripts accept the token of one: only one can renew, retry or settle.
OneAccepted ==
    \A p, q \in Proc, t, u \in Thread :
        /\ thr[p][t].pc \in Tokened /\ thr[q][u].pc \in Tokened /\ thr[p][t].run = thr[q][u].run
        /\ CP!Holds(TokenOf(p, t)) /\ CP!Holds(TokenOf(q, u))
        => p = q /\ t = u

LEMMA ApartInit == Init => FencesApart
<1> SUFFICES ASSUME Init PROVE FencesApart
  OBVIOUS
<1>1. \A p \in Proc, t \in Thread : thr[p][t] = Idle
  BY DEF Init
<1>q. QED
  BY <1>1, IdleState DEF FencesApart, Tokened

\* No two workers of a run, in any process, carry the same fencing token, however many
\* of them a lapsed lease has left behind.
THEOREM ApartHolds == ASSUME Shared PROVE Spec => []FencesApart
<1>1. ClientInv /\ FencesApart /\ [Next]_vars => FencesApart'
  BY ApartStep
<1>q. QED
  BY <1>1, ApartInit, ClientHolds, PTL DEF Spec

\* Of all the workers that run a job at once the scripts listen to one: only one can
\* renew, schedule a retry or settle, even where leases lapse under a live worker.
THEOREM OneSettler == ASSUME Shared PROVE Spec => []OneAccepted
<1>1. FencesApart => OneAccepted
  BY DEF FencesApart, OneAccepted, CP!Holds, TokenOf
<1>q. QED
  BY <1>1, ApartHolds, PTL

-----------------------------------------------------------------------------
(* The outcome a process records is the one the control plane has          *)

\* A worker that is about to record a final outcome settled it first.
ClosedShared ==
    \A p \in Proc, t \in Thread :
        Closing(thr[p][t]) => status[thr[p][t].run] = Final(thr[p][t])

LEMMA ClosingRun ==
    ASSUME StateTypes, NEW p \in Proc, NEW t \in Thread, Closing(thr[p][t])
    PROVE  thr[p][t].run \in Run /\ Final(thr[p][t]) \in CP!ClaimTerminal
<1>1. thr[p][t].pc # "idle"
  BY DEF Closing
<1>q. QED
  BY <1>1, StateAt DEF Closing

\* What is final for the control plane stays so.
LEMMA StatusFrozen ==
    ASSUME ClientInv, [Next]_vars, NEW r \in Run, status[r] \in CP!ClaimTerminal
    PROVE  status'[r] = status[r]
<1>1. CPP!Frozen
  BY ClientStep, ControlPlaneConstants, CPP!FrozenStep DEF ClientInv
<1>q. QED
  BY <1>1 DEF CPP!Frozen, CPP!ClaimTerminal, CP!ClaimTerminal

LEMMA ClosedStep ==
    ASSUME Shared, ClientInv, ClosedShared, [Next]_vars
    PROVE  ClosedShared'
<1>1. ASSUME NEW q \in Proc, NEW u \in Thread, Closing(thr'[q][u])
      PROVE  status'[thr'[q][u].run] = Final(thr'[q][u])
  <2>s. PICK s, z : s = thr[q][u] /\ z = thr'[q][u]
    OBVIOUS
  <2>1. Settled(s, z)
    BY <1>1, <2>s, ThreadsFollow DEF Follows, ClientInv, CPP!FencingInv
  <2>2. CASE Closing(s) /\ Final(z) = Final(s) /\ z.run = s.run
    <3>1. s.run \in Run /\ Final(s) \in CP!ClaimTerminal
      BY <2>2, <2>s, ClosingRun DEF ClientInv
    <3>2. status[s.run] = Final(s)
      BY <2>2, <2>s DEF ClosedShared
    <3>3. status'[s.run] = status[s.run]
      BY <3>1, <3>2, StatusFrozen
    <3>q. QED
      BY <2>2, <2>s, <3>2, <3>3
  <2>q. QED
    BY <2>1, <2>2, <2>s DEF Settled
<1>q. QED
  BY <1>1 DEF ClosedShared, Closing, Final, Retries

LEMMA AgreeStep ==
    ASSUME ClientInv, ClosedShared, LocalAgreesWithShared, [Next]_vars
    PROVE  LocalAgreesWithShared'
<1>1. RowsMove
  BY StepShape, SameRows DEF ClientInv, CPP!FencingInv, vars
<1>2. ASSUME NEW d \in Db, NEW r \in Run, row'[d][r].status \in Decided
      PROVE  status'[r] = row'[d][r].status
  <2>0. row'[d][r].status \in CP!ClaimTerminal
    BY <1>2 DEF Decided
  <2>1. CASE row'[d][r].status = row[d][r].status
    <3>1. status[r] = row'[d][r].status
      BY <1>2, <2>1 DEF LocalAgreesWithShared, Decided
    <3>q. QED
      BY <2>0, <3>1, StatusFrozen
  <2>2. ASSUME NEW p \in Proc, NEW t \in Thread, thr[p][t].run = r, Closing(thr[p][t]),
               row'[d][r].status = Final(thr[p][t])
        PROVE  status'[r] = row'[d][r].status
    <3>1. status[r] = row'[d][r].status
      BY <2>2 DEF ClosedShared
    <3>q. QED
      BY <2>0, <3>1, StatusFrozen
  <2>q. QED
    BY <1>1, <1>2, <2>1, <2>2 DEF RowsMove, Attributed
<1>q. QED
  BY <1>2 DEF LocalAgreesWithShared, Decided, CP!ClaimTerminal

LEMMA AgreeInit == Init => ClosedShared /\ LocalAgreesWithShared
<1> SUFFICES ASSUME Init PROVE ClosedShared /\ LocalAgreesWithShared
  OBVIOUS
<1>1. \A p \in Proc, t \in Thread : thr[p][t] = Idle
  BY DEF Init
<1>2. ClosedShared
  BY <1>1, IdleState DEF ClosedShared, Closing
<1>3. \A d \in Db, r \in Run : row[d][r].status = "absent"
  BY DEF Init, Absent
<1>4. LocalAgreesWithShared
  BY <1>3 DEF LocalAgreesWithShared, CP!ClaimTerminal
<1>q. QED
  BY <1>2, <1>4

\* With a control plane, a final outcome in a process's own database is the one every
\* other process reads from the control plane: _set_terminal writes the row only after
\* the fenced transition was accepted, and nothing changes either afterwards.
THEOREM OutcomesAgree == ASSUME Shared PROVE Spec => []LocalAgreesWithShared
<1>1. ClientInv /\ ClosedShared /\ [Next]_vars => ClosedShared'
  BY ClosedStep
<1>2. ClientInv /\ ClosedShared /\ LocalAgreesWithShared /\ [Next]_vars => LocalAgreesWithShared'
  BY AgreeStep
<1>q. QED
  BY <1>1, <1>2, AgreeInit, ClientHolds, PTL DEF Spec

-----------------------------------------------------------------------------
(* One executor across the hosts, while heartbeats keep the leases         *)

\* The lease of a run in the hands of the worker that executes it.
HeldBy(p, s) ==
    /\ owner[s.run] = p /\ fence[s.run] = s.fence
    /\ status[s.run] = "running" /\ lease[s.run] = "live"
LeaseHeld == \A p \in Proc, t \in Thread : Leased(thr[p][t]) => HeldBy(p, thr[p][t])

\* A step that leaves a live lease of r alone.
LeaseKept(r) ==
    /\ owner'[r] = owner[r] /\ fence'[r] = fence[r] /\ status'[r] = status[r]
    /\ lease'[r] = lease[r]

LEMMA LeasedAt ==
    ASSUME ClientInv, LeaseHeld, NEW p \in Proc, NEW t \in Thread, Leased(thr[p][t])
    PROVE  /\ thr[p][t].pc \in Tokened /\ thr[p][t].run \in Run /\ HeldBy(p, thr[p][t])
           /\ thr[p][t].pc # "settle" /\ Renewing(p, t, thr[p][t].run)
<1>1. thr[p][t].pc \in {"listen", "exec"} /\ (thr[p][t].pc = "exec" => thr[p][t].beat # "off")
  BY DEF Leased
<1>2. thr[p][t].run \in Run
  BY <1>1, StateAt DEF ClientInv
<1>q. QED
  BY <1>1, <1>2 DEF LeaseHeld, Tokened, Renewing, Working

\* A worker that settles is not one whose lease somebody executes under.
LEMMA SettlesOther ==
    ASSUME Shared, ClientInv, LeaseHeld, FencesApart, NEW p \in Proc, NEW t \in Thread,
           NEW q \in Proc, NEW u \in Thread, Leased(thr[q][u]), thr[p][t].pc = "settle", SettleCall(p, t)
    PROVE  thr[p][t].run \in Run /\ thr[p][t].run # thr[q][u].run
<1>1. CP!Holds(TokenOf(p, t))
  BY DEF SettleCall, CP!ScheduleRetry, CP!Transition
<1>2. thr[p][t].run \in Run /\ thr[p][t].pc \in Tokened
  BY StateAt DEF ClientInv, Tokened
<1>3. ASSUME thr[p][t].run = thr[q][u].run PROVE FALSE
  <2>1. fence[thr[p][t].run] = thr[p][t].fence
    BY <1>1 DEF CP!Holds, TokenOf
  <2>2. fence[thr[q][u].run] = thr[q][u].fence /\ thr[q][u].pc \in Tokened /\ thr[q][u].pc # "settle"
    BY LeasedAt DEF HeldBy
  <2>3. thr[p][t].fence = thr[q][u].fence
    BY <1>3, <2>1, <2>2
  <2>4. p = q /\ t = u
    BY <1>2, <1>3, <2>2, <2>3 DEF FencesApart
  <2>q. QED
    BY <2>2, <2>4
<1>q. QED
  BY <1>2, <1>3

LEMMA CallKeeps ==
    ASSUME Shared, ClientInv, LeaseHeld, FencesApart, NEW p \in Proc, NEW t \in Thread, ThreadCall(p, t),
           NEW q \in Proc, NEW u \in Thread, Leased(thr[q][u])
    PROVE  LeaseKept(thr[q][u].run)
<1>r. PICK r \in Run : r = thr[q][u].run
  BY LeasedAt
<1>0. status[r] = "running" /\ lease[r] = "live"
  BY <1>r, LeasedAt DEF HeldBy
<1>t. /\ owner \in [Run -> Proc \cup {NoProc}] /\ fence \in [Run -> Nat]
      /\ status \in [Run -> CPP!Status] /\ lease \in [Run -> {"none", "live", "lapsed"}]
  BY DEF ClientInv, CPP!FencingInv, CPP!TypeOK
<1>1. CASE UNCHANGED cpVars
  BY <1>1, <1>r DEF cpVars, LeaseKept
<1>2. CASE CP!Claim(thr[p][t].run, p)
  <2>1. thr[p][t].run # r
    BY <1>0, <1>2 DEF CP!Claim, CP!Claimable
  <2>q. QED
    BY <1>2, <1>r, <1>t, <2>1 DEF CP!Claim, LeaseKept
<1>3. CASE CP!Renew(TokenOf(p, t))
  <2>1. lease'[r] = "live"
    BY <1>0, <1>3, <1>t DEF CP!Renew
  <2>q. QED
    BY <1>0, <1>3, <1>r, <2>1 DEF CP!Renew, LeaseKept
<1>4. CASE thr[p][t].pc = "settle" /\ SettleCall(p, t)
  <2>1. TokenOf(p, t).key # r
    BY <1>4, <1>r, SettlesOther DEF TokenOf
  <2>2. CASE CP!ScheduleRetry(TokenOf(p, t))
    BY <1>r, <1>t, <2>1, <2>2 DEF CP!ScheduleRetry, CP!Release, LeaseKept
  <2>3. CASE CP!Transition(TokenOf(p, t), Final(thr[p][t]))
    BY <1>r, <1>t, <2>1, <2>3 DEF CP!Transition, CP!Release, LeaseKept
  <2>q. QED
    BY <1>4, <2>2, <2>3 DEF SettleCall
<1>5. CASE CP!Ack(thr[p][t].run)
  BY <1>5, <1>r DEF CP!Ack, CP!leaseVars, LeaseKept
<1>q. QED
  BY <1>1, <1>2, <1>3, <1>4, <1>5 DEF ThreadCall

LEMMA CalmKeeps ==
    ASSUME Punctual, ClientInv, LeaseHeld, CalmCall, NEW q \in Proc, NEW u \in Thread, Leased(thr[q][u])
    PROVE  LeaseKept(thr[q][u].run)
<1>r. PICK r \in Run : r = thr[q][u].run
  BY LeasedAt
<1>0. status[r] = "running" /\ lease[r] = "live" /\ fence[r] = thr[q][u].fence
  BY <1>r, LeasedAt DEF HeldBy
<1>1. CASE UNCHANGED cpVars
  BY <1>1, <1>r DEF cpVars, LeaseKept
<1>2. ASSUME NEW x \in Run, CP!Admit(x, Request) PROVE LeaseKept(r)
  <2>1. hash[x] = NoRequest
    BY <1>2 DEF CP!Admit, CP!Admission
  <2>2. status[x] = "absent"
    BY <2>1 DEF ClientInv, CPP!FencingInv, CPP!AdmittedTogether
  <2>3. x # r
    BY <1>0, <2>2
  <2>q. QED
    BY <1>2, <2>3 DEF CP!Admit, LeaseKept, ClientInv, CPP!FencingInv, CPP!TypeOK
<1>3. ASSUME NEW p \in Proc, CP!Poll(p) PROVE LeaseKept(r)
  BY <1>3 DEF CP!Poll, CP!leaseVars, LeaseKept
<1>4. ASSUME NEW p \in Proc, NEW x \in Run, CP!Reclaim(p, x) PROVE LeaseKept(r)
  BY <1>4 DEF CP!Reclaim, CP!leaseVars, LeaseKept
<1>5. ASSUME NEW x \in Run, LapseShared(x) PROVE LeaseKept(r)
  <2>1. Renewing(q, u, r)
    BY <1>r, LeasedAt
  <2>2. x # r
    BY <1>0, <1>5, <2>1 DEF LapseShared
  <2>3. CP!Lapse(x)
    BY <1>5 DEF LapseShared
  <2>q. QED
    BY <2>2, <2>3 DEF CP!Lapse, LeaseKept, ClientInv, CPP!FencingInv, CPP!TypeOK
<1>q. QED
  BY <1>1, <1>2, <1>3, <1>4, <1>5, <1>r DEF CalmCall

LEMMA HeldStep ==
    ASSUME Shared, Punctual, ClientInv, FencesApart, LeaseHeld, [Next]_vars
    PROVE  LeaseHeld'
<1>0. StateTypes /\ CPP!TypeOK
  BY DEF ClientInv, CPP!FencingInv
<1>1. ASSUME NEW q \in Proc, NEW u \in Thread, Leased(thr[q][u]) PROVE LeaseKept(thr[q][u].run)
  <2>1. CASE UNCHANGED vars
    BY <2>1 DEF vars, cpVars, LeaseKept
  <2>2. CASE Next
    BY <1>0, <1>1, <2>2, StepShape, CallKeeps, CalmKeeps
  <2>q. QED
    BY <2>1, <2>2
<1>2. ASSUME NEW q \in Proc, NEW u \in Thread, Leased(thr'[q][u]) PROVE HeldBy(q, thr[q][u])'
  <2>s. PICK s, z : s = thr[q][u] /\ z = thr'[q][u]
    OBVIOUS
  <2>1. z.pc \in Tokened
    BY <1>2, <2>s DEF Leased, Tokened
  <2>2. Kept(s, z) \/ Granted(q, s, z)
    BY <1>0, <2>1, <2>s, ThreadsFollow DEF Follows, Grants
  <2>3. /\ owner'[z.run] = q /\ fence'[z.run] = z.fence
        /\ status'[z.run] = "running" /\ lease'[z.run] = "live"
    <3>1. CASE Kept(s, z)
      <4>1. Leased(s) /\ z.run = s.run /\ z.fence = s.fence
        BY <1>2, <2>s, <3>1 DEF Kept
      <4>2. HeldBy(q, s) /\ LeaseKept(s.run)
        BY <1>1, <2>s, <4>1, LeasedAt
      <4>q. QED
        BY <4>1, <4>2 DEF HeldBy, LeaseKept
    <3>2. CASE Granted(q, s, z)
      <4>1. s.pc = "share" /\ z.run = s.run /\ z.fence = fence[s.run] + 1 /\ CP!Claim(s.run, q)
        BY <3>2 DEF Granted
      <4>2. PICK r \in Run : r = s.run
        BY <1>0, <2>s, <4>1, StateAt
      <4>q. QED
        BY <1>0, <4>1, <4>2 DEF CP!Claim, CP!NextFence, CPP!TypeOK
    <3>q. QED
      BY <2>2, <3>1, <3>2
  <2>q. QED
    BY <2>3, <2>s DEF HeldBy
<1>q. QED
  BY <1>2 DEF LeaseHeld, Leased, HeldBy

LEMMA HeldInit == Init => LeaseHeld
<1> SUFFICES ASSUME Init PROVE LeaseHeld
  OBVIOUS
<1>1. \A p \in Proc, t \in Thread : thr[p][t] = Idle
  BY DEF Init
<1>q. QED
  BY <1>1, IdleState DEF LeaseHeld, Leased

\* A worker that executes under a live heartbeat holds the live lease of its run.
THEOREM LeaseHolds == ASSUME Shared, Punctual PROVE Spec => []LeaseHeld
<1>1. ClientInv /\ FencesApart /\ LeaseHeld /\ [Next]_vars => LeaseHeld'
  BY HeldStep
<1>2. Spec => []FencesApart
  BY ApartHolds
<1>q. QED
  BY <1>1, <1>2, HeldInit, ClientHolds, PTL DEF Spec

\* A run is executed by one worker at a time on all the hosts that share a control
\* plane, whatever their databases say: the callback runs under the one live lease.
OneExecutorAnywhere ==
    \A p, q \in Proc, t, u \in Thread :
        /\ Leased(thr[p][t]) /\ Leased(thr[q][u]) /\ thr[p][t].run = thr[q][u].run
        => p = q /\ t = u

\* On all the hosts that share a control plane one worker with a heartbeat executes a
\* run, even where each host has a database of its own and claims the run there.
THEOREM SingleExecutorAnywhere == ASSUME Shared, Punctual PROVE Spec => []OneExecutorAnywhere
<1>1. ASSUME FencesApart, LeaseHeld PROVE OneExecutorAnywhere
  <2>1. ASSUME NEW p \in Proc, NEW q \in Proc, NEW t \in Thread, NEW u \in Thread,
               Leased(thr[p][t]), Leased(thr[q][u]), thr[p][t].run = thr[q][u].run
        PROVE  p = q /\ t = u
    <3>1. HeldBy(p, thr[p][t]) /\ HeldBy(q, thr[q][u])
      BY <1>1, <2>1 DEF LeaseHeld
    <3>2. thr[p][t].fence = thr[q][u].fence
      BY <2>1, <3>1 DEF HeldBy
    <3>3. thr[p][t].pc \in Tokened /\ thr[q][u].pc \in Tokened
      BY <2>1 DEF Leased, Tokened
    <3>q. QED
      BY <1>1, <2>1, <3>2, <3>3 DEF FencesApart
  <2>q. QED
    BY <2>1 DEF OneExecutorAnywhere
<1>2. Spec => []FencesApart
  BY ApartHolds
<1>3. Spec => []LeaseHeld
  BY LeaseHolds
<1>q. QED
  BY <1>1, <1>2, <1>3, PTL

-----------------------------------------------------------------------------
(* What the control plane promises, kept under this client                 *)

LEMMA PromisesAre ==
    /\ CP!OneEntryPerAdmission <=> CPP!OneEntryPerAdmission
    /\ CPP!FencingInv => CP!StaleTokensPowerless /\ CP!FinalByNewest
<1>1. CP!OneEntryPerAdmission <=> CPP!OneEntryPerAdmission
  BY DEF CP!OneEntryPerAdmission, CPP!OneEntryPerAdmission, CP!InQueue, CPP!InQueue
<1>2. ASSUME CPP!FencingInv PROVE CP!StaleTokensPowerless
  BY <1>2 DEF CPP!FencingInv, CPP!TypeOK, CPP!TokensBehindCounter, CPP!Token,
     CP!StaleTokensPowerless, CP!Holds
<1>3. ASSUME CPP!FencingInv PROVE CP!FinalByNewest
  BY <1>3 DEF CPP!FencingInv, CPP!TypeOK, CPP!TokensBehindCounter, CPP!AuthorAtCounter, CPP!Token,
     CP!FinalByNewest, CP!ClaimTerminal, CPP!ClaimTerminal
<1>q. QED
  BY <1>1, <1>2, <1>3

\* Under every interleaving of the processes, their crashes and their outages, a worker
\* that lost its lease writes nothing shared, a final outcome was written by the newest
\* lease holder and stays, and the message of an admitted run is in one place.
THEOREM SharedRunsKept ==
    Spec => /\ []CP!StaleTokensPowerless
            /\ []CP!FinalByNewest
            /\ []CP!OneEntryPerAdmission
            /\ CP!FinalStable
<1>1. ClientInv => CP!StaleTokensPowerless /\ CP!FinalByNewest
  BY PromisesAre DEF ClientInv
<1>2. Init => CPP!OneEntryPerAdmission
  BY DEF Init, CP!Init, CPP!OneEntryPerAdmission, CPP!InQueue
<1>3. ClientInv /\ CPP!OneEntryPerAdmission /\ [Next]_vars => CPP!OneEntryPerAdmission'
  BY ClientStep, ControlPlaneConstants, CPP!EntryStep DEF ClientInv
<1>4. CPP!OneEntryPerAdmission => CP!OneEntryPerAdmission
  BY PromisesAre
<1> DEFINE Stays == \A k \in Run : status[k] \in CP!ClaimTerminal =>
                       /\ status'[k] = status[k]
                       /\ result'[k] = result[k]
                       /\ events'[k] = events[k]
<1>5. ClientInv /\ [Next]_vars => [Stays]_(CP!vars)
  <2> SUFFICES ASSUME ClientInv, [Next]_vars PROVE Stays
    OBVIOUS
  <2>1. CPP!Frozen
    BY ClientStep, ControlPlaneConstants, CPP!FrozenStep DEF ClientInv
  <2>q. QED
    BY <2>1 DEF CPP!Frozen, CPP!ClaimTerminal, CP!ClaimTerminal
<1>6. Spec => CP!FinalStable
  BY <1>5, ClientHolds, PTL DEF Spec, CP!FinalStable
<1>q. QED
  BY <1>1, <1>2, <1>3, <1>4, <1>6, ClientHolds, PTL DEF Spec
=============================================================================
