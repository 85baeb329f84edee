----------------------------- MODULE AgentLoop -----------------------------
(***************************************************************************)
(* The agent driver of the harness: packages/core/agent-loop/src/agent.ts  *)
(* (ReactLoopAgent), the durable inbox it drains (core/agent/src/inbox.ts),*)
(* its lifecycle (core/agent-loop/src/index.ts) and the repair of a log cut*)
(* short by a crash (core/session/src/repair.ts).                          *)
(*                                                                         *)
(* JavaScript runs to completion between two awaits.  `pc' is the place of *)
(* the driver: at a place of AwaitPoints it is suspended and callers may   *)
(* run; at every other place the driver holds the thread and only its own  *)
(* actions are enabled (Free).  The window between the settlement of the   *)
(* promise of turn() and the continuation of `await this.turn()' in kick() *)
(* is the await point "returned".                                          *)
(*                                                                         *)
(* The session log is an append-only sequence.  Events go to the backend in*)
(* order and asynchronously, so a crash keeps some prefix of it.  The log  *)
(* kept here has the events the driver and the inbox write; assistant and  *)
(* tool events are in ToolCalls.  Names of messages stand for MessageIds.  *)
(***************************************************************************)
EXTENDS Naturals, FiniteSets, SequencesExt

CONSTANTS
    Msgs,         \* identified user messages, each sent once
    CTX,          \* the runtime-context message a step may add to its batch
    MaxSteps,     \* bound: steps of one turn
    MaxOps        \* bound: cancels, removals, maintenance jobs, disposals and crashes together

ASSUME CtxAssumption == CTX \notin Msgs

VARIABLES
    life,          \* "live", "disposing" or "gone" (no agent object, only the log)
    phase,         \* Phase.kind: "idle", "maintenance", "running"
    pc,            \* place of the driver, see above
    abort,         \* reason of the current AbortController, "none" if not aborted
    wakeRequested, \* the latch of the current activity
    turn, step,    \* numbers of the current or last turn and step
    turnEnds,      \* reason the turn would end with, "null" while it continues
    target,        \* list the next claim may draw a prompt from
    claimed,       \* batch held by preStep across its awaits
    ret,           \* how turn() settled: "again", "stop" or "throw"
    inbox,         \* live projection: target |-> pending messages
    log,           \* the session log
    sent,          \* messages handed to send() so far
    owed,          \* messages whose latched wake no driver has replayed yet (history)
    ops            \* operations counted by MaxOps

driver == <<phase, pc, abort, wakeRequested, turn, step, turnEnds, target, claimed, ret>>
vars == <<life, driver, inbox, log, sent, owed, ops>>

Targets == {"next-turn", "next-step"}
Reasons == {"completed", "max-tokens", "blocked", "aborted", "error", "interrupted"}
AwaitPoints == {"off", "preStep", "model", "stopping", "returned"}

\* No driver code is on the stack: a caller may run.
Free == pc \in AwaitPoints

----------------------------------------------------------------------------
(* Log events *)

TurnStart(t) == [type |-> "turn/start", turn |-> t]
TurnEnd(t, reason) == [type |-> "turn/end", turn |-> t, reason |-> reason]
StepStart(t, s) == [type |-> "step/start", turn |-> t, step |-> s]
StepEnd(t, s) == [type |-> "step/end", turn |-> t, step |-> s]
UserMessage(m) == [type |-> "user/message", msg |-> m]
Spliced(tgt, start, removed, inserted, canceled) ==
    [type |-> "spliced", target |-> tgt, start |-> start, removed |-> removed,
     inserted |-> inserted, canceled |-> canceled]

Event ==
    {TurnStart(t) : t \in Nat} \cup {TurnEnd(t, reason) : t \in Nat, reason \in Reasons}
    \cup {StepStart(t, s) : t, s \in Nat} \cup {StepEnd(t, s) : t, s \in Nat}
    \cup {UserMessage(m) : m \in Msgs \cup {CTX}}
    \cup {Spliced(tgt, start, removed, inserted, canceled) :
            tgt \in Targets, start, removed \in Nat, inserted \in Seq(Msgs), canceled \in BOOLEAN}

----------------------------------------------------------------------------
(* Inbox *)

EmptyInbox == [t \in Targets |-> <<>>]

\* Inbox.apply: the effect of one normalised splice on the projection.
Apply(box, e) ==
    [box EXCEPT ![e.target] = SubSeq(@, 1, e.start) \o e.inserted
                              \o SubSeq(@, e.start + e.removed + 1, Len(@))]

\* Other events leave the projection alone.
Applied(box, e) == IF e.type = "spliced" THEN Apply(box, e) ELSE box

\* The projection after each prefix of the events, from the projection before them.
Projections(box, events) ==
    LET after[n \in 0..Len(events)] == IF n = 0 THEN box ELSE Applied(after[n - 1], events[n])
    IN  after

Project(box, events) == Projections(box, events)[Len(events)]

\* The constructor of Inbox: replay of every splice of the log.
Replay(events) == Project(EmptyInbox, events)

Pending(box) == UNION {ToSet(box[t]) : t \in Targets}
hasPending(box) == Pending(box) # {}

\* The events mutate() logs: none when nothing is removed or inserted.
Removal(box, tgt, count, canceled) ==
    LET n == IF count < Len(box[tgt]) THEN count ELSE Len(box[tgt])
    IN  IF n = 0 THEN <<>> ELSE <<Spliced(tgt, 0, n, <<>>, canceled)>>

\* Inbox.clear: next-step first, both as cancellations.
ClearEvents(box) ==
    Removal(box, "next-step", Len(box["next-step"]), TRUE)
    \o Removal(box, "next-turn", Len(box["next-turn"]), TRUE)

\* Mutant: the claim reads the next-step list and leaves it in the inbox.
ClaimEventsOfPrompt(box, tgt) ==
    IF tgt = "next-turn" THEN Removal(box, "next-turn", 1, FALSE) ELSE <<>>

\* Inbox.claim: all next-step input and, at a turn boundary, one prompt.
ClaimEvents(box, tgt) ==
    Removal(box, "next-step", Len(box["next-step"]), FALSE)
    \o (IF tgt = "next-turn" THEN Removal(box, "next-turn", 1, FALSE) ELSE <<>>)

ClaimBatch(box, tgt) ==
    box["next-step"]
    \o (IF tgt = "next-turn" /\ box["next-turn"] # <<>> THEN <<Head(box["next-turn"])>> ELSE <<>>)

\* Inbox.remove: one pending message of either list is cancelled.
RemoveEvent(box, m) ==
    LET tgt == CHOOSE t \in Targets : m \in ToSet(box[t])
        at == CHOOSE i \in DOMAIN box[tgt] : box[tgt][i] = m
    IN  Spliced(tgt, at - 1, 1, <<>>, TRUE)

\* Mutant: cancelled messages leave the live projection and not the log.
CommitLiveOnly(events) ==
    /\ log' = log \o SelectSeq(events, LAMBDA e : e.type = "spliced" => ~e.canceled)
    /\ inbox' = Project(inbox, events)

\* Every commit appends the events and folds them into the live projection.
Commit(events) ==
    /\ log' = log \o events
    /\ inbox' = Project(inbox, events)

----------------------------------------------------------------------------
(* Crash repair *)

\* The open turn and step after one more event; 0 is no step.
Moved(c, e) ==
    CASE e.type = "turn/start" -> [turn |-> e.turn, open |-> TRUE, step |-> 0]
      [] e.type = "turn/end"   -> [c EXCEPT !.open = FALSE, !.step = 0]
      [] e.type = "step/start" -> [c EXCEPT !.step = e.step]
      [] e.type = "step/end"   -> [c EXCEPT !.step = 0]
      [] OTHER -> c

\* The cursor after each prefix of the log.
LogCursors(events) ==
    LET at[n \in 0..Len(events)] ==
            IF n = 0 THEN [turn |-> 0, open |-> FALSE, step |-> 0] ELSE Moved(at[n - 1], events[n])
    IN  at

LogCursor(events) == LogCursors(events)[Len(events)]

\* Mutant: an open step is left open.
ClosersOfTurn(events) ==
    LET c == LogCursor(events)
    IN  IF c.open THEN <<TurnEnd(c.turn, "interrupted")>> ELSE <<>>

\* The boundaries missing from an open tail turn, the step's before the turn's.
interruptedTurnClosers(events) ==
    LET c == LogCursor(events)
    IN  IF ~c.open THEN <<>>
        ELSE (IF c.step # 0 THEN <<StepEnd(c.turn, c.step)>> ELSE <<>>)
             \o <<TurnEnd(c.turn, "interrupted")>>

----------------------------------------------------------------------------
TypeOK ==
    /\ life \in {"live", "disposing", "gone"}
    /\ phase \in {"idle", "maintenance", "running"}
    /\ pc \in AwaitPoints \cup {"turn", "loop"}
    /\ abort \in {"none", "user", "disposed"} /\ wakeRequested \in BOOLEAN
    /\ turn \in Nat /\ step \in Nat
    /\ turnEnds \in Reasons \cup {"null"} /\ target \in Targets
    /\ claimed \in Seq(Msgs) /\ ret \in {"again", "stop", "throw"}
    /\ inbox \in [Targets -> Seq(Msgs)] /\ log \in Seq(Event)
    /\ sent \subseteq Msgs /\ owed \subseteq Msgs
    /\ ops \in Nat

Init ==
    /\ life = "live" /\ phase = "idle" /\ pc = "off"
    /\ abort = "none" /\ wakeRequested = FALSE
    /\ turn = 0 /\ step = 0 /\ turnEnds = "null" /\ target = "next-turn"
    /\ claimed = <<>> /\ ret = "stop"
    /\ inbox = EmptyInbox /\ log = <<>>
    /\ sent = {} /\ owed = {}
    /\ ops = 0

----------------------------------------------------------------------------
(* Callers *)

\* The operations bounded by MaxOps.
Count == ops < MaxOps /\ ops' = ops + 1

\* wakeDriver() from idle: a running phase with a fresh controller, then kick().
StartDriver ==
    /\ phase' = "running" /\ pc' = "turn" /\ abort' = "none"
    /\ wakeRequested' = FALSE /\ step' = 0 /\ owed' = {}
    /\ UNCHANGED <<turn, turnEnds, target, claimed, ret>>

\* wakeDriver() behind maintenance or an aborted activity: latch the wake.
Latches(wakingAfterAbort) ==
    /\ abort # "disposed"
    /\ phase = "maintenance" \/ wakingAfterAbort

\* send(): the classification is made before the insertion.
Send(m, tgt, wakeup) ==
    LET wakingAfterAbort == wakeup /\ phase # "idle" /\ abort # "none"
        resolved == IF wakingAfterAbort THEN "next-turn" ELSE tgt
    IN  /\ Free /\ life # "gone"
        /\ m \in Msgs \ sent
        /\ sent' = sent \cup {m}
        /\ Commit(<<Spliced(resolved, Len(inbox[resolved]), 0, <<m>>, FALSE)>>)
        /\ \/ /\ wakeup /\ phase = "idle"
              /\ StartDriver
           \/ /\ wakeup /\ phase # "idle" /\ Latches(wakingAfterAbort)
              /\ wakeRequested' = TRUE
              /\ owed' = owed \cup {m}
              /\ UNCHANGED <<phase, pc, abort, turn, step, turnEnds, target, claimed, ret>>
           \/ /\ ~wakeup \/ (phase # "idle" /\ ~Latches(wakingAfterAbort))
              /\ UNCHANGED <<driver, owed>>
        /\ UNCHANGED <<life, ops>>

followup(m) == Send(m, "next-turn", TRUE)
steer(m) == Send(m, "next-step", TRUE)
inject(m) == Send(m, "next-step", FALSE)

\* cancel(): the first reason given to an AbortController is the one it keeps.
CancelDriver(cause, keepInbox) ==
    /\ Commit(IF keepInbox THEN <<>> ELSE ClearEvents(inbox))
    /\ wakeRequested' = (wakeRequested /\ (keepInbox \/ phase = "idle"))
    /\ abort' = IF phase # "idle" /\ abort = "none" THEN cause ELSE abort
    /\ UNCHANGED <<phase, pc, turn, step, turnEnds, target, claimed, ret>>

Cancel(keepInbox) ==
    /\ Free /\ life # "gone" /\ Count
    /\ CancelDriver("user", keepInbox)
    /\ UNCHANGED <<life, sent, owed>>

\* Inbox.remove() by the owner of a pending message.
RemovePending(m) ==
    /\ Free /\ life # "gone" /\ m \in Pending(inbox) /\ Count
    /\ Commit(<<RemoveEvent(inbox, m)>>)
    /\ UNCHANGED <<life, driver, sent, owed>>

runMaintenance ==
    /\ Free /\ life = "live" /\ phase = "idle" /\ Count
    /\ phase' = "maintenance" /\ abort' = "none" /\ wakeRequested' = FALSE
    /\ UNCHANGED <<life, pc, turn, step, turnEnds, target, claimed, ret, inbox, log, sent, owed>>

\* Mutant: the latch is not replayed.
BecomeIdleOnly ==
    /\ phase' = "idle" /\ pc' = "off" /\ abort' = "none" /\ wakeRequested' = FALSE
    /\ UNCHANGED <<turn, step, turnEnds, target, claimed, ret, owed>>

\* The finally of runMaintenance and of kick: idle, then replay a latched wake.
BecomeIdle ==
    IF wakeRequested /\ hasPending(inbox)
    THEN StartDriver
    ELSE /\ phase' = "idle" /\ pc' = "off" /\ abort' = "none" /\ wakeRequested' = FALSE
         /\ UNCHANGED <<turn, step, turnEnds, target, claimed, ret, owed>>

MaintenanceDone ==
    /\ phase = "maintenance" /\ Free
    /\ BecomeIdle
    /\ UNCHANGED <<life, inbox, log, sent, ops>>

----------------------------------------------------------------------------
(* Lifecycle *)

\* The driver state of a new ReactLoopAgent whose log ends with turn `last'.
FreshDriver(last) ==
    /\ phase' = "idle" /\ pc' = "off" /\ abort' = "none" /\ wakeRequested' = FALSE
    /\ turn' = last /\ step' = 0 /\ turnEnds' = "null" /\ target' = "next-turn"
    /\ claimed' = <<>> /\ ret' = "stop" /\ owed' = {}

\* dispose(): a disposed-cause cancel, then whenIdle() ...
Dispose ==
    /\ Free /\ life = "live" /\ Count
    /\ CancelDriver("disposed", FALSE)
    /\ life' = "disposing"
    /\ UNCHANGED <<sent, owed>>

\* ... then the handle is drained and closed and the registries drop the agent.
Detach ==
    /\ life = "disposing" /\ Free /\ phase = "idle"
    /\ life' = "gone" /\ inbox' = EmptyInbox
    /\ FreshDriver(turn)
    /\ UNCHANGED <<log, sent, ops>>

\* The process dies with some prefix of the log stored.
Crash ==
    /\ life # "gone" /\ Free /\ Count
    /\ \E k \in 0..Len(log) : log' = SubSeq(log, 1, k)
    /\ life' = "gone" /\ inbox' = EmptyInbox
    /\ FreshDriver(0)
    /\ UNCHANGED sent

\* resumeWith(): closers are appended, then a new agent is built from the log.
Resume ==
    /\ life = "gone"
    /\ LET stored == log \o interruptedTurnClosers(log)
       IN  /\ log' = stored
           /\ inbox' = Replay(stored)
           /\ FreshDriver(LogCursor(stored).turn)
    /\ life' = "live"
    /\ UNCHANGED <<sent, ops>>

----------------------------------------------------------------------------
(* The driver *)

Suspend(how) == ret' = how /\ pc' = "returned"

\* turn(): throws before turn/start when already aborted.
Turn ==
    /\ pc = "turn"
    /\ \/ /\ abort # "none"
          /\ Suspend("throw")
          /\ UNCHANGED <<turn, turnEnds, target, inbox, log>>
       \/ /\ abort = "none"
          /\ Commit(<<TurnStart(turn + 1)>>)
          /\ turn' = turn + 1 /\ turnEnds' = "null" /\ target' = "next-turn"
          /\ pc' = "loop"
          /\ UNCHANGED ret
    /\ UNCHANGED <<life, phase, abort, wakeRequested, step, claimed, sent, owed, ops>>

\* turn/end of the turn, with `events' logged before it; then how turn() settles.
CloseTurn(events, reason, how) ==
    /\ Commit(events \o <<TurnEnd(turn, reason)>>)
    /\ claimed' = <<>> /\ turnEnds' = "null"
    /\ IF how = "drain" /\ hasPending(inbox)
       THEN /\ abort' = "none" /\ wakeRequested' = FALSE /\ step' = 0 /\ owed' = {}
            /\ Suspend("again")
       ELSE /\ Suspend(IF how = "drain" THEN "stop" ELSE how)
            /\ UNCHANGED <<abort, wakeRequested, step, owed>>
    /\ UNCHANGED <<life, phase, turn, target, sent, ops>>

\* The top of the step loop: the claim of preStep, then its awaits.
Claim ==
    /\ pc = "loop" /\ abort = "none"
    /\ claimed' = ClaimBatch(inbox, target)
    /\ Commit(ClaimEvents(inbox, target))
    /\ pc' = "preStep"
    /\ UNCHANGED <<life, phase, abort, wakeRequested, turn, step, turnEnds, target, ret, sent,
                   owed, ops>>

\* The await of assembly or of agent/pre-step ends in an abort or a failure.
PreStepFails ==
    /\ pc = "preStep"
    /\ CloseTurn(<<>>, IF abort # "none" THEN "aborted" ELSE "error", "throw")

PreStepRejects ==
    /\ pc = "preStep" /\ abort = "none"
    /\ CloseTurn(<<>>, "blocked", "stop")

\* An enter decision: the claimed batch, or nothing when a listener rewrites it.  Runtime
\* context may join the batch, which matters to the control only when the batch is empty.
PreStepEnters ==
    /\ pc = "preStep" /\ abort = "none"
    /\ \E messages \in {claimed, <<>>} \cup (IF claimed = <<>> THEN {<<CTX>>} ELSE {}) :
        \/ /\ messages = <<>> /\ turnEnds # "null"
           /\ CloseTurn(<<>>, turnEnds, "drain")
        \/ /\ messages = <<>> /\ turnEnds = "null" /\ step = 0
           /\ CloseTurn(<<>>, "completed", "stop")
        \/ /\ messages # <<>> \/ (turnEnds = "null" /\ step > 0)
           /\ Commit(<<StepStart(turn, step + 1)>>
                     \o [i \in DOMAIN messages |-> UserMessage(messages[i])])
           /\ step' = step + 1 /\ claimed' = <<>> /\ pc' = "model"
           /\ UNCHANGED <<life, phase, abort, wakeRequested, turn, turnEnds, target, ret, sent,
                          owed, ops>>

\* step() throws, or the signal is aborted by the time it settles.
StepFails ==
    /\ pc = "model"
    /\ CloseTurn(<<StepEnd(turn, step)>>, IF abort # "none" THEN "aborted" ELSE "error", "throw")

\* max-tokens is sticky.
TurnEndsAfter(stepEnd) == IF turnEnds = "max-tokens" THEN turnEnds ELSE stepEnd

\* step() settles: "null" is a step whose tool calls did not conclude the turn.
StepSettles(stepEnd) ==
    /\ pc = "model" /\ abort = "none"
    /\ stepEnd = "null" => step < MaxSteps
    /\ Commit(<<StepEnd(turn, step)>>)
    /\ turnEnds' = TurnEndsAfter(stepEnd)
    /\ IF turnEnds' # "null" /\ inbox["next-step"] = <<>>
       THEN pc' = "stopping" /\ UNCHANGED target
       ELSE pc' = "loop" /\ target' = "next-step"
    /\ UNCHANGED <<life, phase, abort, wakeRequested, turn, step, claimed, ret, sent, owed, ops>>

\* agent/turn-stopping settled: end the turn unless it left steering.
StoppingSettles ==
    /\ pc = "stopping"
    /\ \/ CloseTurn(<<>>, IF abort # "none" THEN "aborted" ELSE "error", "throw")
       \/ /\ abort = "none" /\ inbox["next-step"] = <<>>
          /\ CloseTurn(<<>>, turnEnds, "drain")
       \/ /\ abort = "none" /\ inbox["next-step"] # <<>>
          /\ pc' = "loop" /\ target' = "next-step"
          /\ UNCHANGED <<life, phase, abort, wakeRequested, turn, step, turnEnds, claimed, ret,
                         inbox, log, sent, owed, ops>>

\* Mutant: only a turn that returns leaves the running phase.
KickWithoutFinally ==
    /\ pc = "returned"
    /\ \/ /\ ret = "again"
          /\ pc' = "turn"
          /\ UNCHANGED <<phase, abort, wakeRequested, turn, step, turnEnds, target, claimed, ret, owed>>
       \/ ret = "stop" /\ BecomeIdle
    /\ UNCHANGED <<life, inbox, log, sent, ops>>

\* kick() resumes: another turn, or idle.
Kick ==
    /\ pc = "returned"
    /\ \/ /\ ret = "again"
          /\ pc' = "turn"
          /\ UNCHANGED <<phase, abort, wakeRequested, turn, step, turnEnds, target, claimed, ret, owed>>
       \/ ret # "again" /\ BecomeIdle
    /\ UNCHANGED <<life, inbox, log, sent, ops>>

Driver ==
    /\ life # "gone"
    /\ \/ Turn \/ Claim \/ Kick
       \/ PreStepFails \/ PreStepRejects \/ PreStepEnters
       \/ StepFails \/ (\E e \in {"completed", "max-tokens", "null"} : StepSettles(e))
       \/ StoppingSettles

Callers ==
    \/ \E m \in Msgs : followup(m) \/ steer(m) \/ inject(m) \/ RemovePending(m)
    \/ \E keep \in BOOLEAN : Cancel(keep)
    \/ runMaintenance

Lifecycle == Dispose \/ Detach \/ Crash \/ Resume

Next == Driver \/ Callers \/ Lifecycle \/ (life # "gone" /\ MaintenanceDone)
Spec == Init /\ [][Next]_vars

\* Awaits of the driver settle (the provider and the hooks answer or fail, and honour
\* the signal), maintenance jobs end, and a disposal goes on once the agent is idle.
Fairness ==
    /\ WF_vars(Driver)
    /\ WF_vars(life # "gone" /\ MaintenanceDone)
    /\ WF_vars(Detach)

FairSpec == Spec /\ Fairness

----------------------------------------------------------------------------
(* Properties *)

Where(P(_)) == {i \in DOMAIN log : P(log[i])}

LastReason(events) ==
    FoldLeft(LAMBDA r, e : IF e.type = "turn/end" THEN e.reason ELSE r, "null", events)

\* An event of the log at its place, where c is the cursor before it.
InPlace(events, k, c) ==
    LET e == events[k]
    IN  /\ e.type = "turn/start" => ~c.open /\ e.turn = c.turn + 1
        /\ e.type = "turn/end" => c.open /\ c.step = 0 /\ e.turn = c.turn
        /\ e.type = "step/start" =>
             /\ c.open /\ c.step = 0 /\ e.turn = c.turn /\ e.step > 0
             /\ e.step > 1 => \E j \in 1..(k - 1) : events[j] = StepStart(e.turn, e.step - 1)
             /\ \A j \in 1..(k - 1) : events[j] # e
        /\ e.type = "step/end" => c.step # 0 /\ e.turn = c.turn /\ e.step = c.step
        /\ e.type = "user/message" => c.step # 0

\* Boundaries nest and count: a turn/start follows the end of the turn before it and has the
\* next number, the steps of a turn are numbered from 1 without gap or repetition, messages
\* and step ends are inside a step, a turn ends with no step open -- in the live log, in
\* what a crash leaves of it and in the log a resume repaired -- and an idle agent has no
\* open turn (agent.ts turn(), repair.ts interruptedTurnClosers).
LogWellFormed ==
    /\ LET at == LogCursors(log) IN \A k \in DOMAIN log : InPlace(log, k, at[k - 1])
    /\ life # "gone" /\ phase # "running" => ~LogCursor(log).open

\* The live projection is the replay of the log after any interleaving of sends, claims,
\* cancels, removals and restarts (inbox.ts: mutate, apply, constructor).
InboxIsReplay == life # "gone" => inbox = Replay(log)

\* A message enters the transcript at most once over all crashes and resumes, and one that
\* did, or that a claim holds, is not pending any more (agent.ts preStep, inbox.ts claim).
EntersOnce ==
    \A m \in Msgs :
        LET entered == Where(LAMBDA e : e = UserMessage(m))
        IN  /\ Cardinality(entered) <= 1
            /\ life # "gone" /\ (entered # {} \/ m \in ToSet(claimed)) => m \notin Pending(inbox)

\* A wake sent into an aborted or maintaining agent is replayed: a driver with a fresh
\* controller starts after it, unless the message left the inbox or the agent is disposed
\* (agent.ts wakeDriver, kick, runMaintenance).
WakeReplayed ==
    \A m \in Msgs : m \in owed ~> m \notin owed \/ m \notin Pending(inbox) \/ life # "live"

\* A disposal reaches the end of whenIdle() whatever the activity and the racing sends.
DisposalCompletes == life = "disposing" ~> life = "gone"

\* agent.ts:184: "Live drivers claim queued work themselves."  A driver that no one aborted
\* and whose last turn completed goes idle only with no prompt waiting for a turn.
LiveDriverClaims ==
    [][Kick /\ phase' = "idle" /\ abort = "none" /\ LastReason(log) = "completed"
         => inbox["next-turn"] = <<>>]_vars
=============================================================================
