---------------------------- MODULE ControlPlane ----------------------------
(***************************************************************************)
(* RedisControlPlane of api/control_plane.py: the admission record, the    *)
(* fenced lease and the consumer-group queue of each shared resource.      *)
(*                                                                         *)
(* Every operation is one Lua script or one stream command, so it is one   *)
(* atomic action here.  The callers are the most general ones: a worker    *)
(* may use any token it was ever issued, at any later time and any number  *)
(* of times, which covers delayed, repeated and reordered calls.           *)
(*                                                                         *)
(* Time is abstract.  `now` is supplied by the caller of the claim script, *)
(* so whether a lease looks expired depends on the clocks of two hosts; a  *)
(* lease is "live" until a Lapse step makes it "lapsed", at any moment.    *)
(***************************************************************************)
EXTENDS Naturals, Sequences

CONSTANTS
    Key,        \* resource keys (runs, DAG nodes)
    Owner,      \* worker identities
    NoOwner,    \* the empty owner field, and "no consumer"
    Hash,       \* request hashes
    NoHash,     \* no admission record
    Outcomes,   \* statuses the workers pass to transition
    MaxFence    \* bound: grants per resource

\* Statuses the claim script refuses to lease again.
ClaimTerminal == {"succeeded", "partial", "failed", "cancelled", "completed"}

\* Statuses a worker also settles with, which the claim script does lease again.
Parked == {"pending", "waiting"}

ASSUME NoOwnerAssumption == NoOwner \notin Owner
ASSUME NoHashAssumption == NoHash \notin Hash
ASSUME OutcomesAssumption == Outcomes \subseteq ClaimTerminal \cup Parked
ASSUME MaxFenceAssumption == MaxFence \in Nat

VARIABLES
    hash,       \* [Key -> Hash \cup {NoHash}], request_hash of the record
    status,     \* [Key -> Status], "absent" before admission
    owner,      \* [Key -> Owner \cup {NoOwner}]
    fence,      \* [Key -> Nat], the INCR counter and the fencing_token field
    lease,      \* [Key -> {"none", "live", "lapsed"}], lease_until against now
    events,     \* [Key -> Seq(EventType)], the resource's event stream
    queue,      \* Seq(Key), stream entries not yet delivered to the group
    pel,        \* [Key -> Owner \cup {NoOwner}], consumer holding the entry
    acked,      \* SUBSET Key, entries acknowledged
    issued,     \* SUBSET Token, every lease token ever returned
    result,     \* [Key -> {"none"} \cup Outcomes], the result field
    author      \* [Key -> Nat], fence of the transition that wrote it (history)

leaseVars == <<hash, status, owner, fence, lease, events, issued, result, author>>
queueVars == <<queue, pel, acked>>
vars == <<hash, status, owner, fence, lease, events, queue, pel, acked,
          issued, result, author>>

Status == {"absent", "queued", "running", "retrying"} \cup Outcomes
EventType == {"admitted", "started", "retrying", "completed"}
Token == [key : Key, owner : Owner, fence : Nat]

Init ==
    /\ hash = [k \in Key |-> NoHash]
    /\ status = [k \in Key |-> "absent"]
    /\ owner = [k \in Key |-> NoOwner]
    /\ fence = [k \in Key |-> 0]
    /\ lease = [k \in Key |-> "none"]
    /\ events = [k \in Key |-> <<>>]
    /\ queue = <<>>
    /\ pel = [k \in Key |-> NoOwner]
    /\ acked = {}
    /\ issued = {}
    /\ result = [k \in Key |-> "none"]
    /\ author = [k \in Key |-> 0]

-----------------------------------------------------------------------------
(* Admission and the fenced lease                                          *)

Publish(k, e) == events' = [events EXCEPT ![k] = Append(@, e)]

\* Mutant: a different request under an admitted key is taken for a new one.
AdmissionWithoutConflict(k, h) == IF hash[k] = h THEN "replay" ELSE "created"

\* What the admit script answers; only "created" changes state.
Admission(k, h) ==
    IF hash[k] = NoHash THEN "created"
    ELSE IF hash[k] = h THEN "replay" ELSE "conflict"

Admit(k, h) ==
    /\ Admission(k, h) = "created"
    /\ hash' = [hash EXCEPT ![k] = h]
    /\ status' = [status EXCEPT ![k] = "queued"]
    /\ Publish(k, "admitted")
    /\ queue' = Append(queue, k)
    /\ UNCHANGED <<owner, fence, lease, pel, acked, issued, result, author>>

\* Mutant: the terminal check is dropped from the claim script.
ClaimableAlways(k) == status[k] # "absent" /\ lease[k] # "live"

Claimable(k) ==
    /\ status[k] \notin ClaimTerminal \cup {"absent"}
    /\ lease[k] # "live"

NextFence(k) == fence[k] + 1

Grant(k, o) == [key |-> k, owner |-> o, fence |-> NextFence(k)]

Claim(k, o) ==
    /\ Claimable(k)
    /\ fence[k] < MaxFence
    /\ fence' = [fence EXCEPT ![k] = NextFence(k)]
    /\ status' = [status EXCEPT ![k] = "running"]
    /\ owner' = [owner EXCEPT ![k] = o]
    /\ lease' = [lease EXCEPT ![k] = "live"]
    /\ Publish(k, "started")
    /\ issued' = issued \cup {Grant(k, o)}
    /\ UNCHANGED <<hash, result, author, queueVars>>

\* Mutant: ownership alone is checked.
HoldsByOwner(t) == owner[t.key] = t.owner /\ status[t.key] = "running"

\* Mutant: the fence alone is checked.
HoldsByFence(t) == fence[t.key] = t.fence

\* The guard shared by the renew, transition and retry scripts.
Holds(t) ==
    /\ owner[t.key] = t.owner
    /\ fence[t.key] = t.fence
    /\ status[t.key] = "running"

\* Renewal does not look at the expiry: a lapsed lease nobody took revives.
Renew(t) ==
    /\ Holds(t)
    /\ lease' = [lease EXCEPT ![t.key] = "live"]
    /\ UNCHANGED <<hash, status, owner, fence, events, issued, result, author,
                   queueVars>>

Release(k) ==
    /\ owner' = [owner EXCEPT ![k] = NoOwner]
    /\ lease' = [lease EXCEPT ![k] = "none"]

Transition(t, s) ==
    /\ Holds(t)
    /\ status' = [status EXCEPT ![t.key] = s]
    /\ Release(t.key)
    /\ Publish(t.key, "completed")
    /\ result' = [result EXCEPT ![t.key] = s]
    /\ author' = [author EXCEPT ![t.key] = t.fence]
    /\ UNCHANGED <<hash, fence, issued, queueVars>>

ScheduleRetry(t) ==
    /\ Holds(t)
    /\ status' = [status EXCEPT ![t.key] = "retrying"]
    /\ Release(t.key)
    /\ Publish(t.key, "retrying")
    /\ UNCHANGED <<hash, fence, issued, result, author, queueVars>>

\* lease_until falls behind the clock of whoever looks at it next.
Lapse(k) ==
    /\ lease[k] = "live"
    /\ lease' = [lease EXCEPT ![k] = "lapsed"]
    /\ UNCHANGED <<hash, status, owner, fence, events, issued, result, author,
                   queueVars>>

-----------------------------------------------------------------------------
(* The consumer group                                                      *)

\* XREADGROUP ">" delivers the oldest undelivered entry to one consumer.
Poll(o) ==
    /\ queue # <<>>
    /\ queue' = Tail(queue)
    /\ pel' = [pel EXCEPT ![Head(queue)] = o]
    /\ UNCHANGED <<leaseVars, acked>>

\* XAUTOCLAIM moves an entry that stayed unacknowledged long enough,
\* whether its consumer died or is only slow.
Reclaim(o, k) ==
    /\ pel[k] # NoOwner
    /\ pel' = [pel EXCEPT ![k] = o]
    /\ UNCHANGED <<leaseVars, queue, acked>>

\* XACK works on the entry id alone, whichever consumer holds it by now.
Ack(k) ==
    /\ pel[k] # NoOwner
    /\ pel' = [pel EXCEPT ![k] = NoOwner]
    /\ acked' = acked \cup {k}
    /\ UNCHANGED <<leaseVars, queue>>

Next ==
    \/ \E k \in Key, h \in Hash : Admit(k, h)
    \/ \E k \in Key, o \in Owner : Claim(k, o)
    \/ \E t \in issued : Renew(t)
    \/ \E t \in issued, s \in Outcomes : Transition(t, s)
    \/ \E t \in issued : ScheduleRetry(t)
    \/ \E k \in Key : Lapse(k)
    \/ \E o \in Owner : Poll(o)
    \/ \E o \in Owner, k \in Key : Reclaim(o, k)
    \/ \E k \in Key : Ack(k)

Spec == Init /\ [][Next]_vars

-----------------------------------------------------------------------------
(* Properties                                                              *)

\* Type invariant: the fields of a Redis record and of the stream.
TypeOK ==
    /\ hash \in [Key -> Hash \cup {NoHash}]
    /\ status \in [Key -> Status]
    /\ owner \in [Key -> Owner \cup {NoOwner}]
    /\ fence \in [Key -> Nat]
    /\ lease \in [Key -> {"none", "live", "lapsed"}]
    /\ events \in [Key -> Seq(EventType)]
    /\ queue \in Seq(Key)
    /\ pel \in [Key -> Owner \cup {NoOwner}]
    /\ acked \in SUBSET Key
    /\ issued \in SUBSET Token
    /\ result \in [Key -> {"none"} \cup Outcomes]
    /\ author \in [Key -> Nat]

\* A token that the renew, transition and retry scripts accept is the newest
\* one issued for its resource, even when one worker holds several tokens of
\* that resource: a worker that lost its lease can write nothing.
StaleTokensPowerless ==
    \A t \in issued : Holds(t) =>
        \A u \in issued : u.key = t.key => u.fence <= t.fence

\* No two claims of one resource ever return the same fencing token, so the
\* token alone tells the attempts apart.
TokensUnique ==
    \A t, u \in issued : t.key = u.key /\ t.fence = u.fence => t = u

\* A resource whose result is final was closed by its newest lease holder:
\* the claim script hands out no lease after the result was written.
FinalByNewest ==
    \A k \in Key : status[k] \in ClaimTerminal =>
        /\ author[k] = fence[k]
        /\ \A t \in issued : t.key = k => t.fence <= author[k]

\* Only a running resource has an owner and a lease; a resource that is not
\* running can be claimed at once or never again.
LeaseOnlyWhileRunning ==
    \A k \in Key :
        /\ status[k] = "running" <=> owner[k] # NoOwner
        /\ status[k] # "running" => lease[k] = "none"

\* The admission entry of a resource is in exactly one place: waiting in the
\* stream, pending at a consumer, or acknowledged.  Admitting the same request
\* again adds no second entry, and no delivery loses it.
InQueue(k) == \E i \in DOMAIN queue : queue[i] = k

OneEntryPerAdmission ==
    /\ \A i, j \in DOMAIN queue : queue[i] = queue[j] => i = j
    /\ \A k \in Key :
        /\ status[k] = "absent" => ~InQueue(k) /\ pel[k] = NoOwner /\ k \notin acked
        /\ status[k] # "absent" =>
            \/ InQueue(k) /\ pel[k] = NoOwner /\ k \notin acked
            \/ ~InQueue(k) /\ pel[k] # NoOwner /\ k \notin acked
            \/ ~InQueue(k) /\ pel[k] = NoOwner /\ k \in acked

\* A final status, its result and its event stream never change again,
\* whatever late renewals, retries, transitions or claims arrive.
FinalStable ==
    [][\A k \in Key : status[k] \in ClaimTerminal =>
         /\ status'[k] = status[k]
         /\ result'[k] = result[k]
         /\ events'[k] = events[k]]_vars

\* The control plane implements the single-writer contract of FencedResource.
Phase(s) ==
    CASE s = "absent"         -> "absent"
      [] s = "running"        -> "held"
      [] s \in ClaimTerminal  -> "closed"
      [] OTHER                -> "open"

Contract == INSTANCE FencedResource WITH
    Final <- Outcomes \cap ClaimTerminal,
    Interim <- Outcomes \cap Parked,
    phase <- [k \in Key |-> Phase(status[k])],
    epoch <- fence

\* Every behaviour of the scripts is one the contract allows: one holder at a
\* time, writes by the newest epoch only, nothing after a final result.
ImplementsContract == Contract!Spec
=============================================================================
