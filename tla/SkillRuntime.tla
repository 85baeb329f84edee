---------------------------- MODULE SkillRuntime ----------------------------
(***************************************************************************)
(* SkillRuntime.invoke of pipelines/orchestrator/skill_runtime.py together *)
(* with the CacheStore of cache.py and the BudgetLedger: what one child    *)
(* call takes (a generation claim, a concurrency slot, a reservation), in  *)
(* which order, and what it hands back on every way out.                   *)
(*                                                                         *)
(* Calls run in parallel threads of one or several processes.  Every       *)
(* access to shared state (a cache query, the slot counter under its lock, *)
(* a ledger call) is one step, so the model interleaves calls exactly      *)
(* where the code can be interleaved.  pc[c] is the point of invoke that   *)
(* call c has reached.                                                     *)
(*                                                                         *)
(* The adapter, its response and the clock are the environment: a child    *)
(* answers with any status and usage, raises, or never answers; a claim or *)
(* a cache entry may reach its expiry at any moment.                       *)
(*                                                                         *)
(* So are failures: a call on the cache, on the shared ledger or on the    *)
(* event sink may raise, a cache or ledger call after or before it took    *)
(* effect.  Inside invoke's try the call then fails and is cleaned up; in  *)
(* front of it and in its finally block the exception leaves invoke with   *)
(* whatever the call holds ("escaped").  Which SkillResult or exception    *)
(* ends a call is its output, which no step reads: the actions name it in  *)
(* their comments, and a sink that raises where everything has been given  *)
(* back changes nothing else.                                              *)
(***************************************************************************)
EXTENDS Integers, FiniteSets

CONSTANTS
    Call,           \* invocations
    Run,            \* parent runs
    Proc,           \* runtime instances, one per process
    Fingerprint,    \* cache fingerprints
    RunOf,          \* [Call -> Run]
    ProcOf,         \* [Call -> Proc]
    PrintOf,        \* [Call -> Fingerprint]
    ParentPolicies, \* [Call -> SUBSET policy], what parent_context.policy may be
    ChildPolicy,    \* [Call -> policy], call.policy
    Answer,         \* responses a child may give: [status, passed, usage]
    UsageId,
    Unreliable,     \* SUBSET Call, the calls that may meet a failure (a bound)
    Meter, NoPolicy, NoLimit, Nil, Shared,
    Free,           \* no claim on the fingerprint
    NoEntry         \* no unexpired cache entry

VARIABLES
    policy, used, reserved, usedCost, reservedCost, active,
    held, issued, receipt, unsaved, lost,   \* the ledger
    pc,             \* [Call -> point of invoke]
    response,       \* [Call -> Answer \cup {Nil}], passed = quality_status
    parent,         \* [Call -> parent_context.policy], NoPolicy before the call
    cancelled,      \* SUBSET Run, parents whose cancel_event is set
    slots,          \* [Proc -> [Run -> Nat]], _active_by_parent
    claimant,       \* [Fingerprint -> Call \cup {Free}], cache_claims
    entry,          \* [Fingerprint -> Call \cup {NoEntry}], call that cached it
    lapsed          \* SUBSET Call, calls whose claim expired (history)

\* The reservation invoke asks for: the child's own policy, one child wide.
ReservationFor(c) ==
    [meter |-> ChildPolicy[c].limit,
     cost |-> IF ChildPolicy[c].max_cost = NoLimit THEN 0 ELSE ChildPolicy[c].max_cost,
     width |-> 1]

Ledger == INSTANCE BudgetLedger WITH
              Reservation <- Call,
              Policy <- UNION {ParentPolicies[c] : c \in Call},
              Claim <- {ReservationFor(c) : c \in Call},
              Usage <- {a.usage : a \in Answer}

ledger == <<policy, used, reserved, usedCost, reservedCost, active, held,
            issued, receipt, unsaved, lost>>
context == <<parent, cancelled>>
cache == <<claimant, entry, lapsed>>
vars == <<ledger, pc, response, context, slots, cache>>

Statuses == {"succeeded", "partial", "waiting", "failed"}

ASSUME CallAssumption == IsFiniteSet(Call) /\ Free \notin Call
ASSUME MapsAssumption ==
    /\ RunOf \in [Call -> Run]
    /\ ProcOf \in [Call -> Proc]
    /\ PrintOf \in [Call -> Fingerprint]
ASSUME PolicyAssumption ==
    /\ ParentPolicies \in [Call -> SUBSET Ledger!PolicyRecord]
    /\ ChildPolicy \in [Call -> Ledger!PolicyRecord]
    /\ NoPolicy \notin Ledger!PolicyRecord
    /\ NoLimit \notin Int
ASSUME AnswerAssumption ==
    Answer \subseteq [status : Statuses, passed : BOOLEAN, usage : Ledger!UsageRecord]
ASSUME NilAssumption ==
    /\ Nil \notin [run : Run, claim : Ledger!ClaimRecord]
    /\ Nil \notin [run : Run, usage : Ledger!UsageRecord]
    /\ Nil \notin Answer
ASSUME SharedAssumption == Shared \in BOOLEAN
ASSUME UnreliableAssumption == Unreliable \subseteq Call

Init ==
    /\ Ledger!Init
    /\ pc = [c \in Call |-> "idle"]
    /\ response = [c \in Call |-> Nil]
    /\ parent = [c \in Call |-> NoPolicy]
    /\ cancelled = {}
    /\ slots = [p \in Proc |-> [r \in Run |-> 0]]
    /\ claimant = [f \in Fingerprint |-> Free]
    /\ entry = [f \in Fingerprint |-> NoEntry]
    /\ lapsed = {}

At(c, here) == pc[c] = here
Go(c, there) == pc' = [pc EXCEPT ![c] = there]

-----------------------------------------------------------------------------
(* Admission of the call: policy, cache, slot, budget                      *)

\* _check_policy: the child may not ask for more than its parent has.
PolicyFits(child, p) ==
    /\ \A m \in Meter : child.limit[m] <= p.limit[m]
    /\ p.max_cost # NoLimit => child.max_cost # NoLimit /\ child.max_cost <= p.max_cost

\* _validate_call accepts the call.
Invoke(c) ==
    /\ At(c, "idle")
    /\ \E p \in ParentPolicies[c] :
          PolicyFits(ChildPolicy[c], p) /\ parent' = [parent EXCEPT ![c] = p]
    /\ Go(c, "look")
    /\ UNCHANGED <<ledger, response, cancelled, slots, cache>>

\* _validate_call raises: the policy does not fit, or the skill, its version, parent, depth,
\* trust tier, capabilities, tools, side effects or adapter are refused ("blocked").
Reject(c) ==
    /\ At(c, "idle")
    /\ Go(c, "done")
    /\ UNCHANGED <<ledger, response, context, slots, cache>>

\* cache_store.get: a hit is the result ("succeeded"); the claim is tried after a
\* miss.
Look(c) ==
    /\ At(c, "look")
    /\ \/ entry[PrintOf[c]] # NoEntry /\ Go(c, "done")
       \/ entry[PrintOf[c]] = NoEntry /\ Go(c, "claim")
    /\ UNCHANGED <<ledger, response, context, slots, cache>>

\* The fingerprint could not be computed, or the cache's database or Redis raised.
LookRaises(c) ==
    /\ At(c, "look")
    /\ Go(c, "done")
    /\ UNCHANGED <<ledger, response, context, slots, cache>>

\* Mutant: a claim is granted over an existing one.
ClaimableAnyway(f) == TRUE

Unclaimed(f) == claimant[f] = Free

\* try_claim; while another call generates the same, this one is told to come back
\* ("waiting").
TryClaim(c) ==
    LET f == PrintOf[c]
    IN  /\ At(c, "claim")
        /\ \/ /\ Unclaimed(f)
              /\ claimant' = [claimant EXCEPT ![f] = c]
              /\ Go(c, "slot")
           \/ /\ ~Unclaimed(f)
              /\ Go(c, "done")
              /\ UNCHANGED claimant
        /\ UNCHANGED <<ledger, response, context, slots, entry, lapsed>>

\* try_claim raised, the claim stored or not.  A claim stored so is nobody's to
\* drop: it stays until it expires.
TryClaimRaises(c) ==
    LET f == PrintOf[c]
    IN  /\ At(c, "claim")
        /\ \/ Unclaimed(f) /\ claimant' = [claimant EXCEPT ![f] = c]
           \/ UNCHANGED claimant
        /\ Go(c, "done")
        /\ UNCHANGED <<ledger, response, context, slots, entry, lapsed>>

SlotFree(c) == slots[ProcOf[c]][RunOf[c]] < parent[c].parallel

ReserveSlot(c) ==
    /\ At(c, "slot")
    /\ \/ /\ SlotFree(c)
          /\ slots' = [slots EXCEPT ![ProcOf[c]][RunOf[c]] = @ + 1]
          /\ Go(c, "register")
       \/ /\ ~SlotFree(c)
          /\ Go(c, "giveback")
          /\ UNCHANGED slots
    /\ UNCHANGED <<ledger, response, context, cache>>

\* Mutant: the claim is deleted whoever holds it.
DropAnyClaim(c) == claimant' = [claimant EXCEPT ![PrintOf[c]] = Free]

\* release_claim: deletes the claim only while this call is its owner.
DropClaim(c) ==
    claimant' = [claimant EXCEPT ![PrintOf[c]] = IF @ = c THEN Free ELSE @]

\* The way out when no slot was free ("blocked").
GiveBackClaim(c) ==
    /\ At(c, "giveback")
    /\ DropClaim(c)
    /\ Go(c, "done")
    /\ UNCHANGED <<ledger, response, context, slots, entry, lapsed>>

\* release_claim raised before the claim was dropped.
GiveBackClaimRaises(c) ==
    /\ At(c, "giveback")
    /\ Go(c, "done")
    /\ UNCHANGED <<ledger, response, context, slots, cache>>

Register(c) ==
    /\ At(c, "register")
    /\ \/ /\ Ledger!RegisterRun(RunOf[c], parent[c])
          /\ Go(c, "reserve")
       \/ /\ ~Ledger!Registrable(RunOf[c], parent[c])
          /\ Go(c, "refused")
          /\ UNCHANGED ledger
    /\ UNCHANGED <<response, context, slots, cache>>

Reserve(c) ==
    /\ At(c, "reserve")
    /\ \/ /\ Ledger!Reserve(RunOf[c], c, ReservationFor(c))
          /\ Go(c, "start")
       \/ /\ ~Ledger!Fits(RunOf[c], ReservationFor(c))
          /\ Go(c, "refused")
          /\ UNCHANGED ledger
    /\ UNCHANGED <<response, context, slots, cache>>

\* The shared ledger raised something other than a BudgetExceededError, after or
\* before it registered or reserved: nothing catches it, and the slot, the claim
\* and whatever was reserved stay.
AdmissionRaises(c) ==
    /\ Shared
    /\ \/ /\ At(c, "register")
          /\ Ledger!RegisterRun(RunOf[c], parent[c]) \/ UNCHANGED ledger
       \/ /\ At(c, "reserve")
          /\ Ledger!Reserve(RunOf[c], c, ReservationFor(c)) \/ UNCHANGED ledger
    /\ Go(c, "escaped")
    /\ UNCHANGED <<response, context, slots, cache>>

\* Mutant: the way out after a budget refusal keeps the slot.
FreeSlotNot(c) == UNCHANGED slots

FreeSlot(c) ==
    slots' = [slots EXCEPT ![ProcOf[c]][RunOf[c]] = IF @ <= 1 THEN 0 ELSE @ - 1]

\* The way out when the budget refused ("blocked"): the slot is returned, the
\* generation claim is not.
Refused(c) ==
    /\ At(c, "refused")
    /\ FreeSlot(c)
    /\ Go(c, "done")
    /\ UNCHANGED <<ledger, response, context, cache>>

-----------------------------------------------------------------------------
(* The child runs                                                          *)

\* The event sink raised at skill.started, in front of the try: slot, claim and
\* reservation stay.
StartRaises(c) ==
    /\ At(c, "start")
    /\ Go(c, "escaped")
    /\ UNCHANGED <<ledger, response, context, slots, cache>>

Start(c) ==
    /\ At(c, "start")
    /\ \/ RunOf[c] \in cancelled /\ Go(c, "finally")
       \/ RunOf[c] \notin cancelled /\ Go(c, "running")
    /\ UNCHANGED <<ledger, response, context, slots, cache>>

\* The adapter's response is taken from the result queue.
Respond(c, a) ==
    /\ At(c, "running")
    /\ response' = [response EXCEPT ![c] = a]
    /\ Go(c, "answered")
    /\ UNCHANGED <<ledger, context, slots, cache>>

\* except Exception ("failed"): the request could not be built, the adapter raised,
\* or the usage in its response is malformed.
Raise(c) ==
    /\ \/ pc[c] \in {"start", "running"}
       \/ At(c, "answered") /\ RunOf[c] \notin cancelled
    /\ Go(c, "finally")
    /\ UNCHANGED <<ledger, response, context, slots, cache>>

\* except Exception ("failed"): the shared ledger raised something other than a
\* BudgetExceededError where the call settles, the reservation released or not.
\* (A commit that took effect and raised is SaveReceiptRaises.)
SettleRaises(c) ==
    /\ Shared
    /\ \/ pc[c] \in {"running", "overrun"} /\ Ledger!Release(c)
       \/ At(c, "answered") /\ RunOf[c] \in cancelled /\ Ledger!Release(c)
       \/ pc[c] \in {"running", "overrun", "commit"} /\ UNCHANGED ledger
       \/ At(c, "answered") /\ RunOf[c] \in cancelled /\ UNCHANGED ledger
    /\ Go(c, "finally")
    /\ UNCHANGED <<response, context, slots, cache>>

\* The polling loop sees the parent's cancel_event.
SeeCancel(c) ==
    /\ At(c, "running")
    /\ RunOf[c] \in cancelled
    /\ Go(c, "answered")
    /\ UNCHANGED <<ledger, response, context, slots, cache>>

\* Mutant: the deadline is only looked at once the adapter has answered.
TimeoutAfterAnswer(c) ==
    /\ At(c, "running")
    /\ response[c] # Nil
    /\ Go(c, "unclaim")
    /\ UNCHANGED <<ledger, response, context, slots, cache>>

\* The deadline passed: the reservation is released, the child thread is left
\* ("failed").
Timeout(c) ==
    /\ At(c, "running")
    /\ Ledger!Release(c)
    /\ Go(c, "unclaim")
    /\ UNCHANGED <<response, context, slots, cache>>

\* After the response: a cancellation that came meanwhile wins ("cancelled").
AfterRun(c) ==
    /\ At(c, "answered")
    /\ \/ /\ RunOf[c] \in cancelled
          /\ Ledger!Release(c)
          /\ Go(c, "unclaim")
       \/ /\ RunOf[c] \notin cancelled
          /\ Go(c, "commit")
          /\ UNCHANGED ledger
    /\ UNCHANGED <<response, context, slots, cache>>

-----------------------------------------------------------------------------
(* Settlement, cache write and the finally block                           *)

Commit(c) ==
    LET u == response[c].usage
    IN  /\ At(c, "commit")
        /\ \/ Ledger!Commit(c, RunOf[c], u) /\ Go(c, IF Shared THEN "receipt" ELSE "publish")
           \/ ~Ledger!Covers(c, RunOf[c], u) /\ Go(c, "overrun") /\ UNCHANGED ledger
        /\ UNCHANGED <<response, context, slots, cache>>

\* Commit refused an overrun: the reservation is released ("failed").
Overrun(c) ==
    /\ At(c, "overrun")
    /\ Ledger!Release(c)
    /\ Go(c, "unclaim")
    /\ UNCHANGED <<response, context, slots, cache>>

\* usage_record of the shared ledger.
SaveReceipt(c) ==
    /\ At(c, "receipt")
    /\ Ledger!SaveReceipt(c)
    /\ Go(c, "publish")
    /\ UNCHANGED <<response, context, slots, cache>>

\* usage_record raised, the record stored or not, or the commit did after its
\* script ran: the call fails although its usage is charged.
SaveReceiptRaises(c) ==
    /\ At(c, "receipt")
    /\ Ledger!SaveReceipt(c) \/ Ledger!LoseReceipt(c)
    /\ Go(c, "finally")
    /\ UNCHANGED <<response, context, slots, cache>>

\* What _cache_success stores; the write may also fail.
Cacheable(c) == response[c].status = "succeeded" /\ response[c].passed

CachePut(c) ==
    \/ Cacheable(c) /\ entry' = [entry EXCEPT ![PrintOf[c]] = c]
    \/ UNCHANGED entry

\* _result_from_response and _cache_success: the response's status is the result,
\* also when the cache rejects the write.  The cache's database or Redis, after or
\* before it stored the entry, or the event sink may raise ("failed"), although
\* the usage is charged; what the call gives back is the same.
Publish(c) ==
    /\ At(c, "publish")
    /\ CachePut(c)
    /\ Go(c, "unclaim")
    /\ UNCHANGED <<ledger, response, context, slots, claimant, lapsed>>

\* Mutant: the finally block does not look at the reservation.
SettleNothing(c) == UNCHANGED ledger

\* finally, when budget_settled is not set: the reservation is released; one that
\* was settled after all is not found, which is passed over.
SettleLeft(c) ==
    IF held[c] # Nil THEN Ledger!Release(c) ELSE UNCHANGED ledger

Finally(c) ==
    /\ At(c, "finally")
    /\ SettleLeft(c)
    /\ Go(c, "unclaim")
    /\ UNCHANGED <<response, context, slots, cache>>

\* The shared ledger raised something other than a BudgetExceededError from the
\* finally block, the reservation released or not: the claim and the slot stay.
FinallyRaises(c) ==
    /\ At(c, "finally")
    /\ Shared
    /\ SettleLeft(c) \/ UNCHANGED ledger
    /\ Go(c, "escaped")
    /\ UNCHANGED <<response, context, slots, cache>>

Unclaim(c) ==
    /\ At(c, "unclaim")
    /\ DropClaim(c)
    /\ Go(c, "unslot")
    /\ UNCHANGED <<ledger, response, context, slots, entry, lapsed>>

\* release_claim raised from the finally block, the claim dropped or not: the slot
\* stays.
UnclaimRaises(c) ==
    /\ At(c, "unclaim")
    /\ DropClaim(c) \/ UNCHANGED claimant
    /\ Go(c, "escaped")
    /\ UNCHANGED <<ledger, response, context, slots, entry, lapsed>>

Unslot(c) ==
    /\ At(c, "unslot")
    /\ FreeSlot(c)
    /\ Go(c, "done")
    /\ UNCHANGED <<ledger, response, context, cache>>

-----------------------------------------------------------------------------
(* Environment                                                             *)

\* The parent is cancelled while any of its children has not finished.
CancelParent(r) ==
    /\ r \notin cancelled
    /\ cancelled' = cancelled \cup {r}
    /\ UNCHANGED <<ledger, pc, response, parent, slots, cache>>

\* The claim's lease_seconds pass; its owner may still be generating.
Lapse(f) ==
    /\ claimant[f] # Free
    /\ lapsed' = lapsed \cup {claimant[f]}
    /\ claimant' = [claimant EXCEPT ![f] = Free]
    /\ UNCHANGED <<ledger, pc, response, context, slots, entry>>

\* The entry's TTL passes, or invalidate / cleanup_expired removes it.
Evict(f) ==
    /\ entry[f] # NoEntry
    /\ entry' = [entry EXCEPT ![f] = NoEntry]
    /\ UNCHANGED <<ledger, pc, response, context, slots, claimant, lapsed>>

\* Steps the runtime takes by itself once the call is under way; a child that
\* never answers is ended by Timeout.
Proceed(c) ==
    \/ Look(c) \/ TryClaim(c) \/ ReserveSlot(c) \/ GiveBackClaim(c)
    \/ Register(c) \/ Reserve(c) \/ Refused(c)
    \/ Start(c) \/ SeeCancel(c) \/ Timeout(c) \/ AfterRun(c)
    \/ Commit(c) \/ Overrun(c) \/ SaveReceipt(c) \/ Publish(c)
    \/ Finally(c) \/ Unclaim(c) \/ Unslot(c)

\* A call on the cache, the shared ledger or the event sink raises.
CallRaises(c) ==
    \/ LookRaises(c) \/ TryClaimRaises(c) \/ GiveBackClaimRaises(c)
    \/ AdmissionRaises(c) \/ StartRaises(c) \/ SettleRaises(c)
    \/ SaveReceiptRaises(c) \/ FinallyRaises(c) \/ UnclaimRaises(c)

Next ==
    \/ \E c \in Call : Invoke(c) \/ Reject(c) \/ Proceed(c) \/ Raise(c)
    \/ \E c \in Unreliable : CallRaises(c)
    \/ \E c \in Call, a \in Answer : Respond(c, a)
    \/ \E r \in Run : CancelParent(r)
    \/ \E f \in Fingerprint : Lapse(f) \/ Evict(f)

Spec == Init /\ [][Next]_vars

FairSpec == Spec /\ \A c \in Call : WF_vars(Proceed(c))

-----------------------------------------------------------------------------
(* Properties                                                              *)

Points == {"idle", "look", "claim", "slot", "giveback", "register", "reserve",
           "refused", "start", "running", "answered", "commit", "overrun",
           "receipt", "publish", "finally", "unclaim", "unslot", "done", "escaped"}

\* Type invariant of the ledger, the calls, the slots and the cache.
TypeOK ==
    /\ Ledger!TypeOK
    /\ pc \in [Call -> Points]
    /\ response \in [Call -> Answer \cup {Nil}]
    /\ parent \in [Call -> (UNION {ParentPolicies[c] : c \in Call}) \cup {NoPolicy}]
    /\ cancelled \in SUBSET Run
    /\ slots \in [Proc -> [Run -> Nat]]
    /\ claimant \in [Fingerprint -> Call \cup {Free}]
    /\ entry \in [Fingerprint -> Call \cup {NoEntry}]
    /\ lapsed \in SUBSET Call

AtWork(c) == pc[c] \in {"start", "running", "answered", "commit", "overrun"}

\* Two calls generate the same fingerprint at once only after a claim lapsed:
\* the claim a call takes before it reserves is still its own while its child
\* runs, whatever the other calls release in the meantime.
OneGenerator ==
    \A c, d \in Call :
        c # d /\ AtWork(c) /\ AtWork(d) /\ PrintOf[c] = PrintOf[d]
            => c \in lapsed \/ d \in lapsed

\* The children of a run that are at work never exceed its
\* max_parallel_children, even when several processes, each counting its own
\* slots, run children of the same parent.
ChildrenBounded ==
    \A c \in Call : AtWork(c) =>
        Cardinality({d \in Call : AtWork(d) /\ RunOf[d] = RunOf[c]}) <= parent[c].parallel

\* The slot counter of a process counts its calls between _reserve_slot and
\* _release_slot and those that ended there by an exception nothing caught (from
\* register_run or reserve, skill.started, or release or release_claim in the
\* finally block): every other way out of invoke returns its slot, and none
\* returns one twice, so what is missing for good is what escaped.
SlotsExact ==
    \A p \in Proc, r \in Run :
        slots[p][r] = Cardinality({c \in Call :
            /\ ProcOf[c] = p /\ RunOf[c] = r
            /\ pc[c] \in Points \ {"idle", "look", "claim", "slot", "giveback", "done"}})

\* A call that has ended with its slot returned holds no reservation, whatever
\* raised on the way, and the budget it had reserved is free again: with no call
\* at work and none escaped, nothing is reserved.
ReservationsReturned ==
    /\ \A c \in Call : pc[c] = "done" => held[c] = Nil
    /\ (\A c \in Call : pc[c] \in {"idle", "done"}) =>
           \A r \in Run : active[r] = 0 /\ \A m \in Meter : reserved[r][m] = 0

\* Only the call that owns a claim, or its expiry, removes it: a call that
\* overran its own claim never drops the claim of the call that succeeded it.
ClaimKeptForOwner ==
    [][\A f \in Fingerprint, c \in Call :
          claimant[f] = c /\ claimant'[f] # c => pc'[c] # pc[c] \/ c \in lapsed']_vars

\* Every call that got past validation returns or raises, even when its adapter
\* never answers: a call is made once, and again and again none is under way.
EveryCallReturns == []<>(\A c \in Call : pc[c] \in {"idle", "done", "escaped"})

=============================================================================
