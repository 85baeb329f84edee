---------------------------- MODULE BudgetLedger ----------------------------
(***************************************************************************)
(* BudgetController of pipelines/orchestrator/budget.py with both of its   *)
(* backends: the in-process ledger (one lock) and the Redis scripts of     *)
(* api/control_plane.py (one script per call).  A parent run's policy      *)
(* bounds what its children, who reserve before they work and commit or    *)
(* release afterwards, can have used and reserved together.                *)
(*                                                                         *)
(* The two backends take the same decisions, so they share the actions;    *)
(* they differ in the usage receipt.  Locally it is appended under the     *)
(* same lock as the commit; with the shared ledger it is a second command  *)
(* after the commit script, and the worker can die or fail between the     *)
(* two: the usage is charged and its record is never stored.               *)
(*                                                                         *)
(* A rejected call raises and changes nothing, so it is no step here: the  *)
(* predicates Registrable, Fits and Covers say when a call is accepted.    *)
(***************************************************************************)
EXTENDS Integers, FiniteSets, FiniteSetsExt

CONSTANTS
    Run,            \* parent runs
    Reservation,    \* reservation ids; uuid4, so each is issued at most once
    Meter,          \* the meters with a mandatory limit: tokens, calls, wall time
    Policy,         \* policies a run may be registered with
    Claim,          \* what a caller may ask to reserve
    Usage,          \* what a child may report
    UsageId,        \* usage_id values; an adapter may supply one it used before
    NoPolicy,       \* the run is not registered
    NoLimit,        \* RunPolicy.max_cost = None
    Nil,            \* no reservation, no receipt
    Shared          \* BOOLEAN: Redis ledger (TRUE) or in-process ledger

PolicyRecord == [limit : [Meter -> Nat], max_cost : Nat \cup {NoLimit}, parallel : Nat]
ClaimRecord == [meter : [Meter -> Nat], cost : Nat, width : Nat]
UsageRecord == [id : UsageId, meter : [Meter -> Nat], cost : Nat]

ASSUME PolicyAssumption == Policy \subseteq PolicyRecord /\ NoPolicy \notin PolicyRecord
ASSUME ClaimAssumption == Claim \subseteq ClaimRecord
ASSUME UsageAssumption == Usage \subseteq UsageRecord
ASSUME NilAssumption == Nil \notin [run : Run, claim : ClaimRecord]
                     /\ Nil \notin [run : Run, usage : UsageRecord]
ASSUME NoLimitAssumption == NoLimit \notin Int
ASSUME SharedAssumption == Shared \in BOOLEAN

VARIABLES
    policy,         \* [Run -> Policy \cup {NoPolicy}]
    used,           \* [Run -> [Meter -> Int]], committed usage
    reserved,       \* [Run -> [Meter -> Int]], outstanding reservations
    usedCost,       \* [Run -> Int]
    reservedCost,   \* [Run -> Int]
    active,         \* [Run -> Int], active_concurrency
    held,           \* [Reservation -> [run, claim] or Nil], stored reservations
    issued,         \* SUBSET Reservation, ids handed out
    receipt,        \* [Reservation -> [run, usage] or Nil], usage records stored
    unsaved,        \* [Reservation -> [run, usage] or Nil], committed, not stored
    lost            \* SUBSET Reservation, unsaved records nobody will store any more

amounts == <<used, reserved, usedCost, reservedCost, active>>
receipts == <<receipt, unsaved, lost>>
ledger == <<policy, used, reserved, usedCost, reservedCost, active, held,
            issued, receipts>>

Init ==
    /\ policy = [r \in Run |-> NoPolicy]
    /\ used = [r \in Run |-> [m \in Meter |-> 0]]
    /\ reserved = [r \in Run |-> [m \in Meter |-> 0]]
    /\ usedCost = [r \in Run |-> 0]
    /\ reservedCost = [r \in Run |-> 0]
    /\ active = [r \in Run |-> 0]
    /\ held = [i \in Reservation |-> Nil]
    /\ issued = {}
    /\ receipt = [i \in Reservation |-> Nil]
    /\ unsaved = [i \in Reservation |-> Nil]
    /\ lost = {}

-----------------------------------------------------------------------------
(* register_run                                                            *)

\* Mutant: the stored policy is not compared with the new one.
RegistrableAgain(r, p) == TRUE

\* The run is new, or is registered again with the policy it has.
Registrable(r, p) == policy[r] \in {NoPolicy, p}

RegisterRun(r, p) ==
    /\ Registrable(r, p)
    /\ policy' = [policy EXCEPT ![r] = p]
    /\ UNCHANGED <<used, reserved, usedCost, reservedCost, active, held,
                   issued, receipts>>

-----------------------------------------------------------------------------
(* reserve                                                                 *)

\* Mutant: the check looks at committed usage only.
FitsUsedOnly(r, c) ==
    /\ policy[r] # NoPolicy
    /\ \A m \in Meter : used[r][m] + c.meter[m] <= policy[r].limit[m]
    /\ active[r] + c.width <= policy[r].parallel

\* Mutant: the children already at work are not counted.
FitsAnyWidth(r, c) ==
    /\ policy[r] # NoPolicy
    /\ \A m \in Meter :
           used[r][m] + reserved[r][m] + c.meter[m] <= policy[r].limit[m]

Fits(r, c) ==
    /\ policy[r] # NoPolicy
    /\ \A m \in Meter :
           used[r][m] + reserved[r][m] + c.meter[m] <= policy[r].limit[m]
    /\ policy[r].max_cost # NoLimit =>
           usedCost[r] + reservedCost[r] + c.cost <= policy[r].max_cost
    /\ active[r] + c.width <= policy[r].parallel

Reserve(r, i, c) ==
    /\ i \notin issued
    /\ Fits(r, c)
    /\ issued' = issued \cup {i}
    /\ held' = [held EXCEPT ![i] = [run |-> r, claim |-> c]]
    /\ reserved' = [reserved EXCEPT ![r] = [m \in Meter |-> @[m] + c.meter[m]]]
    /\ reservedCost' = [reservedCost EXCEPT ![r] = @ + c.cost]
    /\ active' = [active EXCEPT ![r] = @ + c.width]
    /\ UNCHANGED <<policy, used, usedCost, receipts>>

-----------------------------------------------------------------------------
(* commit and release                                                      *)

\* Mutant: the reservation's concurrency stays counted.
GiveBackKeepingWidth(i) ==
    LET r == held[i].run
        c == held[i].claim
    IN  /\ held' = [held EXCEPT ![i] = Nil]
        /\ reserved' = [reserved EXCEPT ![r] = [m \in Meter |-> @[m] - c.meter[m]]]
        /\ reservedCost' = [reservedCost EXCEPT ![r] = @ - c.cost]
        /\ UNCHANGED active

\* _release_reserved, and the reservation is forgotten.
GiveBack(i) ==
    LET r == held[i].run
        c == held[i].claim
    IN  /\ held' = [held EXCEPT ![i] = Nil]
        /\ reserved' = [reserved EXCEPT ![r] = [m \in Meter |-> @[m] - c.meter[m]]]
        /\ reservedCost' = [reservedCost EXCEPT ![r] = @ - c.cost]
        /\ active' = [active EXCEPT ![r] = @ - c.width]

\* The usage stays within the reservation.  Cost is compared only when some
\* cost was reserved.
Covers(i, r, u) ==
    /\ held[i] # Nil
    /\ held[i].run = r
    /\ \A m \in Meter : u.meter[m] <= held[i].claim.meter[m]
    /\ held[i].claim.cost > 0 => u.cost <= held[i].claim.cost

\* Mutant: the receipt is stored but the counters do not move.
ChargeNothing(r, u) == UNCHANGED <<used, usedCost>>

Charge(r, u) ==
    /\ used' = [used EXCEPT ![r] = [m \in Meter |-> @[m] + u.meter[m]]]
    /\ usedCost' = [usedCost EXCEPT ![r] = @ + u.cost]

\* The in-process ledger appends the usage record under the commit's lock; the
\* commit script of the shared one leaves it to usage_record.
FileReceipt(i, r, u) ==
    LET entry == [run |-> r, usage |-> u]
    IN  IF Shared
        THEN unsaved' = [unsaved EXCEPT ![i] = entry] /\ UNCHANGED receipt
        ELSE receipt' = [receipt EXCEPT ![i] = entry] /\ UNCHANGED unsaved

Commit(i, r, u) ==
    /\ Covers(i, r, u)
    /\ GiveBack(i)
    /\ Charge(r, u)
    /\ FileReceipt(i, r, u)
    /\ UNCHANGED <<policy, issued, lost>>

\* usage_record: RPUSH to the run's usage list.
SaveReceipt(i) ==
    /\ unsaved[i] # Nil /\ i \notin lost
    /\ receipt' = [receipt EXCEPT ![i] = unsaved[i]]
    /\ unsaved' = [unsaved EXCEPT ![i] = Nil]
    /\ UNCHANGED <<policy, amounts, held, issued, lost>>

\* The worker dies, or the push fails, between the commit script and the end of
\* usage_record: nothing retries it, so the record will never be in the list.
LoseReceipt(i) ==
    /\ unsaved[i] # Nil /\ i \notin lost
    /\ lost' = lost \cup {i}
    /\ UNCHANGED <<policy, amounts, held, issued, receipt, unsaved>>

Release(i) ==
    /\ held[i] # Nil
    /\ GiveBack(i)
    /\ UNCHANGED <<policy, used, usedCost, issued, receipts>>

Next ==
    \/ \E r \in Run, p \in Policy : RegisterRun(r, p)
    \/ \E r \in Run, i \in Reservation, c \in Claim : Reserve(r, i, c)
    \/ \E i \in Reservation, r \in Run, u \in Usage : Commit(i, r, u)
    \/ \E i \in Reservation : SaveReceipt(i) \/ LoseReceipt(i) \/ Release(i)

Spec == Init /\ [][Next]_ledger

-----------------------------------------------------------------------------
(* Properties                                                              *)

\* Type invariant: the counters, reservations and usage records of the ledger.
TypeOK ==
    /\ policy \in [Run -> Policy \cup {NoPolicy}]
    /\ used \in [Run -> [Meter -> Int]]
    /\ reserved \in [Run -> [Meter -> Int]]
    /\ usedCost \in [Run -> Int]
    /\ reservedCost \in [Run -> Int]
    /\ active \in [Run -> Int]
    /\ held \in [Reservation -> [run : Run, claim : Claim] \cup {Nil}]
    /\ issued \in SUBSET Reservation
    /\ receipt \in [Reservation -> [run : Run, usage : Usage] \cup {Nil}]
    /\ unsaved \in [Reservation -> [run : Run, usage : Usage] \cup {Nil}]
    /\ lost \in SUBSET Reservation

Registered == {r \in Run : policy[r] # NoPolicy}
Open(r) == {i \in Reservation : held[i] # Nil /\ held[i].run = r}
Receipts(r) == {i \in Reservation : receipt[i] # Nil /\ receipt[i].run = r}
Unsaved(r) == {i \in Reservation : unsaved[i] # Nil /\ unsaved[i].run = r}

\* The sum of the values of a function.
Total(f) == MapThenSumSet(LAMBDA i : f[i], DOMAIN f)

\* The records reconciliation() may report of a run: of those that share a
\* usage_id it keeps one, the first in the list, whichever child that was.
Reports(r) ==
    {S \in SUBSET Receipts(r) :
        /\ \A i, j \in S : receipt[i].usage.id = receipt[j].usage.id => i = j
        /\ \A i \in Receipts(r) : \E j \in S : receipt[j].usage.id = receipt[i].usage.id}

\* No two children of the run reported under one usage_id.
DistinctIds(r) ==
    \A i, j \in Receipts(r) : receipt[i].usage.id = receipt[j].usage.id => i = j

\* Whatever the order in which concurrent children reserve, overlap and settle,
\* what the run has used plus what is still reserved never exceeds a metered
\* limit of its policy (tokens, tool calls, wall time; a cost may overrun), and
\* its children never exceed max_parallel_children.
NoOverspend ==
    \A r \in Registered :
        /\ \A m \in Meter : used[r][m] + reserved[r][m] <= policy[r].limit[m]
        /\ active[r] <= policy[r].parallel

\* The counters that reserve consults equal what the open reservations add up
\* to: no path of commit and release returns too much or too little, so no
\* budget is lost and none is invented.
CountersMatchOpen ==
    \A r \in Run :
        /\ \A m \in Meter :
               reserved[r][m] = Total([i \in Open(r) |-> held[i].claim.meter[m]])
        /\ reservedCost[r] = Total([i \in Open(r) |-> held[i].claim.cost])
        /\ active[r] = Total([i \in Open(r) |-> held[i].claim.width])

\* reconciliation() never reports more than the run was charged for, although
\* records may be lost between the commit and the push and a usage_id may be used
\* twice; and its report is exact as soon as every committed record is in the
\* list and no usage_id is shared.
ReportWithinUsed ==
    \A r \in Run : \A S \in Reports(r), m \in Meter :
        LET told == Total([i \in S |-> receipt[i].usage.meter[m]])
        IN  /\ told <= used[r][m]
            /\ Unsaved(r) = {} /\ DistinctIds(r) => told = used[r][m]

\* A later registration never replaces the policy a run's children were admitted
\* under, and no reservation, commit or release takes committed usage back.
CommitmentsKept ==
    [][\A r \in Run :
          /\ policy[r] # NoPolicy => policy'[r] = policy[r]
          /\ \A m \in Meter : used'[r][m] >= used[r][m]]_ledger

=============================================================================
