------------------------- MODULE SkillRuntimeProofs -------------------------
(***************************************************************************)
(* Proofs about SkillRuntime for any set of calls, runs, processes,        *)
(* fingerprints, policies and answers, and wherever calls on the cache,    *)
(* the shared ledger or the event sink raise.                              *)
(*                                                                         *)
(* invoke takes three things (a claim, a slot, a reservation) and has some *)
(* twenty ways out.  For each of the three an invariant says which points  *)
(* of invoke hold it; that the calls interleave safely then follows from   *)
(* what each shared step checks before it takes or returns one.            *)
(***************************************************************************)
EXTENDS SkillRuntime, FiniteSetTheorems, TLAPS

\* The points that hold a generation claim, a slot, a reservation.
Claiming == {"slot", "giveback", "register", "reserve", "refused", "start", "running",
             "answered", "commit", "overrun", "receipt", "publish", "finally", "unclaim"}
Slotted == Points \ {"idle", "look", "claim", "slot", "giveback", "done"}
Working == {"start", "running", "answered", "commit", "overrun"}

\* The steps of call c, and the steps that are not a call's.
Moves(c) ==
    \/ Invoke(c) \/ Reject(c) \/ Proceed(c) \/ Raise(c) \/ CallRaises(c)
    \/ \E a \in Answer : Respond(c, a)

LEMMA NextMoves ==
    ASSUME [Next]_vars
    PROVE  \/ \E c \in Call : Moves(c)
           \/ \E r \in Run : CancelParent(r)
           \/ \E f \in Fingerprint : Lapse(f) \/ Evict(f)
           \/ UNCHANGED vars
BY UnreliableAssumption DEF Next, Moves

-----------------------------------------------------------------------------
(* Generation claims                                                       *)

\* A call past its claim still owns it, or its claim lapsed.
ClaimInv ==
    /\ pc \in [Call -> Points]
    /\ claimant \in [Fingerprint -> Call \cup {Free}]
    /\ \A c \in Call : pc[c] \in Claiming => claimant[PrintOf[c]] = c \/ c \in lapsed

\* A step of call c leaves the claims alone, takes an unclaimed fingerprint, or
\* drops the call's own claim on its way out.
LEMMA ClaimMoves ==
    ASSUME NEW c \in Call, pc \in [Call -> Points],
           Moves(c)
    PROVE  /\ lapsed' = lapsed
           /\ \E there \in Points :
                /\ pc' = [pc EXCEPT ![c] = there]
                /\ there # pc[c]
                /\ \/ claimant' = claimant /\ (there \in Claiming => pc[c] \in Claiming)
                   \/ /\ Unclaimed(PrintOf[c])
                      /\ claimant' = [claimant EXCEPT ![PrintOf[c]] = c]
                   \/ DropClaim(c) /\ there \notin Claiming
<1> USE DEF At, Go, Points, Claiming, cache
<1>1. CASE Invoke(c)
  BY <1>1 DEF Invoke
<1>2. CASE Reject(c)
  BY <1>2 DEF Reject
<1>3. CASE Raise(c)
  BY <1>3 DEF Raise
<1>4. CASE CallRaises(c)
  <2>1. CASE LookRaises(c)
    BY <2>1 DEF LookRaises
  <2>2. CASE TryClaimRaises(c)
    BY <2>2 DEF TryClaimRaises
  <2>3. CASE GiveBackClaimRaises(c)
    BY <2>3 DEF GiveBackClaimRaises
  <2>4. CASE AdmissionRaises(c)
    BY <2>4 DEF AdmissionRaises
  <2>5. CASE StartRaises(c)
    BY <2>5 DEF StartRaises
  <2>6. CASE SettleRaises(c)
    BY <2>6 DEF SettleRaises
  <2>7. CASE SaveReceiptRaises(c)
    BY <2>7 DEF SaveReceiptRaises
  <2>8. CASE FinallyRaises(c)
    BY <2>8 DEF FinallyRaises
  <2>9. CASE UnclaimRaises(c)
    BY <2>9 DEF UnclaimRaises
  <2> QED BY <1>4, <2>1, <2>2, <2>3, <2>4, <2>5, <2>6, <2>7, <2>8, <2>9 DEF CallRaises
<1>5. CASE \E a \in Answer : Respond(c, a)
  BY <1>5 DEF Respond
<1>6. CASE Look(c)
  BY <1>6 DEF Look
<1>7. CASE TryClaim(c)
  BY <1>7 DEF TryClaim
<1>8. CASE ReserveSlot(c)
  BY <1>8 DEF ReserveSlot
<1>9. CASE GiveBackClaim(c)
  BY <1>9 DEF GiveBackClaim
<1>10. CASE Register(c)
  BY <1>10 DEF Register
<1>11. CASE Reserve(c)
  BY <1>11 DEF Reserve
<1>12. CASE Refused(c)
  BY <1>12 DEF Refused
<1>13. CASE Start(c)
  BY <1>13 DEF Start
<1>14. CASE SeeCancel(c)
  BY <1>14 DEF SeeCancel
<1>15. CASE Timeout(c)
  BY <1>15 DEF Timeout
<1>16. CASE AfterRun(c)
  BY <1>16 DEF AfterRun
<1>17. CASE Commit(c)
  BY <1>17 DEF Commit
<1>18. CASE Overrun(c)
  BY <1>18 DEF Overrun
<1>19. CASE SaveReceipt(c)
  BY <1>19 DEF SaveReceipt
<1>20. CASE Publish(c)
  BY <1>20 DEF Publish
<1>21. CASE Finally(c)
  BY <1>21 DEF Finally
<1>22. CASE Unclaim(c)
  BY <1>22 DEF Unclaim
<1>23. CASE Unslot(c)
  BY <1>23 DEF Unslot
<1> QED
  BY <1>1, <1>2, <1>3, <1>4, <1>5, <1>6, <1>7, <1>8, <1>9, <1>10, <1>11, <1>12, <1>13, <1>14, <1>15, <1>16, <1>17, <1>18, <1>19, <1>20, <1>21, <1>22, <1>23
     DEF Proceed, Moves

LEMMA ClaimStep == ClaimInv /\ [Next]_vars => ClaimInv'
<1> SUFFICES ASSUME ClaimInv, [Next]_vars PROVE ClaimInv'
  OBVIOUS
<1> USE CallAssumption, MapsAssumption DEF ClaimInv
<1>1. ASSUME NEW c \in Call,
             Moves(c)
      PROVE  ClaimInv'
  <2>1. lapsed' = lapsed
    BY <1>1, ClaimMoves
  <2>2. PICK there \in Points :
                /\ pc' = [pc EXCEPT ![c] = there]
                /\ \/ claimant' = claimant /\ (there \in Claiming => pc[c] \in Claiming)
                   \/ /\ Unclaimed(PrintOf[c])
                      /\ claimant' = [claimant EXCEPT ![PrintOf[c]] = c]
                   \/ DropClaim(c) /\ there \notin Claiming
    BY <1>1, ClaimMoves
  <2>3. pc' \in [Call -> Points] /\ \A d \in Call : pc'[d] = IF d = c THEN there ELSE pc[d]
    BY <2>2
  <2>4. CASE claimant' = claimant /\ (there \in Claiming => pc[c] \in Claiming)
    BY <2>1, <2>3, <2>4
  <2>5. CASE Unclaimed(PrintOf[c]) /\ claimant' = [claimant EXCEPT ![PrintOf[c]] = c]
    BY <2>1, <2>3, <2>5 DEF Unclaimed
  <2>6. CASE DropClaim(c) /\ there \notin Claiming
    BY <2>1, <2>3, <2>6 DEF DropClaim
  <2> QED BY <2>2, <2>4, <2>5, <2>6
<1>2. ASSUME NEW f \in Fingerprint, Lapse(f) PROVE ClaimInv'
  BY <1>2 DEF Lapse
<1>3. ASSUME UNCHANGED <<pc, claimant, lapsed>> PROVE ClaimInv'
  BY <1>3
<1>4. ASSUME NEW r \in Run, CancelParent(r) PROVE ClaimInv'
  BY <1>3, <1>4 DEF CancelParent, cache
<1>5. ASSUME NEW f \in Fingerprint, Evict(f) PROVE ClaimInv'
  BY <1>3, <1>5 DEF Evict
<1>6. ASSUME UNCHANGED vars PROVE ClaimInv'
  BY <1>3, <1>6 DEF vars, cache
<1> QED BY <1>1, <1>2, <1>4, <1>5, <1>6, NextMoves

LEMMA ClaimInit == Init => ClaimInv
BY DEF Init, ClaimInv, Points, Claiming

\* Two calls generate one fingerprint at the same time only after a claim lapsed,
\* for any number of calls in any number of processes.
THEOREM SingleGenerator == Spec => []OneGenerator
<1>1. ClaimInv => OneGenerator
  BY DEF ClaimInv, OneGenerator, AtWork, Claiming
<1> QED BY <1>1, ClaimInit, ClaimStep, PTL DEF Spec

\* release_claim and expiry are the only ways a claim disappears: no call drops or
\* replaces the claim another call holds.
THEOREM ClaimsKept == Spec => ClaimKeptForOwner
<1> DEFINE Kept == \A f \in Fingerprint, c \in Call :
              claimant[f] = c /\ claimant'[f] # c => pc'[c] # pc[c] \/ c \in lapsed'
<1>1. ASSUME ClaimInv, [Next]_vars PROVE [Kept]_vars
  <2> USE <1>1, CallAssumption, MapsAssumption DEF ClaimInv
  <2>1. ASSUME NEW c \in Call,
               Moves(c)
        PROVE  Kept
    <3>1. PICK there \in Points :
                  /\ pc' = [pc EXCEPT ![c] = there]
                  /\ there # pc[c]
                  /\ \/ claimant' = claimant
                     \/ /\ Unclaimed(PrintOf[c])
                        /\ claimant' = [claimant EXCEPT ![PrintOf[c]] = c]
                     \/ DropClaim(c)
      BY <2>1, ClaimMoves
    <3>2. pc'[c] # pc[c]
      BY <3>1
    <3>3. \A f \in Fingerprint : \/ claimant'[f] = claimant[f]
                                 \/ claimant[f] = Free
                                 \/ claimant[f] = c
      BY <3>1 DEF Unclaimed, DropClaim
    <3> QED BY <3>2, <3>3
  <2>2. ASSUME NEW f \in Fingerprint, Lapse(f) PROVE Kept
    BY <2>2 DEF Lapse
  <2>3. ASSUME claimant' = claimant PROVE Kept
    BY <2>3
  <2>4. ASSUME NEW r \in Run, CancelParent(r) PROVE Kept
    BY <2>3, <2>4 DEF CancelParent, cache
  <2>5. ASSUME NEW f \in Fingerprint, Evict(f) PROVE Kept
    BY <2>3, <2>5 DEF Evict
  <2>6. ASSUME UNCHANGED vars PROVE [Kept]_vars
    BY <2>6
  <2> HIDE DEF Kept
  <2> QED BY <1>1, <2>1, <2>2, <2>4, <2>5, <2>6, NextMoves
<1> QED BY <1>1, ClaimInit, ClaimStep, PTL DEF Spec, ClaimKeptForOwner

-----------------------------------------------------------------------------
(* Slots                                                                   *)

SlotHolders(p, r) == {c \in Call : ProcOf[c] = p /\ RunOf[c] = r /\ pc[c] \in Slotted}

TakeSlot(c) == slots' = [slots EXCEPT ![ProcOf[c]][RunOf[c]] = @ + 1]

SlotInv ==
    /\ pc \in [Call -> Points]
    /\ slots \in [Proc -> [Run -> Nat]]
    /\ \A p \in Proc, r \in Run : slots[p][r] = Cardinality(SlotHolders(p, r))

\* A step of call c takes a slot exactly when it enters the points that hold one,
\* and returns it exactly when it leaves them.
LEMMA SlotMoves ==
    ASSUME NEW c \in Call, pc \in [Call -> Points],
           Moves(c)
    PROVE  \E there \in Points :
                /\ pc' = [pc EXCEPT ![c] = there]
                /\ \/ slots' = slots /\ (there \in Slotted <=> pc[c] \in Slotted)
                   \/ TakeSlot(c) /\ there \in Slotted /\ pc[c] \notin Slotted
                   \/ FreeSlot(c) /\ there \notin Slotted /\ pc[c] \in Slotted
<1> USE DEF At, Go, Points, Slotted
<1>1. CASE Invoke(c)
  BY <1>1 DEF Invoke
<1>2. CASE Reject(c)
  BY <1>2 DEF Reject
<1>3. CASE Raise(c)
  BY <1>3 DEF Raise
<1>4. CASE CallRaises(c)
  <2>1. CASE LookRaises(c)
    BY <2>1 DEF LookRaises
  <2>2. CASE TryClaimRaises(c)
    BY <2>2 DEF TryClaimRaises
  <2>3. CASE GiveBackClaimRaises(c)
    BY <2>3 DEF GiveBackClaimRaises
  <2>4. CASE AdmissionRaises(c)
    BY <2>4 DEF AdmissionRaises
  <2>5. CASE StartRaises(c)
    BY <2>5 DEF StartRaises
  <2>6. CASE SettleRaises(c)
    BY <2>6 DEF SettleRaises
  <2>7. CASE SaveReceiptRaises(c)
    BY <2>7 DEF SaveReceiptRaises
  <2>8. CASE FinallyRaises(c)
    BY <2>8 DEF FinallyRaises
  <2>9. CASE UnclaimRaises(c)
    BY <2>9 DEF UnclaimRaises
  <2> QED BY <1>4, <2>1, <2>2, <2>3, <2>4, <2>5, <2>6, <2>7, <2>8, <2>9 DEF CallRaises
<1>5. CASE \E a \in Answer : Respond(c, a)
  BY <1>5 DEF Respond
<1>6. CASE Look(c)
  BY <1>6 DEF Look
<1>7. CASE TryClaim(c)
  BY <1>7 DEF TryClaim
<1>8. CASE ReserveSlot(c)
  BY <1>8 DEF ReserveSlot, TakeSlot
<1>9. CASE GiveBackClaim(c)
  BY <1>9 DEF GiveBackClaim
<1>10. CASE Register(c)
  BY <1>10 DEF Register
<1>11. CASE Reserve(c)
  BY <1>11 DEF Reserve
<1>12. CASE Refused(c)
  BY <1>12 DEF Refused
<1>13. CASE Start(c)
  BY <1>13 DEF Start
<1>14. CASE SeeCancel(c)
  BY <1>14 DEF SeeCancel
<1>15. CASE Timeout(c)
  BY <1>15 DEF Timeout
<1>16. CASE AfterRun(c)
  BY <1>16 DEF AfterRun
<1>17. CASE Commit(c)
  BY <1>17 DEF Commit
<1>18. CASE Overrun(c)
  BY <1>18 DEF Overrun
<1>19. CASE SaveReceipt(c)
  BY <1>19 DEF SaveReceipt
<1>20. CASE Publish(c)
  BY <1>20 DEF Publish
<1>21. CASE Finally(c)
  BY <1>21 DEF Finally
<1>22. CASE Unclaim(c)
  BY <1>22 DEF Unclaim
<1>23. CASE Unslot(c)
  BY <1>23 DEF Unslot
<1> QED
  BY <1>1, <1>2, <1>3, <1>4, <1>5, <1>6, <1>7, <1>8, <1>9, <1>10, <1>11, <1>12, <1>13, <1>14, <1>15, <1>16, <1>17, <1>18, <1>19, <1>20, <1>21, <1>22, <1>23
     DEF Proceed, Moves

LEMMA HoldersFinite ==
    ASSUME NEW p, NEW r
    PROVE  IsFiniteSet(SlotHolders(p, r)) /\ Cardinality(SlotHolders(p, r)) \in Nat
<1>1. SlotHolders(p, r) \in SUBSET Call
  BY DEF SlotHolders
<1>2. IsFiniteSet(SlotHolders(p, r))
  BY <1>1, CallAssumption, FS_Subset
<1> QED BY <1>2, FS_CardinalityType

LEMMA SlotStep == SlotInv /\ [Next]_vars => SlotInv'
<1> SUFFICES ASSUME SlotInv, [Next]_vars PROVE SlotInv'
  OBVIOUS
<1>1. ASSUME NEW c \in Call,
             Moves(c)
      PROVE  SlotInv'
  <2>1. PICK there \in Points :
                /\ pc' = [pc EXCEPT ![c] = there]
                /\ \/ slots' = slots /\ (there \in Slotted <=> pc[c] \in Slotted)
                   \/ TakeSlot(c) /\ there \in Slotted /\ pc[c] \notin Slotted
                   \/ FreeSlot(c) /\ there \notin Slotted /\ pc[c] \in Slotted
    BY <1>1, SlotMoves DEF SlotInv
  <2>2. pc' \in [Call -> Points] /\ \A d \in Call : pc'[d] = IF d = c THEN there ELSE pc[d]
    BY <2>1 DEF SlotInv
  <2>3. ProcOf[c] \in Proc /\ RunOf[c] \in Run
    BY MapsAssumption
  <2> DEFINE here == SlotHolders(ProcOf[c], RunOf[c])
  <2>4. IsFiniteSet(here) /\ Cardinality(here) \in Nat
    BY HoldersFinite
  <2>5. slots[ProcOf[c]][RunOf[c]] = Cardinality(here)
    BY <2>3 DEF SlotInv
  <2>6. \A p \in Proc, r \in Run :
           p # ProcOf[c] \/ r # RunOf[c] => SlotHolders(p, r)' = SlotHolders(p, r)
    BY <2>2 DEF SlotHolders
  <2>7. CASE slots' = slots /\ (there \in Slotted <=> pc[c] \in Slotted)
    <3>1. \A p \in Proc, r \in Run : SlotHolders(p, r)' = SlotHolders(p, r)
      BY <2>2, <2>7 DEF SlotHolders
    <3> QED BY <2>2, <2>7, <3>1 DEF SlotInv
  <2>8. CASE TakeSlot(c) /\ there \in Slotted /\ pc[c] \notin Slotted
    <3>1. here' = here \cup {c} /\ c \notin here
      BY <2>2, <2>8 DEF SlotHolders
    <3>2. Cardinality(here') = Cardinality(here) + 1
      BY <2>4, <3>1, FS_AddElement
    <3>3. slots' \in [Proc -> [Run -> Nat]]
      BY <2>3, <2>8 DEF TakeSlot, SlotInv
    <3>4. slots'[ProcOf[c]][RunOf[c]] = slots[ProcOf[c]][RunOf[c]] + 1
      BY <2>3, <2>8 DEF TakeSlot, SlotInv
    <3>5. \A p \in Proc, r \in Run :
             p # ProcOf[c] \/ r # RunOf[c] => slots'[p][r] = slots[p][r]
      BY <2>3, <2>8 DEF TakeSlot, SlotInv
    <3>6. \A p \in Proc, r \in Run : slots'[p][r] = Cardinality(SlotHolders(p, r)')
      BY <2>5, <2>6, <3>2, <3>4, <3>5 DEF SlotInv
    <3> QED BY <2>2, <3>3, <3>6 DEF SlotInv
  <2>9. CASE FreeSlot(c) /\ there \notin Slotted /\ pc[c] \in Slotted
    <3>1. here' = here \ {c} /\ c \in here
      BY <2>2, <2>9 DEF SlotHolders
    <3>2. Cardinality(here') = Cardinality(here) - 1
      BY <2>4, <3>1, FS_RemoveElement
    <3>3. Cardinality(here) # 0
      BY <2>4, <3>1, FS_EmptySet
    <3>4. slots' \in [Proc -> [Run -> Nat]]
      <4>1. slots[ProcOf[c]][RunOf[c]] \in Nat
        BY <2>4, <2>5
      <4>2. (IF slots[ProcOf[c]][RunOf[c]] <= 1 THEN 0
             ELSE slots[ProcOf[c]][RunOf[c]] - 1) \in Nat
        BY <4>1
      <4> QED BY <2>3, <2>9, <4>2 DEF FreeSlot, SlotInv
    <3>5. slots'[ProcOf[c]][RunOf[c]] = IF slots[ProcOf[c]][RunOf[c]] <= 1 THEN 0
                                        ELSE slots[ProcOf[c]][RunOf[c]] - 1
      BY <2>3, <2>9 DEF FreeSlot, SlotInv
    <3>6. slots'[ProcOf[c]][RunOf[c]] = slots[ProcOf[c]][RunOf[c]] - 1
      BY <2>4, <2>5, <3>3, <3>5
    <3>7. \A p \in Proc, r \in Run :
             p # ProcOf[c] \/ r # RunOf[c] => slots'[p][r] = slots[p][r]
      BY <2>3, <2>9 DEF FreeSlot, SlotInv
    <3>8. \A p \in Proc, r \in Run : slots'[p][r] = Cardinality(SlotHolders(p, r)')
      BY <2>5, <2>6, <3>2, <3>6, <3>7 DEF SlotInv
    <3> QED BY <2>2, <3>4, <3>8 DEF SlotInv
  <2> QED BY <2>1, <2>7, <2>8, <2>9
<1>2. ASSUME UNCHANGED <<pc, slots>> PROVE SlotInv'
  BY <1>2 DEF SlotInv, SlotHolders
<1>3. ASSUME NEW f \in Fingerprint, Lapse(f) \/ Evict(f) PROVE SlotInv'
  BY <1>2, <1>3 DEF Lapse, Evict
<1>4. ASSUME NEW r \in Run, CancelParent(r) PROVE SlotInv'
  BY <1>2, <1>4 DEF CancelParent
<1>5. ASSUME UNCHANGED vars PROVE SlotInv'
  BY <1>2, <1>5 DEF vars
<1> QED BY <1>1, <1>3, <1>4, <1>5, NextMoves

LEMMA SlotInit == Init => SlotInv
<1> SUFFICES ASSUME Init PROVE SlotInv
  OBVIOUS
<1>1. \A p \in Proc, r \in Run : SlotHolders(p, r) = {}
  BY DEF Init, SlotHolders, Slotted
<1>2. pc \in [Call -> Points] /\ slots \in [Proc -> [Run -> Nat]]
  BY DEF Init, Points
<1>3. \A p \in Proc, r \in Run : slots[p][r] = 0
  BY DEF Init
<1> QED BY <1>1, <1>2, <1>3, FS_EmptySet DEF SlotInv

\* Every way out of invoke returns its slot once, save the exceptions that leave it
\* from register_run or reserve, from skill.started or out of the finally block:
\* the counter of a process and run is the number of its calls that are between
\* _reserve_slot and _release_slot or ended there so.
THEOREM SlotsCounted == Spec => []SlotsExact
<1>1. SlotInv => SlotsExact
  BY DEF SlotInv, SlotsExact, SlotHolders, Slotted
<1> QED BY <1>1, SlotInit, SlotStep, PTL DEF Spec

-----------------------------------------------------------------------------
(* Responses and parents                                                   *)

\* A call that commits or publishes has a response; one that left the polling loop
\* without a response did so because its parent is cancelled.  A call under way has
\* a policy of its parent.
AnswerInv ==
    /\ pc \in [Call -> Points]
    /\ response \in [Call -> Answer \cup {Nil}]
    /\ parent \in [Call -> (UNION {ParentPolicies[c] : c \in Call}) \cup {NoPolicy}]
    /\ cancelled \in SUBSET Run
    /\ entry \in [Fingerprint -> Call \cup {NoEntry}]
    /\ lapsed \in SUBSET Call
    /\ claimant \in [Fingerprint -> Call \cup {Free}]
    /\ \A c \in Call :
          /\ pc[c] = "answered" => response[c] \in Answer \/ RunOf[c] \in cancelled
          /\ pc[c] \in {"commit", "overrun", "receipt", "publish"} => response[c] \in Answer
          /\ pc[c] \notin {"idle", "done"} => parent[c] \in ParentPolicies[c]

LEMMA AnswerStep == AnswerInv /\ [Next]_vars => AnswerInv'
<1> SUFFICES ASSUME AnswerInv, [Next]_vars PROVE AnswerInv'
  OBVIOUS
<1> USE MapsAssumption DEF AnswerInv, At, Go, Points, cache, context
<1>1. ASSUME NEW c \in Call, Invoke(c) PROVE AnswerInv'
  BY <1>1 DEF Invoke
<1>2. ASSUME NEW c \in Call, Reject(c) PROVE AnswerInv'
  BY <1>2 DEF Reject
<1>3. ASSUME NEW c \in Call, Raise(c) PROVE AnswerInv'
  BY <1>3 DEF Raise
<1>4. ASSUME NEW c \in Call, Look(c) PROVE AnswerInv'
  BY <1>4 DEF Look
<1>5. ASSUME NEW c \in Call, TryClaim(c) PROVE AnswerInv'
  BY <1>5 DEF TryClaim
<1>6. ASSUME NEW c \in Call, ReserveSlot(c) PROVE AnswerInv'
  BY <1>6 DEF ReserveSlot
<1>7. ASSUME NEW c \in Call, GiveBackClaim(c) PROVE AnswerInv'
  BY <1>7 DEF GiveBackClaim, DropClaim
<1>8. ASSUME NEW c \in Call, Register(c) PROVE AnswerInv'
  BY <1>8 DEF Register
<1>9. ASSUME NEW c \in Call, Reserve(c) PROVE AnswerInv'
  BY <1>9 DEF Reserve
<1>10. ASSUME NEW c \in Call, Refused(c) PROVE AnswerInv'
  BY <1>10 DEF Refused
<1>11. ASSUME NEW c \in Call, Start(c) PROVE AnswerInv'
  BY <1>11 DEF Start
<1>12. ASSUME NEW c \in Call, SeeCancel(c) PROVE AnswerInv'
  BY <1>12 DEF SeeCancel
<1>13. ASSUME NEW c \in Call, Timeout(c) PROVE AnswerInv'
  BY <1>13 DEF Timeout
<1>14. ASSUME NEW c \in Call, AfterRun(c) PROVE AnswerInv'
  BY <1>14 DEF AfterRun
<1>15. ASSUME NEW c \in Call, Commit(c) PROVE AnswerInv'
  BY <1>15 DEF Commit
<1>16. ASSUME NEW c \in Call, Overrun(c) PROVE AnswerInv'
  BY <1>16 DEF Overrun
<1>17. ASSUME NEW c \in Call, SaveReceipt(c) PROVE AnswerInv'
  BY <1>17 DEF SaveReceipt
<1>18. ASSUME NEW c \in Call, Publish(c) PROVE AnswerInv'
  <2>1. entry' \in [Fingerprint -> Call \cup {NoEntry}]
    BY <1>18 DEF Publish, CachePut
  <2> QED BY <1>18, <2>1 DEF Publish
<1>19. ASSUME NEW c \in Call, Finally(c) PROVE AnswerInv'
  BY <1>19 DEF Finally
<1>20. ASSUME NEW c \in Call, Unclaim(c) PROVE AnswerInv'
  BY <1>20 DEF Unclaim, DropClaim
<1>21. ASSUME NEW c \in Call, Unslot(c) PROVE AnswerInv'
  BY <1>21 DEF Unslot
<1>22. ASSUME NEW c \in Call, LookRaises(c) PROVE AnswerInv'
  BY <1>22 DEF LookRaises
<1>23. ASSUME NEW c \in Call, TryClaimRaises(c) PROVE AnswerInv'
  BY <1>23 DEF TryClaimRaises
<1>24. ASSUME NEW c \in Call, GiveBackClaimRaises(c) PROVE AnswerInv'
  BY <1>24 DEF GiveBackClaimRaises
<1>25. ASSUME NEW c \in Call, AdmissionRaises(c) PROVE AnswerInv'
  BY <1>25 DEF AdmissionRaises
<1>26. ASSUME NEW c \in Call, StartRaises(c) PROVE AnswerInv'
  BY <1>26 DEF StartRaises
<1>27. ASSUME NEW c \in Call, SettleRaises(c) PROVE AnswerInv'
  BY <1>27 DEF SettleRaises
<1>28. ASSUME NEW c \in Call, SaveReceiptRaises(c) PROVE AnswerInv'
  BY <1>28 DEF SaveReceiptRaises
<1>29. ASSUME NEW c \in Call, FinallyRaises(c) PROVE AnswerInv'
  BY <1>29 DEF FinallyRaises
<1>30. ASSUME NEW c \in Call, UnclaimRaises(c) PROVE AnswerInv'
  BY <1>30 DEF UnclaimRaises, DropClaim
<1>31. ASSUME NEW c \in Call, NEW a \in Answer, Respond(c, a) PROVE AnswerInv'
  BY <1>31 DEF Respond
<1>32. ASSUME NEW r \in Run, CancelParent(r) PROVE AnswerInv'
  BY <1>32 DEF CancelParent
<1>33. ASSUME NEW f \in Fingerprint, Lapse(f) PROVE AnswerInv'
  BY <1>33 DEF Lapse
<1>34. ASSUME NEW f \in Fingerprint, Evict(f) PROVE AnswerInv'
  BY <1>34 DEF Evict
<1>35. ASSUME UNCHANGED vars PROVE AnswerInv'
  BY <1>35 DEF vars
<1> QED
  BY <1>1, <1>2, <1>3, <1>4, <1>5, <1>6, <1>7, <1>8, <1>9, <1>10, <1>11, <1>12, <1>13, <1>14,
     <1>15, <1>16, <1>17, <1>18, <1>19, <1>20, <1>21, <1>22, <1>23, <1>24, <1>25, <1>26, <1>27, <1>28,
     <1>29, <1>30, <1>31, <1>32, <1>33, <1>34, <1>35,
     NextMoves DEF Moves, Proceed, CallRaises

LEMMA AnswerInit == Init => AnswerInv
<1> SUFFICES ASSUME Init PROVE AnswerInv
  OBVIOUS
<1> DEFINE parents == (UNION {ParentPolicies[c] : c \in Call}) \cup {NoPolicy}
<1>1. parent \in [Call -> parents]
  <2>1. NoPolicy \in parents
    OBVIOUS
  <2>2. parent = [c \in Call |-> NoPolicy]
    BY DEF Init
  <2> HIDE DEF parents
  <2> QED BY <2>1, <2>2
<1> HIDE DEF parents
<1>2. /\ pc = [c \in Call |-> "idle"] /\ response = [c \in Call |-> Nil] /\ cancelled = {}
      /\ claimant = [f \in Fingerprint |-> Free] /\ entry = [f \in Fingerprint |-> NoEntry]
      /\ lapsed = {}
  BY DEF Init
<1> QED BY <1>1, <1>2 DEF AnswerInv, Points, parents

-----------------------------------------------------------------------------
(* The ledger the calls share                                              *)

LP == INSTANCE BudgetLedgerProofs WITH
          Reservation <- Call,
          Policy <- UNION {ParentPolicies[c] : c \in Call},
          Claim <- {ReservationFor(c) : c \in Call},
          Usage <- {a.usage : a \in Answer}

\* The policies, claims and usages of the calls are ones the ledger's proofs are
\* about.
LEMMA LedgerConstants ==
    /\ UNION {ParentPolicies[c] : c \in Call} \subseteq LP!PolicyRecord
    /\ NoPolicy \notin LP!PolicyRecord
    /\ {ReservationFor(c) : c \in Call} \subseteq LP!ClaimRecord
    /\ {a.usage : a \in Answer} \subseteq LP!UsageRecord
    /\ Nil \notin [run : Run, claim : LP!ClaimRecord]
    /\ Nil \notin [run : Run, usage : LP!UsageRecord]
    /\ NoLimit \notin Int
    /\ Shared \in BOOLEAN
<1>1. \A c \in Call : ParentPolicies[c] \subseteq LP!PolicyRecord
  BY PolicyAssumption DEF Ledger!PolicyRecord, LP!PolicyRecord
<1>2. \A c \in Call : ReservationFor(c) \in LP!ClaimRecord
  BY PolicyAssumption DEF Ledger!PolicyRecord, LP!ClaimRecord, ReservationFor
<1>3. \A a \in Answer : a.usage \in LP!UsageRecord
  BY AnswerAssumption DEF Ledger!UsageRecord, LP!UsageRecord
<1>4. NoPolicy \notin LP!PolicyRecord /\ NoLimit \notin Int /\ Shared \in BOOLEAN
  BY PolicyAssumption, SharedAssumption DEF Ledger!PolicyRecord, LP!PolicyRecord
<1>5. Nil \notin [run : Run, claim : LP!ClaimRecord] /\ Nil \notin [run : Run, usage : LP!UsageRecord]
  BY NilAssumption DEF Ledger!ClaimRecord, LP!ClaimRecord, Ledger!UsageRecord, LP!UsageRecord
<1> QED BY <1>1, <1>2, <1>3, <1>4, <1>5

\* What a call does to the ledger, in the terms of the ledger's proofs.
LEMMA LedgerActions ==
    ASSUME NEW c \in Call
    PROVE  /\ Ledger!RegisterRun(RunOf[c], parent[c]) => LP!RegisterRun(RunOf[c], parent[c])
           /\ Ledger!Reserve(RunOf[c], c, ReservationFor(c)) => LP!Reserve(RunOf[c], c, ReservationFor(c))
           /\ Ledger!Commit(c, RunOf[c], response[c].usage) => LP!Commit(c, RunOf[c], response[c].usage)
           /\ Ledger!Release(c) => LP!Release(c)
           /\ Ledger!SaveReceipt(c) => LP!SaveReceipt(c)
           /\ Ledger!LoseReceipt(c) => LP!LoseReceipt(c)
<1>1. Ledger!RegisterRun(RunOf[c], parent[c]) => LP!RegisterRun(RunOf[c], parent[c])
  BY DEF Ledger!RegisterRun, Ledger!Registrable, Ledger!receipts,
         LP!RegisterRun, LP!Registrable, LP!receipts
<1>2. Ledger!Reserve(RunOf[c], c, ReservationFor(c)) => LP!Reserve(RunOf[c], c, ReservationFor(c))
  BY DEF Ledger!Reserve, Ledger!Fits, Ledger!receipts, LP!Reserve, LP!Fits, LP!receipts
<1>3. Ledger!GiveBack(c) => LP!GiveBack(c)
  BY DEF Ledger!GiveBack, LP!GiveBack
<1>4. Ledger!Commit(c, RunOf[c], response[c].usage) => LP!Commit(c, RunOf[c], response[c].usage)
  BY <1>3 DEF Ledger!Commit, Ledger!Covers, Ledger!Charge, Ledger!FileReceipt,
              LP!Commit, LP!Covers, LP!Charge, LP!FileReceipt
<1>5. Ledger!Release(c) => LP!Release(c)
  BY <1>3 DEF Ledger!Release, Ledger!receipts, LP!Release, LP!receipts
<1>6. Ledger!SaveReceipt(c) => LP!SaveReceipt(c)
  BY DEF Ledger!SaveReceipt, Ledger!amounts, LP!SaveReceipt, LP!amounts
<1>7. Ledger!LoseReceipt(c) => LP!LoseReceipt(c)
  BY DEF Ledger!LoseReceipt, Ledger!amounts, LP!LoseReceipt, LP!amounts
<1> QED BY <1>1, <1>2, <1>4, <1>5, <1>6, <1>7

\* Every step of the runtime is a step of the ledger or leaves it alone.
LedgerStep == [LP!Next]_(LP!ledger)

LEMMA RuntimeStepsLedger ==
    ASSUME AnswerInv, [Next]_vars
    PROVE  LedgerStep
<1> USE DEF LedgerStep
<1>1. ASSUME UNCHANGED ledger PROVE LedgerStep
  BY <1>1 DEF ledger, LP!ledger, LP!receipts
<1>2. ASSUME NEW c \in Call, Ledger!RegisterRun(RunOf[c], parent[c]), At(c, "register")
      PROVE LedgerStep
  <2>1. RunOf[c] \in Run /\ parent[c] \in UNION {ParentPolicies[d] : d \in Call}
    BY <1>2, MapsAssumption DEF AnswerInv, At
  <2> QED BY <1>2, <2>1, LedgerActions DEF LP!Next
<1>3. ASSUME NEW c \in Call, Ledger!Reserve(RunOf[c], c, ReservationFor(c)) PROVE LedgerStep
  <2>1. RunOf[c] \in Run /\ ReservationFor(c) \in {ReservationFor(d) : d \in Call}
    BY MapsAssumption
  <2> QED BY <1>3, <2>1, LedgerActions DEF LP!Next
<1>4. ASSUME NEW c \in Call, Ledger!Commit(c, RunOf[c], response[c].usage), At(c, "commit")
      PROVE LedgerStep
  <2>1. response[c] \in Answer
    BY <1>4 DEF At, AnswerInv
  <2>2. RunOf[c] \in Run /\ response[c].usage \in {a.usage : a \in Answer}
    BY <2>1, MapsAssumption
  <2> QED BY <1>4, <2>2, LedgerActions DEF LP!Next
<1>5. ASSUME NEW c \in Call,
             Ledger!Release(c) \/ Ledger!SaveReceipt(c) \/ Ledger!LoseReceipt(c)
      PROVE LedgerStep
  BY <1>5, LedgerActions DEF LP!Next
<1> HIDE DEF LedgerStep
<1>6. ASSUME NEW c \in Call, Register(c) \/ Reserve(c) \/ AdmissionRaises(c) PROVE LedgerStep
  BY <1>1, <1>2, <1>3, <1>6 DEF Register, Reserve, AdmissionRaises
<1>7. ASSUME NEW c \in Call, Commit(c) PROVE LedgerStep
  BY <1>1, <1>4, <1>7 DEF Commit
<1>8. ASSUME NEW c \in Call,
             \/ Timeout(c) \/ AfterRun(c) \/ Overrun(c) \/ SaveReceipt(c) \/ Finally(c)
             \/ SettleRaises(c) \/ SaveReceiptRaises(c) \/ FinallyRaises(c)
      PROVE LedgerStep
  BY <1>1, <1>5, <1>8 DEF Timeout, AfterRun, Overrun, SaveReceipt, Finally, SettleRaises,
                          SaveReceiptRaises, FinallyRaises, SettleLeft
<1>9. ASSUME NEW c \in Call,
             \/ Invoke(c) \/ Reject(c) \/ Raise(c)
             \/ Look(c) \/ TryClaim(c) \/ ReserveSlot(c) \/ GiveBackClaim(c) \/ Refused(c)
             \/ Start(c) \/ SeeCancel(c) \/ Publish(c) \/ Unclaim(c) \/ Unslot(c)
             \/ LookRaises(c) \/ TryClaimRaises(c) \/ GiveBackClaimRaises(c)
             \/ StartRaises(c) \/ UnclaimRaises(c)
      PROVE LedgerStep
  BY <1>1, <1>9 DEF Invoke, Reject, Raise, Look, TryClaim, ReserveSlot, GiveBackClaim,
                    Refused, Start, SeeCancel, Publish, Unclaim, Unslot, LookRaises,
                    TryClaimRaises, GiveBackClaimRaises, StartRaises, UnclaimRaises
<1>10. ASSUME NEW c \in Call, NEW a \in Answer, Respond(c, a) PROVE LedgerStep
  BY <1>1, <1>10 DEF Respond
<1>11. ASSUME NEW r \in Run, CancelParent(r) PROVE LedgerStep
  BY <1>1, <1>11 DEF CancelParent
<1>12. ASSUME NEW f \in Fingerprint, Lapse(f) \/ Evict(f) PROVE LedgerStep
  BY <1>1, <1>12 DEF Lapse, Evict
<1>13. ASSUME UNCHANGED vars PROVE LedgerStep
  BY <1>1, <1>13 DEF vars
<1> QED BY <1>6, <1>7, <1>8, <1>9, <1>10, <1>11, <1>12, <1>13, NextMoves
        DEF Moves, Proceed, CallRaises

\* The ledger's own invariants survive in the runtime.
LedgerInv == LP!BudgetInv /\ LP!FileInv /\ LP!CountersMatchOpen

LEMMA LedgerKept ==
    ASSUME AnswerInv, LedgerInv, [Next]_vars
    PROVE  LedgerInv'
<1>1. LP!TypeOK
  BY DEF LedgerInv, LP!BudgetInv
<1>2. [LP!Next]_(LP!ledger)
  BY RuntimeStepsLedger DEF LedgerStep
<1> QED BY <1>1, <1>2, LedgerConstants, LP!StepInv, LP!FileStep, LP!CountStep DEF LedgerInv

LEMMA LedgerInit == Init => LedgerInv
<1>1. Init => LP!Init
  BY DEF Init, Ledger!Init, LP!Init
<1> QED BY <1>1, LedgerConstants, LP!InitInv, LP!CountInit DEF LedgerInv

-----------------------------------------------------------------------------
(* Reservations                                                            *)

\* A call holds a reservation while it works, and perhaps still in its finally
\* block or when an exception ended it; it is the one invoke asked for.
HeldAtWork ==
    \A c \in Call : /\ held[c] # Nil => pc[c] \in Working \cup {"finally", "escaped"}
                    /\ pc[c] \in Working => held[c] # Nil
HeldIsOwn ==
    \A c \in Call : held[c] # Nil => held[c] = [run |-> RunOf[c], claim |-> ReservationFor(c)]

\* The policy a call was admitted under is the one its run is registered with.
AdmittedUnder ==
    \A c \in Call : pc[c] \in Working \cup {"reserve"} => policy[RunOf[c]] = parent[c]

ActiveCounts == \A r \in Run : active[r] = Cardinality(LP!Open(r))

WorkInv == pc \in [Call -> Points] /\ HeldAtWork /\ HeldIsOwn /\ AdmittedUnder /\ ActiveCounts

LeavesLedger(c, there) ==
    /\ UNCHANGED <<held, policy, active>>
    /\ there # "reserve"
    /\ there \in Working => pc[c] \in Working
    /\ pc[c] \in Working => there \in Working \cup {"finally", "escaped"}
    /\ pc[c] = "finally" => held[c] = Nil \/ there = "escaped"
    /\ pc[c] # "escaped"

\* A step of call c registers its run before it reserves, reserves when it starts
\* to work, gives the reservation back when it stops, or does not touch it.
LEMMA WorkMoves ==
    ASSUME NEW c \in Call, pc \in [Call -> Points],
           Moves(c)
    PROVE  \E there \in Points :
              /\ pc' = [pc EXCEPT ![c] = there]
              /\ \A d \in Call : pc[d] # "idle" => parent'[d] = parent[d]
              /\ \/ LeavesLedger(c, there)
                 \/ /\ LP!RegisterRun(RunOf[c], parent[c])
                    /\ pc[c] = "register" /\ there \in {"reserve", "escaped"}
                 \/ /\ LP!Reserve(RunOf[c], c, ReservationFor(c))
                    /\ pc[c] = "reserve" /\ there \in {"start", "escaped"}
                 \/ /\ held[c] # Nil /\ LP!GiveBack(c) /\ policy' = policy
                    /\ there \notin Working \cup {"reserve"}
<1> USE DEF At, Go, Points, Working, LeavesLedger, context
<1>1. CASE Invoke(c)
  BY <1>1 DEF Invoke, ledger
<1>2. CASE Reject(c)
  BY <1>2 DEF Reject, ledger
<1>3. CASE Raise(c)
  BY <1>3 DEF Raise, ledger
<1>4. CASE CallRaises(c)
  <2>1. CASE LookRaises(c)
    BY <2>1 DEF LookRaises, ledger
  <2>2. CASE TryClaimRaises(c)
    BY <2>2 DEF TryClaimRaises, ledger
  <2>3. CASE GiveBackClaimRaises(c)
    BY <2>3 DEF GiveBackClaimRaises, ledger
  <2>4. CASE AdmissionRaises(c)
    BY <2>4, LedgerActions DEF AdmissionRaises, ledger
  <2>5. CASE StartRaises(c)
    BY <2>5 DEF StartRaises, ledger
  <2>6. CASE SettleRaises(c)
    BY <2>6, LedgerActions DEF SettleRaises, ledger, LP!Release
  <2>7. CASE SaveReceiptRaises(c)
    BY <2>7, LedgerActions DEF SaveReceiptRaises, LP!SaveReceipt, LP!LoseReceipt, LP!amounts
  <2>8. CASE FinallyRaises(c)
    BY <2>8, LedgerActions DEF FinallyRaises, SettleLeft, ledger, LP!Release
  <2>9. CASE UnclaimRaises(c)
    BY <2>9 DEF UnclaimRaises, ledger
  <2> QED BY <1>4, <2>1, <2>2, <2>3, <2>4, <2>5, <2>6, <2>7, <2>8, <2>9 DEF CallRaises
<1>5. CASE Look(c)
  BY <1>5 DEF Look, ledger
<1>6. CASE TryClaim(c)
  BY <1>6 DEF TryClaim, ledger
<1>7. CASE ReserveSlot(c)
  BY <1>7 DEF ReserveSlot, ledger
<1>8. CASE GiveBackClaim(c)
  BY <1>8 DEF GiveBackClaim, ledger
<1>9. CASE Refused(c)
  BY <1>9 DEF Refused, ledger
<1>10. CASE Start(c)
  BY <1>10 DEF Start, ledger
<1>11. CASE SeeCancel(c)
  BY <1>11 DEF SeeCancel, ledger
<1>12. CASE Publish(c)
  BY <1>12 DEF Publish, ledger
<1>13. CASE Unclaim(c)
  BY <1>13 DEF Unclaim, ledger
<1>14. CASE Unslot(c)
  BY <1>14 DEF Unslot, ledger
<1>15. CASE \E a \in Answer : Respond(c, a)
  BY <1>15 DEF Respond, ledger
<1>16. CASE Register(c)
  BY <1>16, LedgerActions DEF Register, ledger
<1>17. CASE Reserve(c)
  BY <1>17, LedgerActions DEF Reserve, ledger
<1>18. CASE Commit(c)
  BY <1>18, LedgerActions DEF Commit, ledger, LP!Commit, LP!Covers
<1>19. CASE SaveReceipt(c)
  BY <1>19, LedgerActions DEF SaveReceipt, LP!SaveReceipt, LP!amounts
<1>20. CASE Timeout(c)
  BY <1>20, LedgerActions DEF Timeout, LP!Release
<1>21. CASE AfterRun(c)
  BY <1>21, LedgerActions DEF AfterRun, ledger, LP!Release
<1>22. CASE Overrun(c)
  BY <1>22, LedgerActions DEF Overrun, LP!Release
<1>23. CASE Finally(c)
  BY <1>23, LedgerActions DEF Finally, SettleLeft, ledger, LP!Release
<1> QED
  BY <1>1, <1>2, <1>3, <1>4, <1>5, <1>6, <1>7, <1>8, <1>9, <1>10, <1>11, <1>12, <1>13, <1>14, <1>15, <1>16, <1>17, <1>18, <1>19, <1>20, <1>21, <1>22, <1>23
     DEF Proceed, Moves

LEMMA OpenType ==
    ASSUME NEW r
    PROVE  IsFiniteSet(LP!Open(r)) /\ Cardinality(LP!Open(r)) \in Nat
<1>1. LP!Open(r) \in SUBSET Call
  BY DEF LP!Open
<1>2. IsFiniteSet(LP!Open(r))
  BY <1>1, CallAssumption, FS_Subset
<1> QED BY <1>2, FS_CardinalityType

LEMMA HeldFields ==
    ASSUME HeldIsOwn, NEW c \in Call, held[c] # Nil
    PROVE  held[c].run = RunOf[c] /\ held[c].claim = ReservationFor(c)
<1>1. held[c] = [run |-> RunOf[c], claim |-> ReservationFor(c)]
  BY DEF HeldIsOwn
<1>2. ASSUME NEW h, NEW x, NEW y, h = [run |-> x, claim |-> y] PROVE h.run = x /\ h.claim = y
  BY <1>2
<1> QED BY <1>1, <1>2

LEMMA WorkStep ==
    ASSUME AnswerInv, WorkInv, LedgerInv, [Next]_vars
    PROVE  WorkInv'
<1>0. LP!TypeOK
  BY DEF LedgerInv, LP!BudgetInv
<1>1. ASSUME NEW c \in Call,
             Moves(c)
      PROVE  WorkInv'
  <2>1. PICK there \in Points :
              /\ pc' = [pc EXCEPT ![c] = there]
              /\ \A d \in Call : pc[d] # "idle" => parent'[d] = parent[d]
              /\ \/ LeavesLedger(c, there)
                 \/ /\ LP!RegisterRun(RunOf[c], parent[c])
                    /\ pc[c] = "register" /\ there \in {"reserve", "escaped"}
                 \/ /\ LP!Reserve(RunOf[c], c, ReservationFor(c))
                    /\ pc[c] = "reserve" /\ there \in {"start", "escaped"}
                 \/ /\ held[c] # Nil /\ LP!GiveBack(c) /\ policy' = policy
                    /\ there \notin Working \cup {"reserve"}
    BY <1>1, WorkMoves DEF WorkInv
  <2>2. pc' \in [Call -> Points] /\ \A d \in Call : pc'[d] = IF d = c THEN there ELSE pc[d]
    BY <2>1 DEF WorkInv, ActiveCounts
  <2>3. RunOf[c] \in Run /\ \A d \in Call : pc[d] # "idle" => parent'[d] = parent[d]
    BY <2>1, MapsAssumption
  <2>4. CASE LeavesLedger(c, there)
    <3> USE DEF LeavesLedger
    <3>1. HeldAtWork'
      BY <2>2, <2>4 DEF WorkInv, HeldAtWork, Working
    <3>2. HeldIsOwn'
      BY <2>4 DEF WorkInv, HeldIsOwn
    <3>3. AdmittedUnder'
      BY <2>2, <2>3, <2>4 DEF WorkInv, AdmittedUnder, Working
    <3>4. ActiveCounts'
      BY <2>4 DEF WorkInv, ActiveCounts, LP!Open
    <3> QED BY <2>2, <3>1, <3>2, <3>3, <3>4 DEF WorkInv
  <2>5. CASE /\ LP!RegisterRun(RunOf[c], parent[c])
             /\ pc[c] = "register" /\ there \in {"reserve", "escaped"}
    <3>1. UNCHANGED <<held, active>>
      BY <2>5 DEF LP!RegisterRun
    <3>2. \A d \in Call : /\ RunOf[d] = RunOf[c] => policy'[RunOf[d]] = parent[c]
                          /\ RunOf[d] # RunOf[c] => policy'[RunOf[d]] = policy[RunOf[d]]
      BY <1>0, <2>3, <2>5, MapsAssumption DEF LP!RegisterRun, LP!TypeOK
    <3>3. policy[RunOf[c]] \in {NoPolicy, parent[c]}
      BY <2>5 DEF LP!RegisterRun, LP!Registrable
    <3>4. \A d \in Call : pc[d] \in Working \cup {"reserve"} => parent[d] # NoPolicy
      BY PolicyAssumption DEF AnswerInv, Working
    <3>5. AdmittedUnder'
      <4>1. SUFFICES ASSUME NEW d \in Call, pc'[d] \in Working \cup {"reserve"}
                     PROVE  policy'[RunOf[d]] = parent'[d]
        BY DEF AdmittedUnder
      <4>2. parent'[d] = parent[d]
        BY <2>2, <2>3, <2>5, <4>1 DEF Working
      <4>3. CASE d = c
        BY <3>2, <4>2, <4>3
      <4>4. CASE d # c
        <5>1. policy[RunOf[d]] = parent[d] /\ parent[d] # NoPolicy
          BY <2>2, <3>4, <4>1, <4>4 DEF WorkInv, AdmittedUnder
        <5> QED BY <3>2, <3>3, <4>2, <5>1
      <4> QED BY <4>3, <4>4
    <3>6. \A r \in Run : LP!Open(r)' = LP!Open(r)
      BY <3>1 DEF LP!Open
    <3> QED BY <2>2, <2>5, <3>1, <3>5, <3>6 DEF WorkInv, Working, HeldAtWork, HeldIsOwn, ActiveCounts
  <2>6. CASE /\ LP!Reserve(RunOf[c], c, ReservationFor(c))
             /\ pc[c] = "reserve" /\ there \in {"start", "escaped"}
    <3>1. /\ policy' = policy
          /\ held' = [held EXCEPT ![c] = [run |-> RunOf[c], claim |-> ReservationFor(c)]]
          /\ active' = [active EXCEPT ![RunOf[c]] = @ + 1]
      BY <2>6 DEF LP!Reserve, ReservationFor
    <3>2. [run |-> RunOf[c], claim |-> ReservationFor(c)] # Nil
      BY <2>3, LedgerConstants
    <3>3. \A d \in Call : held'[d] = IF d = c THEN [run |-> RunOf[c], claim |-> ReservationFor(c)]
                                     ELSE held[d]
      BY <1>0, <3>1 DEF LP!TypeOK
    <3>4. held[c] = Nil
      BY <2>6 DEF WorkInv, HeldAtWork, Working
    <3>5. LP!Open(RunOf[c])' = LP!Open(RunOf[c]) \cup {c} /\ c \notin LP!Open(RunOf[c])
      BY <3>2, <3>3, <3>4 DEF LP!Open
    <3>6. \A r \in Run : r # RunOf[c] => LP!Open(r)' = LP!Open(r)
      BY <3>2, <3>3, <3>4 DEF LP!Open
    <3>7. Cardinality(LP!Open(RunOf[c])') = Cardinality(LP!Open(RunOf[c])) + 1
      BY <3>5, OpenType, FS_AddElement
    <3>8. ActiveCounts'
      BY <1>0, <2>3, <3>1, <3>6, <3>7 DEF WorkInv, ActiveCounts, LP!TypeOK
    <3>9. AdmittedUnder'
      BY <2>2, <2>3, <2>6, <3>1 DEF WorkInv, AdmittedUnder, Working
    <3>10. HeldAtWork' /\ HeldIsOwn'
      BY <2>2, <2>6, <3>2, <3>3 DEF WorkInv, HeldAtWork, HeldIsOwn, Working
    <3> QED BY <2>2, <3>8, <3>9, <3>10 DEF WorkInv
  <2>7. CASE /\ held[c] # Nil /\ LP!GiveBack(c) /\ policy' = policy
             /\ there \notin Working \cup {"reserve"}
    <3>1. held[c].run = RunOf[c] /\ held[c].claim.width = 1
      <4>1. held[c].run = RunOf[c] /\ held[c].claim = ReservationFor(c)
        BY <2>7, HeldFields DEF WorkInv
      <4>2. ReservationFor(c).width = 1
        BY DEF ReservationFor
      <4> QED BY <4>1, <4>2
    <3>2. /\ held' = [held EXCEPT ![c] = Nil]
          /\ active' = [active EXCEPT ![RunOf[c]] = @ - 1]
      BY <2>7, <3>1 DEF LP!GiveBack
    <3>3. \A d \in Call : held'[d] = IF d = c THEN Nil ELSE held[d]
      BY <1>0, <3>2 DEF LP!TypeOK
    <3>4. LP!Open(RunOf[c])' = LP!Open(RunOf[c]) \ {c} /\ c \in LP!Open(RunOf[c])
      BY <2>7, <3>1, <3>3 DEF LP!Open
    <3>5. \A r \in Run : r # RunOf[c] => LP!Open(r)' = LP!Open(r)
      BY <3>1, <3>3 DEF LP!Open
    <3>6. Cardinality(LP!Open(RunOf[c])') = Cardinality(LP!Open(RunOf[c])) - 1
      BY <3>4, OpenType, FS_RemoveElement
    <3>7. ActiveCounts'
      BY <1>0, <2>3, <3>2, <3>5, <3>6 DEF WorkInv, ActiveCounts, LP!TypeOK
    <3>8. AdmittedUnder'
      BY <2>2, <2>3, <2>7 DEF WorkInv, AdmittedUnder, Working
    <3>9. HeldAtWork' /\ HeldIsOwn'
      BY <2>2, <2>7, <3>3 DEF WorkInv, HeldAtWork, HeldIsOwn
    <3> QED BY <2>2, <3>7, <3>8, <3>9 DEF WorkInv
  <2> QED BY <2>1, <2>4, <2>5, <2>6, <2>7
<1>2. ASSUME UNCHANGED <<pc, ledger, parent>> PROVE WorkInv'
  BY <1>2 DEF WorkInv, HeldAtWork, HeldIsOwn, AdmittedUnder, ActiveCounts, ledger, LP!Open
<1>3. ASSUME NEW r \in Run, CancelParent(r) PROVE WorkInv'
  BY <1>2, <1>3 DEF CancelParent
<1>4. ASSUME NEW f \in Fingerprint, Lapse(f) \/ Evict(f) PROVE WorkInv'
  BY <1>2, <1>4 DEF Lapse, Evict, context
<1>5. ASSUME UNCHANGED vars PROVE WorkInv'
  BY <1>2, <1>5 DEF vars, context
<1> QED BY <1>1, <1>3, <1>4, <1>5, NextMoves

LEMMA WorkInit == Init => WorkInv
<1> SUFFICES ASSUME Init PROVE WorkInv
  OBVIOUS
<1>1. /\ pc = [c \in Call |-> "idle"] /\ held = [c \in Call |-> Nil]
      /\ active = [r \in Run |-> 0]
  BY DEF Init, Ledger!Init
<1>2. \A r \in Run : LP!Open(r) = {}
  BY <1>1 DEF LP!Open
<1>3. \A r \in Run : active[r] = Cardinality(LP!Open(r))
  BY <1>1, <1>2, FS_EmptySet
<1> QED BY <1>1, <1>3 DEF WorkInv, HeldAtWork, HeldIsOwn, AdmittedUnder, ActiveCounts, Points, Working

\* The whole invariant of the runtime.
RuntimeInv == AnswerInv /\ LedgerInv /\ WorkInv /\ SlotInv

LEMMA RuntimeAlways == Spec => []RuntimeInv
<1>1. Init => RuntimeInv
  BY AnswerInit, LedgerInit, WorkInit, SlotInit DEF RuntimeInv
<1>2. RuntimeInv /\ [Next]_vars => RuntimeInv'
  BY AnswerStep, LedgerKept, WorkStep, SlotStep DEF RuntimeInv
<1> QED BY <1>1, <1>2, PTL DEF Spec

\* Types of the ledger, the calls, the slots and the cache, for every choice of
\* calls, policies and answers.
THEOREM TypeCorrect == Spec => []TypeOK
<1>1. RuntimeInv => TypeOK
  BY DEF RuntimeInv, AnswerInv, LedgerInv, SlotInv, TypeOK, LP!BudgetInv, LP!TypeOK,
         Ledger!TypeOK
<1> QED BY <1>1, RuntimeAlways, PTL

\* Whatever raises on the way, a call that ended with its slot returned holds no
\* reservation, and with no call under way and none that escaped the finally block
\* nothing of any run's budget is reserved.
THEOREM NothingLeftReserved == Spec => []ReservationsReturned
<1>1. ASSUME RuntimeInv PROVE ReservationsReturned
  <2> USE <1>1 DEF RuntimeInv
  <2>1. \A c \in Call : pc[c] \in {"idle", "done"} => held[c] = Nil
    BY DEF WorkInv, HeldAtWork, Working
  <2>2. ASSUME \A c \in Call : pc[c] \in {"idle", "done"}, NEW r \in Run
        PROVE  active[r] = 0 /\ \A m \in Meter : reserved[r][m] = 0
    <3>1. LP!Open(r) = {}
      BY <2>1, <2>2 DEF LP!Open
    <3>2. active[r] = 0
      BY <3>1, FS_EmptySet DEF WorkInv, ActiveCounts
    <3>3. ASSUME NEW m \in Meter PROVE reserved[r][m] = 0
      <4>1. reserved[r][m] = LP!Total([i \in LP!Open(r) |-> held[i].claim.meter[m]])
        BY DEF LedgerInv, LP!CountersMatchOpen
      <4>2. [i \in LP!Open(r) |-> held[i].claim.meter[m]] \in [{} -> Int]
        BY <3>1
      <4> QED BY <4>1, <4>2, LedgerConstants, LP!TotalEmpty
    <3> QED BY <3>2, <3>3
  <2> QED BY <2>1, <2>2 DEF ReservationsReturned
<1> QED BY <1>1, RuntimeAlways, PTL

\* However many processes count slots of their own, the children of a run at work
\* never exceed its max_parallel_children: each holds a reservation, and the ledger
\* admits no more of them.
THEOREM ChildrenNeverTooMany == Spec => []ChildrenBounded
<1>1. ASSUME RuntimeInv, NEW c \in Call, AtWork(c)
      PROVE  Cardinality({d \in Call : AtWork(d) /\ RunOf[d] = RunOf[c]}) <= parent[c].parallel
  <2> DEFINE busy == {d \in Call : AtWork(d) /\ RunOf[d] = RunOf[c]}
  <2> USE <1>1 DEF RuntimeInv
  <2>1. /\ RunOf[c] \in Run /\ parent[c] \in ParentPolicies[c]
        /\ policy[RunOf[c]] = parent[c] /\ parent[c] # NoPolicy
    BY MapsAssumption, PolicyAssumption DEF WorkInv, AdmittedUnder, AnswerInv, AtWork, Working
  <2>2. busy \subseteq LP!Open(RunOf[c])
    <3>1. \A d \in Call : AtWork(d) => held[d] # Nil
      BY DEF WorkInv, HeldAtWork, AtWork, Working
    <3>2. \A d \in Call : held[d] # Nil => held[d].run = RunOf[d]
      BY HeldFields DEF WorkInv
    <3> QED BY <3>1, <3>2 DEF LP!Open
  <2>3. IsFiniteSet(LP!Open(RunOf[c])) /\ Cardinality(LP!Open(RunOf[c])) \in Nat
    BY OpenType
  <2>4. Cardinality(busy) \in Nat /\ Cardinality(busy) <= Cardinality(LP!Open(RunOf[c]))
    BY <2>2, <2>3, FS_Subset, FS_CardinalityType
  <2>5. active[RunOf[c]] = Cardinality(LP!Open(RunOf[c]))
    BY <2>1 DEF WorkInv, ActiveCounts
  <2>6. active[RunOf[c]] <= policy[RunOf[c]].parallel
    BY <2>1 DEF LedgerInv, LP!BudgetInv, LP!NoOverspend, LP!Registered
  <2>7. parent[c].parallel \in Nat
    BY <2>1, PolicyAssumption DEF Ledger!PolicyRecord
  <2> QED BY <2>1, <2>3, <2>4, <2>5, <2>6, <2>7
<1>2. RuntimeInv => ChildrenBounded
  BY <1>1 DEF ChildrenBounded
<1> QED BY <1>2, RuntimeAlways, PTL

\* The budget holds in the runtime that uses the ledger, not only for the ledger
\* alone: what the children of a run have used and reserved together stays within
\* its limits although a usage record may be lost between commit and usage_record.
THEOREM RuntimeNeverOverspends == Spec => []Ledger!NoOverspend
<1>1. RuntimeInv => Ledger!NoOverspend
  BY DEF RuntimeInv, LedgerInv, LP!BudgetInv, LP!NoOverspend, LP!Registered,
         Ledger!NoOverspend, Ledger!Registered
<1> QED BY <1>1, RuntimeAlways, PTL

\* The runtime touches the ledger only through its operations: every behaviour of
\* invoke, whatever its children answer, time out or leave behind, and whatever
\* raises on the way, is one of the ledger, so each theorem about the ledger holds
\* in the runtime.
THEOREM LedgerUsed == Spec => LP!Spec
<1>1. Init => LP!Init
  BY DEF Init, Ledger!Init, LP!Init
<1>2. RuntimeInv /\ [Next]_vars => [LP!Next]_(LP!ledger)
  BY RuntimeStepsLedger DEF RuntimeInv, LedgerStep
<1> QED BY <1>1, <1>2, RuntimeAlways, PTL DEF Spec, LP!Spec

=============================================================================
