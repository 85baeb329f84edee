------------------------- MODULE BudgetLedgerProofs -------------------------
(***************************************************************************)
(* Proofs about BudgetLedger for every set of runs, meters, policies and   *)
(* reservations.  The invariant is that what is used plus what is reserved *)
(* stays within the limits; it is inductive together with the types of the *)
(* ledger, because a commit returns the whole reservation and charges no   *)
(* more than that reservation covers.                                      *)
(* That the counters are the sums of the open reservations, and committed  *)
(* usage the sum of the records stored and not stored, is proved by        *)
(* induction over steps from lemmas about sums, which are themselves       *)
(* proved by induction over the size of the set: Total gains what is added *)
(* to its domain.                                                          *)
(***************************************************************************)
EXTENDS BudgetLedger, FiniteSetTheorems, WellFoundedInduction, TLAPS

LEMMA InitType == Init => TypeOK
BY DEF Init, TypeOK

\* What is stored for a reservation is a claim over natural numbers.
LEMMA HeldType ==
    ASSUME TypeOK, NEW i \in Reservation, held[i] # Nil
    PROVE  /\ held[i] = [run |-> held[i].run, claim |-> held[i].claim]
           /\ held[i].run \in Run
           /\ held[i].claim \in Claim
           /\ held[i].claim \in ClaimRecord
BY ClaimAssumption DEF TypeOK

\* Handing a reservation back keeps the types of what it touches.
LEMMA GiveBackType ==
    ASSUME TypeOK, NEW i \in Reservation, held[i] # Nil, GiveBack(i)
    PROVE  /\ held' \in [Reservation -> [run : Run, claim : Claim] \cup {Nil}]
           /\ reserved' \in [Run -> [Meter -> Int]]
           /\ reservedCost' \in [Run -> Int]
           /\ active' \in [Run -> Int]
<1> DEFINE r == held[i].run
           c == held[i].claim
<1>1. r \in Run /\ c \in ClaimRecord
  BY HeldType
<1>2. c.meter \in [Meter -> Nat] /\ c.cost \in Nat /\ c.width \in Nat
  BY <1>1 DEF ClaimRecord
<1>3. held' \in [Reservation -> [run : Run, claim : Claim] \cup {Nil}]
  BY DEF TypeOK, GiveBack
<1>4. [m \in Meter |-> reserved[r][m] - c.meter[m]] \in [Meter -> Int]
  BY <1>1, <1>2 DEF TypeOK
<1>5. reserved' \in [Run -> [Meter -> Int]]
  BY <1>1, <1>4 DEF TypeOK, GiveBack
<1>6. reservedCost' \in [Run -> Int] /\ active' \in [Run -> Int]
  BY <1>1, <1>2 DEF TypeOK, GiveBack
<1> QED BY <1>3, <1>5, <1>6

LEMMA StepType == TypeOK /\ [Next]_ledger => TypeOK'
<1> SUFFICES ASSUME TypeOK, [Next]_ledger PROVE TypeOK'
  OBVIOUS
<1>1. ASSUME NEW r \in Run, NEW p \in Policy, RegisterRun(r, p) PROVE TypeOK'
  BY <1>1 DEF TypeOK, RegisterRun, receipts
<1>2. ASSUME NEW r \in Run, NEW i \in Reservation, NEW c \in Claim, Reserve(r, i, c)
      PROVE TypeOK'
  <2>1. c.meter \in [Meter -> Nat] /\ c.cost \in Nat /\ c.width \in Nat
    BY ClaimAssumption DEF ClaimRecord
  <2>2. [m \in Meter |-> reserved[r][m] + c.meter[m]] \in [Meter -> Int]
    BY <2>1 DEF TypeOK
  <2>3. reserved' \in [Run -> [Meter -> Int]]
    BY <1>2, <2>2 DEF TypeOK, Reserve
  <2>4. reservedCost' \in [Run -> Int] /\ active' \in [Run -> Int]
    BY <1>2, <2>1 DEF TypeOK, Reserve
  <2>5. /\ held' \in [Reservation -> [run : Run, claim : Claim] \cup {Nil}]
        /\ issued' \in SUBSET Reservation
    BY <1>2 DEF TypeOK, Reserve
  <2> QED BY <1>2, <2>3, <2>4, <2>5 DEF TypeOK, Reserve, receipts
<1>3. ASSUME NEW i \in Reservation, NEW r \in Run, NEW u \in Usage, Commit(i, r, u)
      PROVE TypeOK'
  <2>1. u.meter \in [Meter -> Nat] /\ u.cost \in Nat
    BY UsageAssumption DEF UsageRecord
  <2>2. held[i] # Nil /\ GiveBack(i) /\ Charge(r, u) /\ FileReceipt(i, r, u)
    BY <1>3 DEF Commit, Covers
  <2>3. [m \in Meter |-> used[r][m] + u.meter[m]] \in [Meter -> Int]
    BY <2>1 DEF TypeOK
  <2>4. used' \in [Run -> [Meter -> Int]] /\ usedCost' \in [Run -> Int]
    BY <2>1, <2>2, <2>3 DEF TypeOK, Charge
  <2>5. /\ receipt' \in [Reservation -> [run : Run, usage : Usage] \cup {Nil}]
        /\ unsaved' \in [Reservation -> [run : Run, usage : Usage] \cup {Nil}]
    <3> DEFINE entry == [run |-> r, usage |-> u]
    <3>1. entry \in [run : Run, usage : Usage] \cup {Nil}
      OBVIOUS
    <3> HIDE DEF entry
    <3>2. CASE Shared
      BY <2>2, <3>1, <3>2 DEF TypeOK, FileReceipt, entry
    <3>3. CASE ~Shared
      BY <2>2, <3>1, <3>3 DEF TypeOK, FileReceipt, entry
    <3> QED BY <3>2, <3>3
  <2> QED BY <1>3, <2>2, <2>4, <2>5, GiveBackType DEF TypeOK, Commit
<1>4. ASSUME NEW i \in Reservation, SaveReceipt(i) PROVE TypeOK'
  BY <1>4 DEF TypeOK, SaveReceipt, amounts
<1>7. ASSUME NEW i \in Reservation, LoseReceipt(i) PROVE TypeOK'
  BY <1>7 DEF TypeOK, LoseReceipt, amounts
<1>5. ASSUME NEW i \in Reservation, Release(i) PROVE TypeOK'
  BY <1>5, GiveBackType DEF TypeOK, Release, receipts
<1>6. ASSUME UNCHANGED ledger PROVE TypeOK'
  BY <1>6 DEF TypeOK, ledger, receipts
<1> QED BY <1>1, <1>2, <1>3, <1>4, <1>5, <1>6, <1>7 DEF Next

\* Type correctness of the ledger: every counter stays an integer and every
\* stored reservation and receipt belongs to a run, for any set of callers.
THEOREM TypeCorrect == Spec => []TypeOK
<1>1. Init => TypeOK
  BY InitType
<1>2. TypeOK /\ [Next]_ledger => TypeOK'
  BY StepType
<1> QED BY <1>1, <1>2, PTL DEF Spec

-----------------------------------------------------------------------------

\* An unregistered run has nothing used, nothing reserved and no child: the
\* limits hold the moment it is registered.
Unregistered ==
    \A r \in Run : policy[r] = NoPolicy =>
        /\ \A m \in Meter : used[r][m] = 0 /\ reserved[r][m] = 0
        /\ active[r] = 0

\* An open reservation belongs to a registered run.
HeldRegistered == \A i \in Reservation : held[i] # Nil => policy[held[i].run] # NoPolicy

BudgetInv == TypeOK /\ Unregistered /\ HeldRegistered /\ NoOverspend

LEMMA StepInv == BudgetInv /\ [Next]_ledger => BudgetInv'
<1> SUFFICES ASSUME BudgetInv, [Next]_ledger PROVE BudgetInv'
  OBVIOUS
<1>0. TypeOK /\ TypeOK'
  BY StepType DEF BudgetInv
<1>1. ASSUME NEW r \in Run, NEW p \in Policy, RegisterRun(r, p) PROVE BudgetInv'
  <2>1. p # NoPolicy /\ p.limit \in [Meter -> Nat] /\ p.parallel \in Nat
    BY PolicyAssumption DEF PolicyRecord
  <2>2. policy'[r] = p /\ (\A q \in Run : q # r => policy'[q] = policy[q])
    BY <1>0, <1>1 DEF RegisterRun, TypeOK
  <2>3. Unregistered' /\ HeldRegistered'
    BY <1>0, <1>1, <2>1, <2>2 DEF BudgetInv, RegisterRun, Unregistered, HeldRegistered, TypeOK
  <2>4. ASSUME NEW q \in Registered' PROVE
           /\ \A m \in Meter : used'[q][m] + reserved'[q][m] <= policy'[q].limit[m]
           /\ active'[q] <= policy'[q].parallel
    <3>1. CASE q # r
      BY <1>1, <2>2, <2>4, <3>1 DEF BudgetInv, NoOverspend, RegisterRun, Registered
    <3>2. CASE q = r /\ policy[r] = NoPolicy
      BY <1>1, <2>1, <2>2, <3>2 DEF BudgetInv, Unregistered, RegisterRun
    <3>3. CASE q = r /\ policy[r] = p
      BY <1>1, <2>1, <2>2, <3>3 DEF BudgetInv, NoOverspend, RegisterRun, Registered
    <3> QED BY <1>1, <2>4, <3>1, <3>2, <3>3 DEF RegisterRun, Registrable, Registered
  <2> QED BY <1>0, <2>3, <2>4 DEF BudgetInv, NoOverspend
<1>2. ASSUME NEW r \in Run, NEW i \in Reservation, NEW c \in Claim, Reserve(r, i, c)
      PROVE BudgetInv'
  <2>1. policy' = policy /\ used' = used /\ policy[r] # NoPolicy
    BY <1>2 DEF Reserve, Fits
  <2>2. /\ \A q \in Run : q # r => reserved'[q] = reserved[q] /\ active'[q] = active[q]
        /\ \A m \in Meter : reserved'[r][m] = reserved[r][m] + c.meter[m]
        /\ active'[r] = active[r] + c.width
    BY <1>0, <1>2 DEF Reserve, TypeOK
  <2>3. Unregistered'
    BY <2>1, <2>2 DEF BudgetInv, Unregistered
  <2>4. HeldRegistered'
    BY <1>0, <1>2, <2>1 DEF BudgetInv, HeldRegistered, Reserve, TypeOK
  <2>5. c.meter \in [Meter -> Nat]
    BY ClaimAssumption DEF ClaimRecord
  <2>6. \A m \in Meter : used'[r][m] + reserved'[r][m] <= policy'[r].limit[m]
    <3> TAKE m \in Meter
    <3>1. used[r][m] \in Int /\ reserved[r][m] \in Int /\ c.meter[m] \in Int
      BY <1>0, <2>5 DEF TypeOK
    <3>2. used[r][m] + reserved[r][m] + c.meter[m] <= policy[r].limit[m]
      BY <1>2 DEF Reserve, Fits
    <3> QED BY <2>1, <2>2, <3>1, <3>2
  <2>7. active'[r] <= policy'[r].parallel
    BY <1>2, <2>1, <2>2 DEF Reserve, Fits
  <2>8. NoOverspend'
    BY <2>1, <2>2, <2>6, <2>7 DEF BudgetInv, NoOverspend, Registered
  <2> QED BY <1>0, <2>3, <2>4, <2>8 DEF BudgetInv
<1>3. ASSUME NEW i \in Reservation, held[i] # Nil, GiveBack(i), policy' = policy,
             \A q \in Run : q # held[i].run => used'[q] = used[q],
             \A m \in Meter :
                 used'[held[i].run][m] <= used[held[i].run][m] + held[i].claim.meter[m]
      PROVE BudgetInv'
  <2> DEFINE r == held[i].run
             c == held[i].claim
  <2>1. /\ r \in Run /\ policy[r] # NoPolicy
        /\ c.meter \in [Meter -> Nat] /\ c.width \in Nat
    BY <1>0, <1>3, HeldType DEF BudgetInv, HeldRegistered, ClaimRecord
  <2>2. /\ \A q \in Run : q # r => reserved'[q] = reserved[q] /\ active'[q] = active[q]
        /\ \A m \in Meter : reserved'[r][m] = reserved[r][m] - c.meter[m]
        /\ active'[r] = active[r] - c.width
    BY <1>0, <1>3, <2>1 DEF GiveBack, TypeOK
  <2>3. /\ \A q \in Run : q # r => used'[q] = used[q]
        /\ \A m \in Meter : used'[r][m] <= used[r][m] + c.meter[m]
    BY <1>3
  <2>4. Unregistered'
    BY <1>3, <2>1, <2>2, <2>3 DEF BudgetInv, Unregistered
  <2>5. HeldRegistered'
    BY <1>0, <1>3 DEF BudgetInv, HeldRegistered, GiveBack, TypeOK
  <2>6. \A m \in Meter : used'[r][m] + reserved'[r][m] <= policy'[r].limit[m]
    <3> TAKE m \in Meter
    <3>1. /\ used[r][m] \in Int /\ reserved[r][m] \in Int /\ c.meter[m] \in Int
          /\ used'[r][m] \in Int
      BY <1>0, <2>1 DEF TypeOK
    <3>2. used[r][m] + reserved[r][m] <= policy[r].limit[m]
      BY <2>1 DEF BudgetInv, NoOverspend, Registered
    <3>3. policy[r].limit[m] \in Int
      BY <1>0, <2>1, PolicyAssumption DEF TypeOK, PolicyRecord
    <3> QED BY <1>3, <2>2, <2>3, <3>1, <3>2, <3>3
  <2>7. active'[r] <= policy'[r].parallel
    <3>1. active[r] <= policy[r].parallel
      BY <2>1 DEF BudgetInv, NoOverspend, Registered
    <3>2. active[r] \in Int /\ policy[r].parallel \in Int
      BY <1>0, <2>1, PolicyAssumption DEF TypeOK, PolicyRecord
    <3> QED BY <1>3, <2>1, <2>2, <3>1, <3>2
  <2>8. NoOverspend'
    BY <1>3, <2>1, <2>2, <2>3, <2>6, <2>7 DEF BudgetInv, NoOverspend, Registered
  <2> QED BY <1>0, <2>4, <2>5, <2>8 DEF BudgetInv
<1>4. ASSUME NEW i \in Reservation, NEW r \in Run, NEW u \in Usage, Commit(i, r, u)
      PROVE BudgetInv'
  <2>1. /\ held[i] # Nil /\ held[i].run = r /\ GiveBack(i) /\ policy' = policy
        /\ \A m \in Meter : u.meter[m] <= held[i].claim.meter[m]
        /\ used' = [used EXCEPT ![r] = [m \in Meter |-> @[m] + u.meter[m]]]
    BY <1>4 DEF Commit, Covers, Charge
  <2>2. u.meter \in [Meter -> Nat] /\ held[i].claim.meter \in [Meter -> Nat]
    BY <1>0, <2>1, HeldType, UsageAssumption DEF UsageRecord, ClaimRecord
  <2>3. \A q \in Run : q # r => used'[q] = used[q]
    BY <1>0, <2>1 DEF TypeOK
  <2>4. \A m \in Meter : used'[r][m] <= used[r][m] + held[i].claim.meter[m]
    <3> TAKE m \in Meter
    <3>1. used'[r][m] = used[r][m] + u.meter[m]
      BY <1>0, <2>1 DEF TypeOK
    <3>2. used[r][m] \in Int /\ u.meter[m] \in Int /\ held[i].claim.meter[m] \in Int
      BY <1>0, <2>2 DEF TypeOK
    <3> QED BY <2>1, <3>1, <3>2
  <2> QED BY <1>3, <2>1, <2>3, <2>4
<1>5. ASSUME NEW i \in Reservation, SaveReceipt(i) PROVE BudgetInv'
  BY <1>0, <1>5 DEF BudgetInv, Unregistered, HeldRegistered, NoOverspend, Registered,
                    SaveReceipt, amounts
<1>8. ASSUME NEW i \in Reservation, LoseReceipt(i) PROVE BudgetInv'
  BY <1>0, <1>8 DEF BudgetInv, Unregistered, HeldRegistered, NoOverspend, Registered,
                    LoseReceipt, amounts
<1>6. ASSUME NEW i \in Reservation, Release(i) PROVE BudgetInv'
  <2>1. held[i] # Nil /\ GiveBack(i) /\ policy' = policy /\ used' = used
    BY <1>6 DEF Release
  <2>2. held[i].run \in Run /\ held[i].claim.meter \in [Meter -> Nat]
    BY <1>0, <2>1, HeldType DEF ClaimRecord
  <2>3. \A m \in Meter :
            used'[held[i].run][m] <= used[held[i].run][m] + held[i].claim.meter[m]
    BY <1>0, <2>1, <2>2 DEF TypeOK
  <2> QED BY <1>3, <2>1, <2>3
<1>7. ASSUME UNCHANGED ledger PROVE BudgetInv'
  BY <1>0, <1>7 DEF BudgetInv, Unregistered, HeldRegistered, NoOverspend, Registered, ledger
<1> QED BY <1>1, <1>2, <1>4, <1>5, <1>6, <1>7, <1>8 DEF Next

LEMMA InitInv == Init => BudgetInv
<1> SUFFICES ASSUME Init PROVE BudgetInv
  OBVIOUS
<1>1. TypeOK
  BY InitType
<1>2. Unregistered /\ HeldRegistered
  BY DEF Init, Unregistered, HeldRegistered
<1>3. NoOverspend
  BY DEF Init, NoOverspend, Registered
<1> QED BY <1>1, <1>2, <1>3 DEF BudgetInv

\* Concurrent children cannot overspend: for any number of runs, children,
\* meters and policies, used plus reserved stays within every limit.
THEOREM NeverOverspent == Spec => []NoOverspend
<1>1. Init => BudgetInv
  BY InitInv
<1>2. BudgetInv /\ [Next]_ledger => BudgetInv'
  BY StepInv
<1>3. BudgetInv => NoOverspend
  BY DEF BudgetInv
<1> QED BY <1>1, <1>2, <1>3, PTL DEF Spec

-----------------------------------------------------------------------------

\* The policy a run was registered with stays, and committed usage only grows.
THEOREM CommitmentsHold == Spec => CommitmentsKept
<1> DEFINE Kept == \A r \in Run :
                      /\ policy[r] # NoPolicy => policy'[r] = policy[r]
                      /\ \A m \in Meter : used'[r][m] >= used[r][m]
<1>1. ASSUME TypeOK, [Next]_ledger PROVE [Kept]_ledger
  <2>1. ASSUME policy' = policy, used' = used PROVE Kept
    BY <1>1, <2>1 DEF TypeOK
  <2>2. ASSUME NEW r \in Run, NEW p \in Policy, RegisterRun(r, p) PROVE Kept
    BY <1>1, <2>2 DEF TypeOK, RegisterRun, Registrable
  <2>3. ASSUME NEW i \in Reservation, NEW r \in Run, NEW u \in Usage, Commit(i, r, u)
        PROVE Kept
    <3>1. u.meter \in [Meter -> Nat]
      BY UsageAssumption DEF UsageRecord
    <3>2. policy' = policy /\ used' = [used EXCEPT ![r] = [m \in Meter |-> @[m] + u.meter[m]]]
      BY <2>3 DEF Commit, Charge
    <3>3. \A q \in Run : \A m \in Meter : used'[q][m] >= used[q][m]
      BY <1>1, <3>1, <3>2 DEF TypeOK
    <3> QED BY <3>2, <3>3
  <2>4. ASSUME NEW r \in Run, NEW i \in Reservation, NEW c \in Claim, Reserve(r, i, c)
        PROVE Kept
    BY <2>1, <2>4 DEF Reserve
  <2>5. ASSUME NEW i \in Reservation, SaveReceipt(i) \/ LoseReceipt(i) \/ Release(i)
        PROVE Kept
    BY <2>1, <2>5 DEF SaveReceipt, LoseReceipt, Release, amounts
  <2> QED BY <1>1, <2>2, <2>3, <2>4, <2>5 DEF Next
<1>2. Spec => []TypeOK
  BY TypeCorrect
<1> QED BY <1>1, <1>2, PTL DEF Spec, CommitmentsKept

-----------------------------------------------------------------------------
(* Totals.  MapThenSumSet takes the elements of a set one by one in the     *)
(* order CHOOSE gives; what follows shows that it terminates on a finite    *)
(* set and that the order does not matter.                                  *)

\* A non-empty set of naturals has a least element: proofs by induction are
\* written with it, as the search for a least counterexample.
LEMMA LeastNatural ==
    ASSUME NEW S, S \subseteq Nat, S # {}
    PROVE  \E x \in S : \A y \in S : x <= y
<1> DEFINE R == OpToRel(<, Nat)
<1>1. IsWellFoundedOn(R, Nat)
  BY NatLessThanWellFounded, Zenon DEF R
<1> HIDE DEF R
<1>2. PICK x \in S : \A y \in S : ~(<<y, x>> \in R)
  BY <1>1, WFMin
<1>3. \A y \in S : ~(y < x)
  <2> TAKE y \in S
  <2>1. <<y, x>> \in Nat \X Nat
    OBVIOUS
  <2> QED BY <1>2, <2>1 DEF R, OpToRel
<1> QED BY <1>2, <1>3

\* Among some subsets of a finite set there is one of least cardinality.
LEMMA SmallestSubset ==
    ASSUME NEW S, IsFiniteSet(S), NEW B, B \subseteq SUBSET S, B # {}
    PROVE  \E T \in B : \A U \in B : Cardinality(T) <= Cardinality(U)
<1> DEFINE sizes == {Cardinality(T) : T \in B}
<1>1. \A T \in B : Cardinality(T) \in Nat
  BY FS_Subset, FS_CardinalityType
<1>2. sizes \subseteq Nat /\ sizes # {}
  BY <1>1
<1>3. \E x \in sizes : \A y \in sizes : x <= y
  BY <1>2, LeastNatural
<1> QED BY <1>3

Pick(s) == CHOOSE x \in s : TRUE

\* h adds up f over the subsets of S, one element at a time.
Adds(h, f, S) ==
    h = [s \in SUBSET S |-> IF s = {} THEN 0 ELSE f[Pick(s)] + h[s \ {Pick(s)}]]

LEMMA Smaller ==
    ASSUME NEW S, IsFiniteSet(S), NEW s \in SUBSET S, NEW x \in s
    PROVE  /\ s \ {x} \in SUBSET S
           /\ Cardinality(s) \in Nat
           /\ Cardinality(s \ {x}) \in Nat
           /\ Cardinality(s \ {x}) = Cardinality(s) - 1
BY FS_Subset, FS_CardinalityType, FS_RemoveElement

LEMMA AddsExists ==
    ASSUME NEW S, IsFiniteSet(S), NEW f \in [S -> Int]
    PROVE  \E h \in [SUBSET S -> Int] : Adds(h, f, S)
<1> DEFINE Level(k) == {s \in SUBSET S : Cardinality(s) <= k}
           Sums(h, k) == \A s \in Level(k) :
                            h[s] = IF s = {} THEN 0 ELSE f[Pick(s)] + h[s \ {Pick(s)}]
           Good(k) == \E h \in [Level(k) -> Int] : Sums(h, k)
           bad == {k \in Nat : ~Good(k)}
<1>1. \A s \in SUBSET S : s # {} => Pick(s) \in s /\ Pick(s) \in S
  BY DEF Pick
<1>2. \A s \in SUBSET S : Cardinality(s) \in Nat /\ (Cardinality(s) = 0 <=> s = {})
  BY FS_Subset, FS_CardinalityType, FS_EmptySet
<1>3. Good(0)
  <2> DEFINE h == [s \in Level(0) |-> 0]
  <2>1. \A s \in Level(0) : s = {}
    BY <1>2
  <2>2. h \in [Level(0) -> Int] /\ Sums(h, 0)
    BY <2>1
  <2> QED BY <2>2
<1>4. ASSUME NEW k \in Nat, Good(k) PROVE Good(k + 1)
  <2>1. PICK g \in [Level(k) -> Int] : Sums(g, k)
    BY <1>4
  <2> DEFINE h == [s \in Level(k + 1) |->
                     IF s \in Level(k) THEN g[s] ELSE f[Pick(s)] + g[s \ {Pick(s)}]]
  <2>2. ASSUME NEW s \in Level(k + 1), s # {}
        PROVE  s \ {Pick(s)} \in Level(k) /\ s \ {Pick(s)} \in Level(k + 1)
    BY <1>1, <2>2, Smaller
  <2>3. \A s \in Level(k + 1) : s \notin Level(k) => s # {}
    BY <1>2
  <2>4. h \in [Level(k + 1) -> Int]
    BY <1>1, <2>2, <2>3
  <2>5. ASSUME NEW s \in Level(k + 1)
        PROVE  h[s] = IF s = {} THEN 0 ELSE f[Pick(s)] + h[s \ {Pick(s)}]
    <3>1. CASE s \in Level(k) /\ s = {}
      BY <2>1, <3>1
    <3>2. CASE s \in Level(k) /\ s # {}
      <4>1. h[s \ {Pick(s)}] = g[s \ {Pick(s)}]
        BY <2>2, <3>2
      <4>2. g[s] = f[Pick(s)] + g[s \ {Pick(s)}]
        BY <2>1, <3>2
      <4> QED BY <3>2, <4>1, <4>2
    <3>3. CASE s \notin Level(k)
      <4>1. h[s \ {Pick(s)}] = g[s \ {Pick(s)}]
        BY <2>2, <2>3, <3>3
      <4> QED BY <2>3, <3>3, <4>1
    <3> QED BY <3>1, <3>2, <3>3
  <2> HIDE DEF h
  <2> QED BY <2>4, <2>5
<1> HIDE DEF Good
<1>5. bad = {}
  <2> SUFFICES ASSUME bad # {} PROVE FALSE
    OBVIOUS
  <2>1. PICK k \in bad : \A i \in bad : k <= i
    BY LeastNatural
  <2>2. k # 0
    BY <1>3
  <2>3. k - 1 \in Nat /\ k - 1 \notin bad
    BY <2>1, <2>2
  <2> QED BY <1>4, <2>3
<1>6. Good(Cardinality(S))
  BY <1>2, <1>5
<1>7. Level(Cardinality(S)) = SUBSET S
  BY FS_Subset, <1>2
<1>8. PICK h \in [SUBSET S -> Int] : \A s \in SUBSET S :
                            h[s] = IF s = {} THEN 0 ELSE f[Pick(s)] + h[s \ {Pick(s)}]
  BY <1>6, <1>7 DEF Good
<1> QED BY <1>8 DEF Adds

\* What is added up is determined: two ways of adding up functions that agree on
\* a set of which both know all subsets give the same.
LEMMA AddsUnique ==
    ASSUME NEW S, IsFiniteSet(S), NEW f, NEW h, Adds(h, f, S),
           NEW T, IsFiniteSet(T), NEW g, NEW e, Adds(e, g, T),
           S \subseteq T, \A x \in S : f[x] = g[x]
    PROVE  \A s \in SUBSET S : h[s] = e[s]
<1> DEFINE bad == {s \in SUBSET S : h[s] # e[s]}
<1> SUFFICES ASSUME bad # {} PROVE FALSE
  OBVIOUS
<1>1. PICK s \in bad : \A t \in bad : Cardinality(s) <= Cardinality(t)
  BY SmallestSubset
<1>2. /\ h[s] = IF s = {} THEN 0 ELSE f[Pick(s)] + h[s \ {Pick(s)}]
      /\ e[s] = IF s = {} THEN 0 ELSE g[Pick(s)] + e[s \ {Pick(s)}]
  <2>1. s \in SUBSET S /\ s \in SUBSET T
    OBVIOUS
  <2> QED BY <2>1 DEF Adds
<1>3. CASE s = {}
  BY <1>2, <1>3
<1>4. CASE s # {}
  <2>1. Pick(s) \in s
    BY <1>4 DEF Pick
  <2>2. /\ s \ {Pick(s)} \in SUBSET S
        /\ ~(Cardinality(s) <= Cardinality(s \ {Pick(s)}))
    BY <2>1, Smaller
  <2>3. h[s \ {Pick(s)}] = e[s \ {Pick(s)}]
    BY <1>1, <2>2
  <2> QED BY <1>2, <1>4, <2>1, <2>3
<1> QED BY <1>3, <1>4

\* The order does not matter: any element can be added last.
AnyOrder(h, f, S) == \A s \in SUBSET S : \A x \in s : h[s] = f[x] + h[s \ {x}]

LEMMA AddsAny ==
    ASSUME NEW S, IsFiniteSet(S), NEW f \in [S -> Int],
           NEW h \in [SUBSET S -> Int], Adds(h, f, S)
    PROVE  AnyOrder(h, f, S)
<1> DEFINE bad == {s \in SUBSET S : \E x \in s : h[s] # f[x] + h[s \ {x}]}
<1> SUFFICES ASSUME bad # {} PROVE FALSE
  BY DEF AnyOrder
<1>0. bad \subseteq SUBSET S
  OBVIOUS
<1>1. \E s \in bad : \A t \in bad : Cardinality(s) <= Cardinality(t)
  <2> HIDE DEF bad
  <2> QED BY <1>0, SmallestSubset
<1> PICK s \in bad : \A t \in bad : Cardinality(s) <= Cardinality(t)
  BY <1>1
<1>2. PICK x \in s : h[s] # f[x] + h[s \ {x}]
  OBVIOUS
<1> DEFINE p == Pick(s)
<1>3. p \in s /\ p \in S /\ x \in S
  BY <1>2 DEF Pick
<1>4. h[s] = f[p] + h[s \ {p}]
  BY <1>3 DEF Adds
<1> HIDE DEF p
<1>5. p # x
  BY <1>2, <1>4
<1>6. s \ {p} \in SUBSET S /\ s \ {p} \notin bad
  <2>1. ~(Cardinality(s) <= Cardinality(s \ {p}))
    BY <1>3, Smaller
  <2> QED BY <1>1, <2>1
<1>7. s \ {x} \in SUBSET S /\ s \ {x} \notin bad
  <2>1. ~(Cardinality(s) <= Cardinality(s \ {x}))
    BY <1>3, Smaller
  <2> QED BY <1>1, <2>1
<1>8. h[s \ {p}] = f[x] + h[(s \ {p}) \ {x}]
  BY <1>2, <1>5, <1>6
<1>9. h[s \ {x}] = f[p] + h[(s \ {x}) \ {p}]
  BY <1>3, <1>5, <1>7
<1>10. (s \ {p}) \ {x} = (s \ {x}) \ {p}
  OBVIOUS
<1> DEFINE rest == h[(s \ {x}) \ {p}]
<1>11. f[p] \in Int /\ f[x] \in Int /\ rest \in Int
  BY <1>3
<1>12. h[s \ {p}] = f[x] + rest /\ h[s \ {x}] = f[p] + rest
  BY <1>8, <1>9, <1>10
<1> HIDE DEF rest, bad
<1> QED BY <1>2, <1>4, <1>11, <1>12

\* Total adds up its argument.
LEMMA TotalAdds ==
    ASSUME NEW S, IsFiniteSet(S), NEW f \in [S -> Int]
    PROVE  \E h \in [SUBSET S -> Int] : Adds(h, f, S) /\ Total(f) = h[S]
<1> DEFINE h == CHOOSE h : Adds(h, f, S)
<1>1. PICK e \in [SUBSET S -> Int] : Adds(e, f, S)
  BY AddsExists
<1>2. Adds(h, f, S)
  BY <1>1
<1>3. Total(f) = h[S]
  <2>1. DOMAIN f = S
    OBVIOUS
  <2> QED BY <2>1, Zenon DEF Total, MapThenSumSet, MapThenFoldSet, Adds, Pick
<1> HIDE DEF h
<1>4. \A s \in SUBSET S : h[s] = e[s]
  BY <1>1, <1>2, AddsUnique
<1>5. h \in [SUBSET S -> Int]
  <2>1. h = [s \in SUBSET S |-> h[s]]
    BY <1>2 DEF Adds
  <2>2. \A s \in SUBSET S : h[s] \in Int
    BY <1>4
  <2> QED BY <2>1, <2>2
<1> QED BY <1>2, <1>3, <1>5

LEMMA TotalType ==
    ASSUME NEW S, IsFiniteSet(S), NEW f \in [S -> Int]
    PROVE  Total(f) \in Int
<1>1. PICK h \in [SUBSET S -> Int] : Total(f) = h[S]
  BY TotalAdds
<1> QED BY <1>1

LEMMA TotalEmpty ==
    ASSUME NEW f \in [{} -> Int]
    PROVE  Total(f) = 0
<1>1. PICK h \in [SUBSET {} -> Int] : Adds(h, f, {}) /\ Total(f) = h[{}]
  BY TotalAdds, FS_EmptySet
<1> QED BY <1>1 DEF Adds

\* a exceeds b by d.
MoreBy(a, b, d) == a = b + d

\* One element of the domain less: its value less.
LEMMA TotalRemove ==
    ASSUME NEW T, IsFiniteSet(T), NEW g \in [T -> Int],
           NEW x \in T, NEW f \in [T \ {x} -> Int], \A y \in T \ {x} : f[y] = g[y]
    PROVE  MoreBy(Total(g), Total(f), g[x])
<1> DEFINE S == T \ {x}
<1>1. IsFiniteSet(S) /\ S \subseteq T /\ f \in [S -> Int] /\ \A y \in S : f[y] = g[y]
  BY FS_RemoveElement
<1>2. PICK e \in [SUBSET T -> Int] : Adds(e, g, T) /\ Total(g) = e[T]
  BY TotalAdds
<1>3. e[T] = g[x] + e[T \ {x}]
  <2>1. AnyOrder(e, g, T)
    BY <1>2, AddsAny
  <2> QED BY <2>1 DEF AnyOrder
<1> HIDE DEF S
<1>4. PICK h \in [SUBSET S -> Int] : Adds(h, f, S) /\ Total(f) = h[S]
  BY <1>1, TotalAdds
<1>5. \A s \in SUBSET S : h[s] = e[s]
  BY <1>1, <1>2, <1>4, AddsUnique
<1>6. h[S] = e[S] /\ h[S] \in Int /\ g[x] \in Int
  BY <1>5
<1>7. e[T \ {x}] = e[S]
  BY DEF S
<1> QED BY <1>2, <1>3, <1>4, <1>6, <1>7 DEF MoreBy

\* A part of the terms of a sum of naturals adds up to no more than the sum.
LEMMA TotalPart ==
    ASSUME NEW T, IsFiniteSet(T), NEW g \in [T -> Nat], NEW S \in SUBSET T
    PROVE  Total([y \in S |-> g[y]]) <= Total(g)
<1> DEFINE part(U) == [y \in U |-> g[y]]
           sum(U) == Total(part(U))
           bad == {U \in SUBSET T : S \subseteq U /\ ~(sum(S) <= sum(U))}
<1>1. ASSUME NEW U \in SUBSET T PROVE IsFiniteSet(U) /\ part(U) \in [U -> Int]
  BY FS_Subset
<1>2. \A U \in SUBSET T : sum(U) \in Int
  BY <1>1, TotalType
<1>3. ASSUME NEW U \in SUBSET T, NEW x \in U PROVE sum(U \ {x}) <= sum(U)
  <2>1. U \ {x} \in SUBSET T /\ g[x] \in Nat /\ part(U)[x] = g[x]
    OBVIOUS
  <2>2. part(U \ {x}) \in [U \ {x} -> Int]
    BY <1>1, <2>1
  <2>3. \A y \in U \ {x} : part(U \ {x})[y] = part(U)[y]
    OBVIOUS
  <2> HIDE DEF part
  <2>4. MoreBy(Total(part(U)), Total(part(U \ {x})), part(U)[x])
    BY <1>1, <2>2, <2>3, TotalRemove
  <2> QED BY <1>2, <2>1, <2>4 DEF MoreBy
<1> HIDE DEF part, sum
<1>4. bad = {}
  <2> SUFFICES ASSUME bad # {} PROVE FALSE
    OBVIOUS
  <2>1. PICK U \in bad : \A V \in bad : Cardinality(U) <= Cardinality(V)
    BY SmallestSubset
  <2>2. PICK x \in U : x \notin S
    BY <1>2, <2>1
  <2>3. U \ {x} \in SUBSET T /\ S \subseteq U \ {x} /\ U \in SUBSET T
    BY <2>1, <2>2
  <2>4. U \ {x} \notin bad
    BY <2>1, <2>2, <2>3, Smaller
  <2>5. sum(S) <= sum(U \ {x}) /\ sum(U \ {x}) <= sum(U)
    BY <1>3, <2>3, <2>4
  <2> QED BY <1>2, <2>1, <2>3, <2>5
<1>5. sum(S) <= sum(T)
  BY <1>4
<1>6. part(T) = g
  BY DEF part
<1> QED BY <1>5, <1>6 DEF sum, part

-----------------------------------------------------------------------------
(* The counters and the open reservations                                  *)

\* Every reservation, receipt and unsaved receipt has an issued id; finitely many
\* were issued; and an id is open, committed but not filed, or filed, never two of
\* these at once.
FileInv ==
    /\ IsFiniteSet(issued)
    /\ \A i \in Reservation :
          /\ held[i] # Nil => i \in issued /\ receipt[i] = Nil /\ unsaved[i] = Nil
          /\ unsaved[i] # Nil => i \in issued /\ receipt[i] = Nil
          /\ receipt[i] # Nil => i \in issued

LEMMA ClaimAmounts ==
    ASSUME NEW h \in [Reservation -> [run : Run, claim : Claim] \cup {Nil}],
           NEW j \in Reservation, h[j] # Nil
    PROVE  /\ h[j].run \in Run /\ h[j].claim.meter \in [Meter -> Nat]
           /\ h[j].claim.cost \in Nat /\ h[j].claim.width \in Nat
<1>1. h[j].run \in Run /\ h[j].claim \in ClaimRecord
  BY ClaimAssumption
<1> QED BY <1>1 DEF ClaimRecord

\* TotalRemove for functions given by an expression.
LEMMA OneMore ==
    ASSUME NEW T, IsFiniteSet(T), NEW i \in T, NEW S, S = T \ {i},
           NEW f, f = [j \in S |-> f[j]], NEW g, g = [j \in T |-> g[j]],
           \A j \in T : g[j] \in Int, \A j \in S : f[j] = g[j]
    PROVE  MoreBy(Total(g), Total(f), g[i]) /\ Total(f) \in Int
<1>1. g \in [T -> Int] /\ f \in [T \ {i} -> Int] /\ f \in [S -> Int]
  OBVIOUS
<1>2. IsFiniteSet(S)
  BY FS_RemoveElement
<1> QED BY <1>1, <1>2, TotalRemove, TotalType

LEMMA OpenFinite ==
    ASSUME NEW h \in [Reservation -> [run : Run, claim : Claim] \cup {Nil}],
           NEW S, IsFiniteSet(S), \A i \in Reservation : h[i] # Nil => i \in S, NEW r
    PROVE  IsFiniteSet({i \in Reservation : h[i] # Nil /\ h[i].run = r})
BY FS_Subset

\* An accepted reservation adds to the counters what it adds to the open ones.
LEMMA ReserveCounts ==
    ASSUME TypeOK, TypeOK', FileInv, FileInv', CountersMatchOpen,
           NEW r \in Run, NEW i \in Reservation, NEW c \in Claim, Reserve(r, i, c)
    PROVE  CountersMatchOpen'
<1>0. /\ held' \in [Reservation -> [run : Run, claim : Claim] \cup {Nil}]
      /\ IsFiniteSet(Open(r)')
  <2>1. held' \in [Reservation -> [run : Run, claim : Claim] \cup {Nil}]
    BY DEF TypeOK
  <2>2. IsFiniteSet(issued') /\ \A j \in Reservation : held'[j] # Nil => j \in issued'
    BY DEF FileInv
  <2> QED BY <2>1, <2>2, OpenFinite DEF Open
<1>1. c.meter \in [Meter -> Nat] /\ c.cost \in Nat /\ c.width \in Nat
  BY ClaimAssumption DEF ClaimRecord
<1>2. \A j \in Reservation : held'[j] = IF j = i THEN [run |-> r, claim |-> c] ELSE held[j]
  BY DEF Reserve, TypeOK
<1>3. held'[i] # Nil /\ held'[i].run = r /\ held'[i].claim = c /\ held[i] = Nil
  BY <1>2, ClaimAssumption, NilAssumption DEF Reserve, FileInv
<1>4. \A q \in Run : q # r => Open(q)' = Open(q)
  BY <1>2, <1>3 DEF Open
<1>5. i \in Open(r)' /\ Open(r)' \ {i} = Open(r)
  BY <1>2, <1>3 DEF Open
<1>6. \A j \in Open(r) : held'[j] = held[j]
  BY <1>2, <1>3 DEF Open
<1>7. ASSUME NEW q \in Run, q # r
      PROVE  /\ \A m \in Meter :
                    reserved'[q][m] = Total([j \in Open(q) |-> held[j].claim.meter[m]])'
             /\ reservedCost'[q] = Total([j \in Open(q) |-> held[j].claim.cost])'
             /\ active'[q] = Total([j \in Open(q) |-> held[j].claim.width])'
  <2>1. /\ reserved'[q] = reserved[q]
        /\ reservedCost'[q] = reservedCost[q]
        /\ active'[q] = active[q]
    BY <1>7 DEF Reserve, TypeOK
  <2>2. \A j \in Open(q) : held'[j] = held[j]
    BY <1>2, <1>3 DEF Open
  <2>3. /\ \A m \in Meter : [j \in Open(q) |-> held[j].claim.meter[m]]'
                          = [j \in Open(q) |-> held[j].claim.meter[m]]
        /\ [j \in Open(q) |-> held[j].claim.cost]' = [j \in Open(q) |-> held[j].claim.cost]
        /\ [j \in Open(q) |-> held[j].claim.width]' = [j \in Open(q) |-> held[j].claim.width]
    BY <1>4, <1>7, <2>2
  <2> QED BY <2>1, <2>3 DEF CountersMatchOpen
<1>8. ASSUME NEW m \in Meter
      PROVE  reserved'[r][m] = Total([j \in Open(r) |-> held[j].claim.meter[m]])'
  <2> DEFINE f == [j \in Open(r) |-> held[j].claim.meter[m]]
             g == [j \in Open(r)' |-> held'[j].claim.meter[m]]
  <2>1. \A j \in Open(r)' : g[j] \in Int
    BY <1>0, ClaimAmounts DEF Open
  <2>2. \A j \in Open(r) : f[j] = g[j]
    BY <1>5, <1>6
  <2>3. g[i] = c.meter[m] /\ g[i] \in Int
    BY <1>1, <1>3, <1>5
  <2>4. reserved'[r][m] = reserved[r][m] + c.meter[m] /\ reserved[r][m] = Total(f)
    BY DEF Reserve, TypeOK, CountersMatchOpen
  <2>5. f = [j \in Open(r) |-> f[j]] /\ g = [j \in Open(r)' |-> g[j]]
    OBVIOUS
  <2> HIDE DEF f, g
  <2>6. MoreBy(Total(g), Total(f), g[i]) /\ Total(f) \in Int
    BY <1>0, <1>5, <2>1, <2>2, <2>5, OneMore
  <2>7. reserved'[r][m] = Total(g)
    BY <2>3, <2>4, <2>6 DEF MoreBy
  <2> QED BY <2>7 DEF g
<1>9. reservedCost'[r] = Total([j \in Open(r) |-> held[j].claim.cost])'
  <2> DEFINE f == [j \in Open(r) |-> held[j].claim.cost]
             g == [j \in Open(r)' |-> held'[j].claim.cost]
  <2>1. \A j \in Open(r)' : g[j] \in Int
    BY <1>0, ClaimAmounts DEF Open
  <2>2. \A j \in Open(r) : f[j] = g[j]
    BY <1>5, <1>6
  <2>3. g[i] = c.cost /\ g[i] \in Int
    BY <1>1, <1>3, <1>5
  <2>4. reservedCost'[r] = reservedCost[r] + c.cost /\ reservedCost[r] = Total(f)
    BY DEF Reserve, TypeOK, CountersMatchOpen
  <2>5. f = [j \in Open(r) |-> f[j]] /\ g = [j \in Open(r)' |-> g[j]]
    OBVIOUS
  <2> HIDE DEF f, g
  <2>6. MoreBy(Total(g), Total(f), g[i]) /\ Total(f) \in Int
    BY <1>0, <1>5, <2>1, <2>2, <2>5, OneMore
  <2>7. reservedCost'[r] = Total(g)
    BY <2>3, <2>4, <2>6 DEF MoreBy
  <2> QED BY <2>7 DEF g
<1>10. active'[r] = Total([j \in Open(r) |-> held[j].claim.width])'
  <2> DEFINE f == [j \in Open(r) |-> held[j].claim.width]
             g == [j \in Open(r)' |-> held'[j].claim.width]
  <2>1. \A j \in Open(r)' : g[j] \in Int
    BY <1>0, ClaimAmounts DEF Open
  <2>2. \A j \in Open(r) : f[j] = g[j]
    BY <1>5, <1>6
  <2>3. g[i] = c.width /\ g[i] \in Int
    BY <1>1, <1>3, <1>5
  <2>4. active'[r] = active[r] + c.width /\ active[r] = Total(f)
    BY DEF Reserve, TypeOK, CountersMatchOpen
  <2>5. f = [j \in Open(r) |-> f[j]] /\ g = [j \in Open(r)' |-> g[j]]
    OBVIOUS
  <2> HIDE DEF f, g
  <2>6. MoreBy(Total(g), Total(f), g[i]) /\ Total(f) \in Int
    BY <1>0, <1>5, <2>1, <2>2, <2>5, OneMore
  <2>7. active'[r] = Total(g)
    BY <2>3, <2>4, <2>6 DEF MoreBy
  <2> QED BY <2>7 DEF g
<1> QED BY <1>7, <1>8, <1>9, <1>10 DEF CountersMatchOpen

\* A reservation handed back takes from the counters what it added to them.
LEMMA GiveBackCounts ==
    ASSUME TypeOK, FileInv, CountersMatchOpen, NEW i \in Reservation, held[i] # Nil, GiveBack(i)
    PROVE  CountersMatchOpen'
<1> PICK r : r = held[i].run
  OBVIOUS
<1> PICK c : c = held[i].claim
  OBVIOUS
<1>0. /\ held \in [Reservation -> [run : Run, claim : Claim] \cup {Nil}]
      /\ IsFiniteSet(Open(r))
  <2>1. held \in [Reservation -> [run : Run, claim : Claim] \cup {Nil}]
    BY DEF TypeOK
  <2>2. IsFiniteSet(issued) /\ \A j \in Reservation : held[j] # Nil => j \in issued
    BY DEF FileInv
  <2> QED BY <2>1, <2>2, OpenFinite DEF Open
<1>1. r \in Run /\ c.meter \in [Meter -> Nat] /\ c.cost \in Nat /\ c.width \in Nat
  BY <1>0, ClaimAmounts
<1>2. \A j \in Reservation : held'[j] = IF j = i THEN Nil ELSE held[j]
  BY DEF GiveBack, TypeOK
<1>4. \A q \in Run : q # r => Open(q)' = Open(q)
  BY <1>2 DEF Open
<1>5. i \in Open(r) /\ Open(r)' = Open(r) \ {i}
  BY <1>2 DEF Open
<1>6. \A j \in Open(r)' : held'[j] = held[j]
  BY <1>2 DEF Open
<1>7. ASSUME NEW q \in Run, q # r
      PROVE  /\ \A m \in Meter :
                    reserved'[q][m] = Total([j \in Open(q) |-> held[j].claim.meter[m]])'
             /\ reservedCost'[q] = Total([j \in Open(q) |-> held[j].claim.cost])'
             /\ active'[q] = Total([j \in Open(q) |-> held[j].claim.width])'
  <2>1. /\ reserved'[q] = reserved[q]
        /\ reservedCost'[q] = reservedCost[q]
        /\ active'[q] = active[q]
    BY <1>1, <1>7 DEF GiveBack, TypeOK
  <2>2. \A j \in Open(q) : held'[j] = held[j]
    BY <1>2, <1>7 DEF Open
  <2>3. /\ \A m \in Meter : [j \in Open(q) |-> held[j].claim.meter[m]]'
                          = [j \in Open(q) |-> held[j].claim.meter[m]]
        /\ [j \in Open(q) |-> held[j].claim.cost]' = [j \in Open(q) |-> held[j].claim.cost]
        /\ [j \in Open(q) |-> held[j].claim.width]' = [j \in Open(q) |-> held[j].claim.width]
    BY <1>4, <1>7, <2>2
  <2> QED BY <2>1, <2>3 DEF CountersMatchOpen
<1>8. ASSUME NEW m \in Meter
      PROVE  reserved'[r][m] = Total([j \in Open(r)' |-> held'[j].claim.meter[m]])
  <2> DEFINE f == [j \in Open(r)' |-> held'[j].claim.meter[m]]
             g == [j \in Open(r) |-> held[j].claim.meter[m]]
  <2>1. \A j \in Open(r) : g[j] \in Int
    BY <1>0, ClaimAmounts DEF Open
  <2>2. \A j \in Open(r)' : f[j] = g[j]
    BY <1>5, <1>6
  <2>3. g[i] = c.meter[m] /\ g[i] \in Int
    BY <1>1, <1>5
  <2>4. reserved'[r][m] = reserved[r][m] - c.meter[m] /\ reserved[r][m] = Total(g)
    BY <1>1 DEF GiveBack, TypeOK, CountersMatchOpen
  <2>5. f = [j \in Open(r)' |-> f[j]] /\ g = [j \in Open(r) |-> g[j]]
    OBVIOUS
  <2> HIDE DEF f, g
  <2>6. MoreBy(Total(g), Total(f), g[i]) /\ Total(f) \in Int
    BY <1>0, <1>5, <2>1, <2>2, <2>5, OneMore
  <2>7. reserved'[r][m] = Total(f)
    BY <2>3, <2>4, <2>6 DEF MoreBy
  <2> QED BY <2>7 DEF f
<1>9. reservedCost'[r] = Total([j \in Open(r)' |-> held'[j].claim.cost])
  <2> DEFINE f == [j \in Open(r)' |-> held'[j].claim.cost]
             g == [j \in Open(r) |-> held[j].claim.cost]
  <2>1. \A j \in Open(r) : g[j] \in Int
    BY <1>0, ClaimAmounts DEF Open
  <2>2. \A j \in Open(r)' : f[j] = g[j]
    BY <1>5, <1>6
  <2>3. g[i] = c.cost /\ g[i] \in Int
    BY <1>1, <1>5
  <2>4. reservedCost'[r] = reservedCost[r] - c.cost /\ reservedCost[r] = Total(g)
    BY <1>1 DEF GiveBack, TypeOK, CountersMatchOpen
  <2>5. f = [j \in Open(r)' |-> f[j]] /\ g = [j \in Open(r) |-> g[j]]
    OBVIOUS
  <2> HIDE DEF f, g
  <2>6. MoreBy(Total(g), Total(f), g[i]) /\ Total(f) \in Int
    BY <1>0, <1>5, <2>1, <2>2, <2>5, OneMore
  <2>7. reservedCost'[r] = Total(f)
    BY <2>3, <2>4, <2>6 DEF MoreBy
  <2> QED BY <2>7 DEF f
<1>10. active'[r] = Total([j \in Open(r)' |-> held'[j].claim.width])
  <2> DEFINE f == [j \in Open(r)' |-> held'[j].claim.width]
             g == [j \in Open(r) |-> held[j].claim.width]
  <2>1. \A j \in Open(r) : g[j] \in Int
    BY <1>0, ClaimAmounts DEF Open
  <2>2. \A j \in Open(r)' : f[j] = g[j]
    BY <1>5, <1>6
  <2>3. g[i] = c.width /\ g[i] \in Int
    BY <1>1, <1>5
  <2>4. active'[r] = active[r] - c.width /\ active[r] = Total(g)
    BY <1>1 DEF GiveBack, TypeOK, CountersMatchOpen
  <2>5. f = [j \in Open(r)' |-> f[j]] /\ g = [j \in Open(r) |-> g[j]]
    OBVIOUS
  <2> HIDE DEF f, g
  <2>6. MoreBy(Total(g), Total(f), g[i]) /\ Total(f) \in Int
    BY <1>0, <1>5, <2>1, <2>2, <2>5, OneMore
  <2>7. active'[r] = Total(f)
    BY <2>3, <2>4, <2>6 DEF MoreBy
  <2> QED BY <2>7 DEF f
<1> QED BY <1>1, <1>7, <1>8, <1>9, <1>10 DEF CountersMatchOpen

LEMMA FileStep == TypeOK /\ FileInv /\ [Next]_ledger => FileInv'
<1> SUFFICES ASSUME TypeOK, FileInv, [Next]_ledger PROVE FileInv'
  OBVIOUS
<1> USE DEF FileInv
<1>1. ASSUME NEW r \in Run, NEW p \in Policy, RegisterRun(r, p) PROVE FileInv'
  BY <1>1 DEF RegisterRun, receipts
<1>2. ASSUME NEW r \in Run, NEW i \in Reservation, NEW c \in Claim, Reserve(r, i, c)
      PROVE FileInv'
  <2>1. IsFiniteSet(issued')
    BY <1>2, FS_AddElement DEF Reserve
  <2> QED BY <1>2, <2>1 DEF Reserve, TypeOK, receipts
<1>3. ASSUME NEW i \in Reservation, NEW r \in Run, NEW u \in Usage, Commit(i, r, u)
      PROVE FileInv'
  <2>1. held[i] # Nil /\ GiveBack(i) /\ FileReceipt(i, r, u) /\ issued' = issued
    BY <1>3 DEF Commit, Covers
  <2>2. \A j \in Reservation : held'[j] = IF j = i THEN Nil ELSE held[j]
    BY <2>1 DEF GiveBack, TypeOK
  <2>3. CASE Shared
    BY <2>1, <2>2, <2>3 DEF FileReceipt, TypeOK
  <2>4. CASE ~Shared
    BY <2>1, <2>2, <2>4 DEF FileReceipt, TypeOK
  <2> QED BY <2>3, <2>4
<1>4. ASSUME NEW i \in Reservation, SaveReceipt(i) PROVE FileInv'
  BY <1>4 DEF SaveReceipt, TypeOK
<1>7. ASSUME NEW i \in Reservation, LoseReceipt(i) PROVE FileInv'
  BY <1>7 DEF LoseReceipt
<1>5. ASSUME NEW i \in Reservation, Release(i) PROVE FileInv'
  BY <1>5 DEF Release, GiveBack, TypeOK, receipts
<1>6. ASSUME UNCHANGED ledger PROVE FileInv'
  BY <1>6 DEF ledger, receipts
<1> QED BY <1>1, <1>2, <1>3, <1>4, <1>5, <1>6, <1>7 DEF Next

LEMMA CountStep ==
    TypeOK /\ FileInv /\ CountersMatchOpen /\ [Next]_ledger => CountersMatchOpen'
<1> SUFFICES ASSUME TypeOK, FileInv, CountersMatchOpen, [Next]_ledger
             PROVE  CountersMatchOpen'
  OBVIOUS
<1>0. TypeOK' /\ FileInv'
  BY StepType, FileStep
<1>1. ASSUME UNCHANGED <<reserved, reservedCost, active, held>> PROVE CountersMatchOpen'
  BY <1>1 DEF CountersMatchOpen, Open
<1>2. ASSUME NEW r \in Run, NEW p \in Policy, RegisterRun(r, p) PROVE CountersMatchOpen'
  BY <1>1, <1>2 DEF RegisterRun
<1>3. ASSUME NEW r \in Run, NEW i \in Reservation, NEW c \in Claim, Reserve(r, i, c)
      PROVE CountersMatchOpen'
  BY <1>0, <1>3, ReserveCounts
<1>4. ASSUME NEW i \in Reservation, NEW r \in Run, NEW u \in Usage, Commit(i, r, u)
      PROVE CountersMatchOpen'
  BY <1>4, GiveBackCounts DEF Commit, Covers
<1>5. ASSUME NEW i \in Reservation, SaveReceipt(i) PROVE CountersMatchOpen'
  BY <1>1, <1>5 DEF SaveReceipt, amounts
<1>8. ASSUME NEW i \in Reservation, LoseReceipt(i) PROVE CountersMatchOpen'
  BY <1>1, <1>8 DEF LoseReceipt, amounts
<1>6. ASSUME NEW i \in Reservation, Release(i) PROVE CountersMatchOpen'
  BY <1>6, GiveBackCounts DEF Release
<1>7. ASSUME UNCHANGED ledger PROVE CountersMatchOpen'
  BY <1>1, <1>7 DEF ledger
<1> QED BY <1>2, <1>3, <1>4, <1>5, <1>6, <1>7, <1>8 DEF Next

LEMMA CountInit == Init => FileInv /\ CountersMatchOpen
<1> SUFFICES ASSUME Init PROVE FileInv /\ CountersMatchOpen
  OBVIOUS
<1>1. FileInv
  BY FS_EmptySet DEF Init, FileInv
<1>2. \A r \in Run : Open(r) = {}
  BY DEF Init, Open
<1>3. ASSUME NEW r \in Run, NEW f, f = [i \in Open(r) |-> f[i]] PROVE Total(f) = 0
  BY <1>2, <1>3, TotalEmpty
<1>4. ASSUME NEW r \in Run
      PROVE  /\ \A m \in Meter : Total([i \in Open(r) |-> held[i].claim.meter[m]]) = 0
             /\ Total([i \in Open(r) |-> held[i].claim.cost]) = 0
             /\ Total([i \in Open(r) |-> held[i].claim.width]) = 0
  BY <1>3
<1>5. CountersMatchOpen
  BY <1>4 DEF Init, CountersMatchOpen
<1> QED BY <1>1, <1>5

\* No path of reserve, commit and release returns too much or too little: for any
\* set of runs, meters, policies and reservations the counters that reserve
\* consults are the sums of the open reservations.
THEOREM CountersExact == Spec => []CountersMatchOpen
<1> QED BY InitType, StepType, CountInit, FileStep, CountStep, PTL DEF Spec

-----------------------------------------------------------------------------
(* The usage list and the committed usage                                  *)

\* The records of a run in h, which is receipt or unsaved, and what they add up to.
Filed(h, r) == {i \in Reservation : h[i] # Nil /\ h[i].run = r}
FiledTotal(h, r, m) == Total([i \in Filed(h, r) |-> h[i].usage.meter[m]])

RecordMap == [Reservation -> [run : Run, usage : Usage] \cup {Nil}]

LEMMA UsageAmounts ==
    ASSUME NEW h \in RecordMap, NEW j \in Reservation, h[j] # Nil
    PROVE  h[j].run \in Run /\ h[j].usage.meter \in [Meter -> Nat]
<1>1. h[j].run \in Run /\ h[j].usage \in UsageRecord
  BY UsageAssumption DEF RecordMap
<1> QED BY <1>1 DEF UsageRecord

\* A record put where there was none adds its usage to the total of its run and
\* to no other.
LEMMA FileOne ==
    ASSUME NEW h \in RecordMap, NEW e \in RecordMap, NEW i \in Reservation,
           h[i] = Nil, e[i] # Nil, \A j \in Reservation : j # i => e[j] = h[j],
           NEW S, IsFiniteSet(S), \A j \in Reservation : e[j] # Nil => j \in S,
           NEW q \in Run, NEW m \in Meter
    PROVE  /\ FiledTotal(h, q, m) \in Int
           /\ e[i].run = q
                => MoreBy(FiledTotal(e, q, m), FiledTotal(h, q, m), e[i].usage.meter[m])
           /\ e[i].run # q => FiledTotal(e, q, m) = FiledTotal(h, q, m)
<1> DEFINE f == [j \in Filed(h, q) |-> h[j].usage.meter[m]]
           g == [j \in Filed(e, q) |-> e[j].usage.meter[m]]
<1>1. Filed(e, q) \in SUBSET S
  BY DEF Filed
<1>2. IsFiniteSet(Filed(e, q))
  BY <1>1, FS_Subset
<1>3. \A j \in Filed(e, q) : g[j] \in Int
  BY UsageAmounts DEF Filed
<1>4. \A j \in Filed(h, q) : j \in Filed(e, q) /\ f[j] = g[j] /\ j # i
  BY DEF Filed
<1>5. f = [j \in Filed(h, q) |-> f[j]] /\ g = [j \in Filed(e, q) |-> g[j]]
  OBVIOUS
<1>6. CASE e[i].run = q
  <2>1. i \in Filed(e, q) /\ Filed(h, q) = Filed(e, q) \ {i}
    BY <1>6 DEF Filed
  <2>2. g[i] = e[i].usage.meter[m]
    BY <2>1
  <2> HIDE DEF f, g
  <2>3. MoreBy(Total(g), Total(f), g[i]) /\ Total(f) \in Int
    BY <1>2, <1>3, <1>4, <1>5, <2>1, OneMore
  <2> QED BY <1>6, <2>2, <2>3 DEF FiledTotal, f, g
<1>7. CASE e[i].run # q
  <2>1. Filed(h, q) = Filed(e, q)
    BY <1>7 DEF Filed
  <2>2. f = g
    BY <1>4, <2>1
  <2>3. f \in [Filed(e, q) -> Int]
    BY <1>3, <2>2
  <2> HIDE DEF f, g
  <2>4. Total(f) \in Int
    BY <1>2, <2>3, TotalType
  <2> QED BY <1>7, <2>2, <2>4 DEF FiledTotal, f, g
<1> QED BY <1>6, <1>7

LEMMA FiledType ==
    ASSUME NEW h \in RecordMap, NEW S, IsFiniteSet(S),
           \A j \in Reservation : h[j] # Nil => j \in S, NEW q \in Run, NEW m \in Meter
    PROVE  FiledTotal(h, q, m) \in Int
<1>1. Filed(h, q) \in SUBSET S
  BY DEF Filed
<1>2. IsFiniteSet(Filed(h, q))
  BY <1>1, FS_Subset
<1>3. [j \in Filed(h, q) |-> h[j].usage.meter[m]] \in [Filed(h, q) -> Int]
  BY UsageAmounts DEF Filed
<1> QED BY <1>2, <1>3, TotalType DEF FiledTotal

\* Every unit charged is in a record: one in the list, or one that is not stored
\* (yet or, once lost, ever).
UsageFiled ==
    \A r \in Run : \A m \in Meter :
        used[r][m] = FiledTotal(receipt, r, m) + FiledTotal(unsaved, r, m)

LEMMA FiledStep == TypeOK /\ FileInv /\ UsageFiled /\ [Next]_ledger => UsageFiled'
<1> SUFFICES ASSUME TypeOK, FileInv, UsageFiled, [Next]_ledger PROVE UsageFiled'
  OBVIOUS
<1>0. TypeOK' /\ FileInv'
  BY StepType, FileStep
<1>1. /\ receipt \in RecordMap /\ unsaved \in RecordMap
      /\ receipt' \in RecordMap /\ unsaved' \in RecordMap
  BY <1>0 DEF TypeOK, RecordMap
<1>2. /\ IsFiniteSet(issued) /\ IsFiniteSet(issued')
      /\ \A j \in Reservation : receipt[j] # Nil \/ unsaved[j] # Nil => j \in issued
      /\ \A j \in Reservation : receipt'[j] # Nil \/ unsaved'[j] # Nil => j \in issued'
  BY <1>0 DEF FileInv
<1>3. \A q \in Run : \A m \in Meter :
          FiledTotal(receipt, q, m) \in Int /\ FiledTotal(unsaved, q, m) \in Int
  BY <1>1, <1>2, FiledType
<1>4. ASSUME UNCHANGED <<used, receipt, unsaved>> PROVE UsageFiled'
  BY <1>4 DEF UsageFiled
<1>5. ASSUME NEW i \in Reservation, NEW r \in Run, NEW u \in Usage, Commit(i, r, u)
      PROVE UsageFiled'
  <2>1. held[i] # Nil /\ Charge(r, u) /\ FileReceipt(i, r, u)
    BY <1>5 DEF Commit, Covers
  <2>2. receipt[i] = Nil /\ unsaved[i] = Nil
    BY <2>1 DEF FileInv
  <2>3. /\ [run |-> r, usage |-> u] # Nil
        /\ u.meter \in [Meter -> Nat]
    BY NilAssumption, UsageAssumption DEF UsageRecord
  <2> SUFFICES ASSUME NEW q \in Run, NEW m \in Meter
               PROVE  used'[q][m] = FiledTotal(receipt', q, m) + FiledTotal(unsaved', q, m)
    BY DEF UsageFiled
  <2>4. /\ used[q][m] = FiledTotal(receipt, q, m) + FiledTotal(unsaved, q, m)
        /\ used'[q][m] = IF q = r THEN used[q][m] + u.meter[m] ELSE used[q][m]
        /\ u.meter[m] \in Int
    BY <2>1, <2>3 DEF UsageFiled, Charge, TypeOK
  <2>5. CASE Shared
    <3>1. /\ receipt' = receipt
          /\ unsaved'[i] = [run |-> r, usage |-> u]
          /\ \A j \in Reservation : j # i => unsaved'[j] = unsaved[j]
      BY <2>1, <2>5 DEF FileReceipt, TypeOK
    <3>2. unsaved'[i] # Nil /\ unsaved'[i].run = r /\ unsaved'[i].usage.meter[m] = u.meter[m]
      BY <2>3, <3>1
    <3>3. /\ r = q => MoreBy(FiledTotal(unsaved', q, m), FiledTotal(unsaved, q, m), u.meter[m])
          /\ r # q => FiledTotal(unsaved', q, m) = FiledTotal(unsaved, q, m)
      BY <1>1, <1>2, <2>2, <3>1, <3>2, FileOne
    <3> QED BY <1>3, <2>4, <3>1, <3>3 DEF MoreBy
  <2>6. CASE ~Shared
    <3>1. /\ unsaved' = unsaved
          /\ receipt'[i] = [run |-> r, usage |-> u]
          /\ \A j \in Reservation : j # i => receipt'[j] = receipt[j]
      BY <2>1, <2>6 DEF FileReceipt, TypeOK
    <3>2. receipt'[i] # Nil /\ receipt'[i].run = r /\ receipt'[i].usage.meter[m] = u.meter[m]
      BY <2>3, <3>1
    <3>3. /\ r = q => MoreBy(FiledTotal(receipt', q, m), FiledTotal(receipt, q, m), u.meter[m])
          /\ r # q => FiledTotal(receipt', q, m) = FiledTotal(receipt, q, m)
      BY <1>1, <1>2, <2>2, <3>1, <3>2, FileOne
    <3> QED BY <1>3, <2>4, <3>1, <3>3 DEF MoreBy
  <2> QED BY <2>5, <2>6
<1>6. ASSUME NEW i \in Reservation, SaveReceipt(i) PROVE UsageFiled'
  <2>1. unsaved[i] # Nil /\ receipt[i] = Nil /\ used' = used
    BY <1>6 DEF SaveReceipt, FileInv, amounts
  <2>2. /\ receipt'[i] = unsaved[i] /\ unsaved'[i] = Nil
        /\ \A j \in Reservation : j # i => receipt'[j] = receipt[j] /\ unsaved'[j] = unsaved[j]
    BY <1>6 DEF SaveReceipt, TypeOK
  <2> SUFFICES ASSUME NEW q \in Run, NEW m \in Meter
               PROVE  used'[q][m] = FiledTotal(receipt', q, m) + FiledTotal(unsaved', q, m)
    BY DEF UsageFiled
  <2> DEFINE amount == unsaved[i].usage.meter[m]
  <2>3. amount \in Int
    BY <1>1, <2>1, UsageAmounts
  <2>4. /\ unsaved[i].run = q
             => MoreBy(FiledTotal(receipt', q, m), FiledTotal(receipt, q, m), amount)
        /\ unsaved[i].run # q => FiledTotal(receipt', q, m) = FiledTotal(receipt, q, m)
    BY <1>1, <1>2, <2>1, <2>2, FileOne
  <2>5. /\ unsaved[i].run = q
             => MoreBy(FiledTotal(unsaved, q, m), FiledTotal(unsaved', q, m), amount)
        /\ unsaved[i].run # q => FiledTotal(unsaved, q, m) = FiledTotal(unsaved', q, m)
        /\ FiledTotal(unsaved', q, m) \in Int
    BY <1>1, <1>2, <2>1, <2>2, FileOne
  <2>6. used[q][m] = FiledTotal(receipt, q, m) + FiledTotal(unsaved, q, m)
    BY DEF UsageFiled
  <2> HIDE DEF amount
  <2> QED BY <1>3, <2>1, <2>3, <2>4, <2>5, <2>6 DEF MoreBy
<1>7. ASSUME NEW r \in Run, NEW p \in Policy, RegisterRun(r, p) PROVE UsageFiled'
  BY <1>4, <1>7 DEF RegisterRun, receipts
<1>8. ASSUME NEW r \in Run, NEW i \in Reservation, NEW c \in Claim, Reserve(r, i, c)
      PROVE UsageFiled'
  BY <1>4, <1>8 DEF Reserve, receipts
<1>9. ASSUME NEW i \in Reservation, Release(i) PROVE UsageFiled'
  BY <1>4, <1>9 DEF Release, receipts
<1>10. ASSUME UNCHANGED ledger PROVE UsageFiled'
  BY <1>4, <1>10 DEF ledger, receipts
<1>11. ASSUME NEW i \in Reservation, LoseReceipt(i) PROVE UsageFiled'
  BY <1>4, <1>11 DEF LoseReceipt, amounts
<1> QED BY <1>5, <1>6, <1>7, <1>8, <1>9, <1>10, <1>11 DEF Next

LEMMA FiledInit == Init => UsageFiled
<1> SUFFICES ASSUME Init, NEW r \in Run, NEW m \in Meter
             PROVE  used[r][m] = FiledTotal(receipt, r, m) + FiledTotal(unsaved, r, m)
  BY DEF UsageFiled
<1>1. Filed(receipt, r) = {} /\ Filed(unsaved, r) = {}
  BY DEF Init, Filed
<1>2. FiledTotal(receipt, r, m) = 0 /\ FiledTotal(unsaved, r, m) = 0
  BY <1>1, TotalEmpty DEF FiledTotal
<1> QED BY <1>2 DEF Init

\* Records that are stored or not stored add up to no negative number.
LEMMA FiledNat ==
    ASSUME NEW h \in RecordMap, NEW S, IsFiniteSet(S),
           \A j \in Reservation : h[j] # Nil => j \in S, NEW q \in Run, NEW m \in Meter
    PROVE  /\ FiledTotal(h, q, m) \in Int /\ FiledTotal(h, q, m) >= 0
           /\ IsFiniteSet(Filed(h, q))
           /\ [i \in Filed(h, q) |-> h[i].usage.meter[m]] \in [Filed(h, q) -> Nat]
<1> DEFINE f == [j \in Filed(h, q) |-> h[j].usage.meter[m]]
<1>1. Filed(h, q) \in SUBSET S
  BY DEF Filed
<1>2. IsFiniteSet(Filed(h, q))
  BY <1>1, FS_Subset
<1>3. f \in [Filed(h, q) -> Nat]
  BY UsageAmounts DEF Filed
<1>4. [y \in {} |-> f[y]] \in [{} -> Int]
  OBVIOUS
<1> HIDE DEF f
<1>5. Total([y \in {} |-> f[y]]) = 0
  BY <1>4, TotalEmpty
<1>6. Total([y \in {} |-> f[y]]) <= Total(f)
  BY <1>2, <1>3, TotalPart
<1>7. FiledTotal(h, q, m) \in Int
  BY FiledType
<1>8. FiledTotal(h, q, m) = Total(f)
  BY DEF f, FiledTotal
<1> QED BY <1>2, <1>3, <1>5, <1>6, <1>7, <1>8 DEF f

\* The report is a part of what is stored, which is a part of what was charged;
\* with nothing unsaved and no usage_id shared it is all of it.
LEMMA ReportBounded == TypeOK /\ FileInv /\ UsageFiled => ReportWithinUsed
<1> SUFFICES ASSUME TypeOK, FileInv, UsageFiled, NEW r \in Run, NEW S \in Reports(r), NEW m \in Meter
             PROVE  LET told == Total([i \in S |-> receipt[i].usage.meter[m]])
                    IN  /\ told <= used[r][m]
                        /\ Unsaved(r) = {} /\ DistinctIds(r) => told = used[r][m]
  BY DEF ReportWithinUsed
<1> DEFINE told == Total([i \in S |-> receipt[i].usage.meter[m]])
           f == [i \in Filed(receipt, r) |-> receipt[i].usage.meter[m]]
<1>1. receipt \in RecordMap /\ unsaved \in RecordMap
  BY DEF TypeOK, RecordMap
<1>2. /\ IsFiniteSet(issued)
      /\ \A j \in Reservation : receipt[j] # Nil => j \in issued
      /\ \A j \in Reservation : unsaved[j] # Nil => j \in issued
  BY DEF FileInv
<1>3. /\ FiledTotal(receipt, r, m) \in Int /\ FiledTotal(receipt, r, m) >= 0
      /\ IsFiniteSet(Filed(receipt, r)) /\ f \in [Filed(receipt, r) -> Nat]
  BY <1>1, <1>2, FiledNat
<1>4. FiledTotal(unsaved, r, m) \in Int /\ FiledTotal(unsaved, r, m) >= 0
  BY <1>1, <1>2, FiledNat
<1>5. used[r][m] = FiledTotal(receipt, r, m) + FiledTotal(unsaved, r, m)
  BY DEF UsageFiled
<1>6. Receipts(r) = Filed(receipt, r) /\ Unsaved(r) = Filed(unsaved, r)
  BY DEF Receipts, Unsaved, Filed
<1>7. S \in SUBSET Filed(receipt, r)
  BY <1>6 DEF Reports
<1>8. [y \in S |-> f[y]] = [i \in S |-> receipt[i].usage.meter[m]]
  BY <1>7
<1>9. FiledTotal(receipt, r, m) = Total(f)
  BY DEF FiledTotal
<1>10. told <= FiledTotal(receipt, r, m) /\ told \in Int
  <2>1. [y \in S |-> f[y]] \in [S -> Int] /\ IsFiniteSet(S)
    BY <1>3, <1>7, FS_Subset
  <2> HIDE DEF f
  <2>2. Total([y \in S |-> f[y]]) <= Total(f) /\ Total([y \in S |-> f[y]]) \in Int
    BY <1>3, <1>7, <2>1, TotalPart, TotalType
  <2> QED BY <1>8, <1>9, <2>2
<1>11. told <= used[r][m]
  BY <1>3, <1>4, <1>5, <1>10
<1>12. ASSUME Unsaved(r) = {}, DistinctIds(r) PROVE told = used[r][m]
  <2>1. FiledTotal(unsaved, r, m) = 0
    BY <1>6, <1>12, TotalEmpty DEF FiledTotal
  <2>2. S = Receipts(r)
    BY <1>12 DEF Reports, DistinctIds
  <2>3. told = FiledTotal(receipt, r, m)
    BY <1>6, <2>2 DEF FiledTotal
  <2> QED BY <1>3, <1>5, <2>1, <2>3
<1> QED BY <1>11, <1>12

\* Whatever children commit in which order, and whichever records are lost on the
\* way to the list, reconciliation() never reports more than the run was charged,
\* and reports exactly that once every record is stored and no usage_id shared.
THEOREM ReportsExact == Spec => []ReportWithinUsed
<1> QED BY InitType, StepType, CountInit, FileStep, FiledInit, FiledStep, ReportBounded, PTL
           DEF Spec

=============================================================================
