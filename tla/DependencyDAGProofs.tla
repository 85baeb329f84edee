------------------------ MODULE DependencyDAGProofs -------------------------
(***************************************************************************)
(* Proofs about DependencyDAG for every acyclic graph, retry policy,       *)
(* number of threads, submission failures and crashes.                     *)
(*                                                                         *)
(* That the statuses follow the dependencies rests on two facts about the  *)
(* row updates: a failure blocks exactly what is below it, and a refresh   *)
(* of rows that already follow their dependencies only makes rows ready.   *)
(* That a node is executed once per attempt rests on the job ids: a job    *)
(* that was ever executed carries an attempt of its node, and no job is    *)
(* executed twice without a crash.                                         *)
(***************************************************************************)
EXTENDS DependencyDAG, FiniteSetTheorems, WellFoundedInduction, TLAPS

-----------------------------------------------------------------------------
(* Types                                                                   *)

\* A non-empty set of naturals has a least element.
LEMMA LeastNatural ==
    ASSUME NEW S, S \subseteq Nat, S # {}
    PROVE  \E x \in S : \A y \in S : x <= y
<1> DEFINE R == OpToRel(<, Nat)
<1>1. IsWellFoundedOn(R, Nat)
  BY NatLessThanWellFounded, Zenon DEF R
<1> HIDE DEF R
<1>2. PICK x \in S : \A y \in S : ~(<<y, x>> \in R)
  BY <1>1, WFMin
<1>3. \A y \in S : ~(y < x)
  <2> TAKE y \in S
  <2>1. <<y, x>> \in Nat \X Nat
    OBVIOUS
  <2> QED BY <1>2, <2>1 DEF R, OpToRel
<1> QED BY <1>2, <1>3

\* The node whose row is read next is one of those selected.
LEMMA MinPicked ==
    ASSUME NEW S \in SUBSET Node, S # {}
    PROVE  Min(S) \in S
<1>1. \E x \in S : \A y \in S : x <= y
  BY LeastNatural, NodeAssumption
<1> QED BY <1>1 DEF Min

LEMMA JobsType ==
    /\ NoJob \notin Jobs
    /\ \A j \in Jobs : j = <<j[1], j[2]>> /\ j[1] \in Node /\ j[2] \in 0 .. MaxRepairs[j[1]]
    /\ \A n \in Node : \A k \in 0 .. MaxRepairs[n] : <<n, k>> \in Jobs
<1>1. \A n \in Node : MaxRepairs[n] \in 0 .. 5
  BY RepairsAssumption
<1>2. \A j \in Jobs : j = <<j[1], j[2]>> /\ j[1] \in Node /\ j[2] \in 0 .. MaxRepairs[j[1]]
  BY <1>1 DEF Jobs, Job
<1>3. \A n \in Node : \A k \in 0 .. MaxRepairs[n] : <<n, k>> \in Jobs
  BY <1>1 DEF Jobs, Job
<1>4. NoJob \notin Jobs
  BY <1>2, NodeAssumption DEF NoJob, NoNode
<1> QED BY <1>2, <1>3, <1>4

\* The claim that is submitted next is one of the thread's claims.
LEMMA NextClaimIsClaim ==
    ASSUME TypeOK, NEW t \in Thread, claims[t] # {}
    PROVE  NextClaim(t) \in claims[t] /\ NextClaim(t) \in Jobs
<1> DEFINE firsts == {j[1] : j \in claims[t]}
<1>1. claims[t] \subseteq Jobs
  BY DEF TypeOK
<1>2. firsts \subseteq Nat /\ firsts # {}
  BY <1>1, JobsType, NodeAssumption
<1>3. \E x \in firsts : \A y \in firsts : x <= y
  BY <1>2, LeastNatural
<1>4. \E j \in claims[t] : \A i \in claims[t] : j[1] <= i[1]
  BY <1>3
<1> QED BY <1>1, <1>4 DEF NextClaim

LEMMA RunStatusType ==
    ASSUME NEW s \in [Node -> NodeStatus]
    PROVE  RunStatus(s) \in {"queued", "running"} \cup Outcome
BY DEF RunStatus, Outcome

LEMMA RowsType ==
    ASSUME NEW s \in [Node -> NodeStatus]
    PROVE  /\ Refreshed(s) \in [Node -> NodeStatus]
           /\ \A n \in Node : BlockedBelow(s, n) \in [Node -> NodeStatus]
BY DEF Refreshed, BlockedBelow, NodeStatus

LEMMA CompletedType ==
    ASSUME status \in [Node -> NodeStatus], NEW n \in Node, NEW outcome \in Outcome,
           NEW repair
    PROVE  Completed(n, outcome, repair) \in [Node -> NodeStatus]
<1>1. [status EXCEPT ![n] = outcome] \in [Node -> NodeStatus]
  BY DEF NodeStatus
<1>2. [status EXCEPT ![n] = "pending"] \in [Node -> NodeStatus]
  BY DEF NodeStatus
<1>3. BlockedBelow([status EXCEPT ![n] = outcome], n) \in [Node -> NodeStatus]
  BY <1>1, RowsType
<1> QED BY <1>1, <1>2, <1>3, RowsType DEF Completed

\* The types, with those of the history and of the fault counters, and the facts
\* that make complete_node's argument a node: a thread that executes has a job,
\* and one whose submission raised has the claim in its hands.
TypeInv ==
    /\ TypeOK
    /\ repairs \in [Node -> Nat]
    /\ executions \in [Node -> Nat]
    /\ crashes \in Nat
    /\ \A t \in Thread : pc[t] = "execute" => mine[t] # NoJob
    /\ \A t \in Thread : pc[t] = "refuse" => claims[t] # {}

LEMMA InitType == Init => TypeInv
<1> SUFFICES ASSUME Init PROVE TypeInv
  OBVIOUS
<1>1. \A n \in Node : 0 \in 0 .. MaxRepairs[n]
  BY RepairsAssumption
<1> QED BY <1>1 DEF Init, TypeInv, TypeOK, NodeStatus, Points, JobStatus

\* What a completed node stores.
LEMMA CompleteType ==
    ASSUME TypeInv, NEW n \in Node, NEW outcome \in Outcome, NEW repair \in BOOLEAN,
           CompleteNode(n, outcome, repair)
    PROVE  /\ status' \in [Node -> NodeStatus]
           /\ run' \in {"absent", "queued", "running"} \cup Outcome
           /\ repairs' \in [Node -> Nat]
           /\ \A m \in Node : repairs'[m] \in 0 .. MaxRepairs[m]
           /\ \A m \in Node : repairs[m] <= repairs'[m]
<1>1. status' \in [Node -> NodeStatus]
  BY CompletedType DEF TypeInv, TypeOK, CompleteNode, Store
<1>2. run' \in {"absent", "queued", "running"} \cup Outcome
  BY <1>1, RunStatusType DEF CompleteNode, Store
<1>3. /\ repairs' \in [Node -> Nat]
      /\ \A m \in Node : repairs[m] <= repairs'[m]
      /\ \A m \in Node : repairs'[m] \in 0 .. MaxRepairs[m]
  <2>1. CASE outcome = "failed" /\ repair /\ Repairable(n)
    <3>1. repairs' = [repairs EXCEPT ![n] = @ + 1]
      BY <2>1 DEF CompleteNode
    <3>2. repairs[n] \in Nat /\ repairs[n] < MaxRepairs[n] /\ MaxRepairs[n] \in 0 .. 5
      BY <2>1, RepairsAssumption DEF TypeInv, Repairable
    <3>3. \A m \in Node : repairs[m] \in Nat /\ MaxRepairs[m] \in 0 .. 5
                          /\ repairs[m] <= MaxRepairs[m]
      BY RepairsAssumption DEF TypeInv, TypeOK
    <3>4. \A m \in Node : repairs'[m] = IF m = n THEN repairs[n] + 1 ELSE repairs[m]
      BY <3>1 DEF TypeInv
    <3>5. \A m \in Node : repairs'[m] \in Nat /\ repairs[m] <= repairs'[m]
                          /\ repairs'[m] <= MaxRepairs[m]
      BY <3>2, <3>3, <3>4
    <3>6. repairs' \in [Node -> Nat]
      BY <3>1, <3>2 DEF TypeInv
    <3> QED BY <3>3, <3>5, <3>6
  <2>2. CASE ~(outcome = "failed" /\ repair /\ Repairable(n))
    <3>1. repairs' = repairs
      BY <2>2 DEF CompleteNode
    <3> QED BY <3>1 DEF TypeInv, TypeOK
  <2> QED BY <2>1, <2>2
<1> QED BY <1>1, <1>2, <1>3

LEMMA EndJobType ==
    ASSUME TypeInv, NEW t \in Thread, EndJob(t)
    PROVE  /\ job' \in [Jobs -> JobStatus]
           /\ pc' \in [Thread -> Points]
           /\ mine' \in [Thread -> Jobs \cup {NoJob}]
           /\ \A u \in Thread : pc'[u] = "execute" => mine'[u] # NoJob
           /\ pc'[t] = "idle" /\ \A u \in Thread \ {t} : pc'[u] = pc[u]
BY DEF EndJob, Go, TypeInv, TypeOK, Points, JobStatus

LEMMA StepType == TypeInv /\ [Next]_vars => TypeInv'
<1> SUFFICES ASSUME TypeInv, [Next]_vars PROVE TypeInv'
  OBVIOUS
<1> USE DEF TypeInv
<1>1. CASE StartRun
  <2>1. [n \in Node |-> "pending"] \in [Node -> NodeStatus]
    BY DEF NodeStatus
  <2>2. status' \in [Node -> NodeStatus]
    BY <1>1, <2>1, RowsType DEF StartRun, Store
  <2>3. run' \in {"absent", "queued", "running"} \cup Outcome
    BY <1>1, <2>2, RunStatusType DEF StartRun, Store
  <2> QED BY <1>1, <2>2, <2>3 DEF StartRun, Go, TypeOK, Points
<1>2. ASSUME NEW t \in Thread, NEW j \in Jobs, TakeJob(t, j) PROVE TypeInv'
  <2>1. j[1] \in Node /\ j # NoJob
    BY JobsType
  <2>2. executions' \in [Node -> Nat]
    <3>1. executions[j[1]] + 1 \in Nat
      BY <2>1
    <3> QED BY <1>2, <3>1 DEF TakeJob
  <2> QED BY <1>2, <2>1, <2>2 DEF TakeJob, Go, TypeOK, Points, JobStatus
<1>3. ASSUME NEW t \in Thread, NEW outcome \in Outcome, NEW repair \in BOOLEAN,
             Complete(t, outcome, repair)
      PROVE TypeInv'
  <2>1. mine[t][1] \in Node
    BY <1>3, JobsType DEF Complete, TypeOK
  <2>2. CompleteNode(mine[t][1], outcome, repair)
    BY <1>3 DEF Complete
  <2>3. /\ status' \in [Node -> NodeStatus]
        /\ run' \in {"absent", "queued", "running"} \cup Outcome
        /\ repairs' \in [Node -> Nat]
        /\ \A m \in Node : repairs'[m] \in 0 .. MaxRepairs[m]
    BY <2>1, <2>2, CompleteType
  <2> QED BY <1>3, <2>3 DEF Complete, Go, TypeOK, Points
<1>4. ASSUME NEW t \in Thread, CompleteRefused(t) PROVE TypeInv'
  BY <1>4, EndJobType DEF CompleteRefused, TypeOK
<1>5. ASSUME NEW t \in Thread, AdmitReady(t) PROVE TypeInv'
  <2>1. status' \in [Node -> NodeStatus]
    BY <1>5, RowsType DEF AdmitReady, Store, TypeOK
  <2>2. run' \in {"absent", "queued", "running"} \cup Outcome
    BY <1>5, <2>1, RunStatusType DEF AdmitReady, Store
  <2>3. Selected(Refreshed(status)) \in SUBSET Node
    BY DEF Selected
  <2>4. picked' \in [Thread -> SUBSET Node]
    BY <1>5, <2>3 DEF AdmitReady, TypeOK
  <2> QED BY <1>5, <2>1, <2>2, <2>4 DEF AdmitReady, Go, TypeOK, Points
<1>6. ASSUME NEW t \in Thread, MarkRunning(t) PROVE TypeInv'
  <2>1. status' \in [Node -> NodeStatus]
    BY <1>6 DEF MarkRunning, Store, TypeOK, NodeStatus
  <2>2. run' \in {"absent", "queued", "running"} \cup Outcome
    BY <1>6, <2>1, RunStatusType DEF MarkRunning, Store
  <2> QED BY <1>6, <2>1, <2>2 DEF MarkRunning, Go, TypeOK, Points
<1>7. ASSUME NEW t \in Thread, ReadNode(t) PROVE TypeInv'
  <2> DEFINE n == Min(picked[t])
  <2>1. n \in Node
    BY <1>7, MinPicked DEF ReadNode, TypeOK
  <2>2. <<n, repairs[n]>> \in Jobs
    BY <2>1, JobsType DEF TypeOK
  <2> HIDE DEF n
  <2>3. /\ claims' = [claims EXCEPT ![t] = @ \cup {<<n, repairs[n]>>}]
        /\ picked' = [picked EXCEPT ![t] = @ \ {n}]
    BY <1>7 DEF ReadNode, n
  <2>4. claims' \in [Thread -> SUBSET Jobs] /\ picked' \in [Thread -> SUBSET Node]
    BY <2>2, <2>3 DEF TypeOK
  <2> QED BY <1>7, <2>4 DEF ReadNode, TypeOK
<1>8. ASSUME NEW t \in Thread, ReadAll(t) PROVE TypeInv'
  BY <1>8 DEF ReadAll, Go, TypeOK, Points
<1>9. ASSUME NEW t \in Thread, Submit(t) PROVE TypeInv'
  <2>1. NextClaim(t) \in Jobs
    BY <1>9, NextClaimIsClaim DEF Submit
  <2>2. /\ claims' = [claims EXCEPT ![t] = @ \ {NextClaim(t)}]
        /\ job' \in {job, [job EXCEPT ![NextClaim(t)] = "queued"]}
    BY <1>9 DEF Submit
  <2>3. /\ claims' \in [Thread -> SUBSET Jobs]
        /\ job' \in [Jobs -> JobStatus]
    BY <2>1, <2>2 DEF TypeOK, JobStatus
  <2> QED BY <1>9, <2>3 DEF Submit, TypeOK
<1>10. ASSUME NEW t \in Thread, SubmitRaises(t) PROVE TypeInv'
  <2>1. NextClaim(t) \in Jobs
    BY <1>10, NextClaimIsClaim DEF SubmitRaises
  <2>2. job' = job \/ \E s \in {"stranded", "queued"} : job' = [job EXCEPT ![NextClaim(t)] = s]
    BY <1>10 DEF SubmitRaises
  <2>3. job' \in [Jobs -> JobStatus]
    BY <2>1, <2>2 DEF TypeOK, JobStatus
  <2> QED BY <1>10, <2>3 DEF SubmitRaises, Go, TypeOK, Points
<1>11. ASSUME NEW t \in Thread, FailNode(t) PROVE TypeInv'
  <2>1. NextClaim(t) \in Jobs /\ NextClaim(t)[1] \in Node
    BY <1>11, NextClaimIsClaim, JobsType DEF FailNode
  <2>2. CASE /\ CompleteNode(NextClaim(t)[1], "failed", FALSE)
             /\ claims' = [claims EXCEPT ![t] = @ \ {NextClaim(t)}]
             /\ Go(t, "submit")
             /\ UNCHANGED <<job, mine>>
    <3>1. /\ status' \in [Node -> NodeStatus]
          /\ run' \in {"absent", "queued", "running"} \cup Outcome
          /\ repairs' \in [Node -> Nat]
          /\ \A m \in Node : repairs'[m] \in 0 .. MaxRepairs[m]
      BY <2>1, <2>2, CompleteType DEF Outcome
    <3>2. claims' \in [Thread -> SUBSET Jobs]
      BY <2>2 DEF TypeOK
    <3> QED BY <1>11, <2>2, <3>1, <3>2 DEF FailNode, Go, TypeOK, Points
  <2>3. CASE /\ ~Completable(NextClaim(t)[1])
             /\ claims' = [claims EXCEPT ![t] = {}]
             /\ EndJob(t)
             /\ UNCHANGED <<status, repairs, run>>
    <3>1. claims' \in [Thread -> SUBSET Jobs]
      BY <2>3 DEF TypeOK
    <3> QED BY <1>11, <2>3, <3>1, EndJobType DEF FailNode, TypeOK
  <2> QED BY <1>11, <2>2, <2>3 DEF FailNode
<1>12. ASSUME NEW t \in Thread, Finish(t) PROVE TypeInv'
  BY <1>12, EndJobType DEF Finish, TypeOK
<1>13. CASE Crash
  BY <1>13 DEF Crash, TypeOK, Points, JobStatus
<1>14. CASE UNCHANGED vars
  BY <1>14 DEF vars, TypeOK
<1> QED
  BY <1>1, <1>2, <1>3, <1>4, <1>5, <1>6, <1>7, <1>8, <1>9, <1>10, <1>11, <1>12, <1>13, <1>14
     DEF Next, Work

\* Type correctness: whatever threads, failures and crashes do, the rows and jobs
\* hold legal values and no node is repaired more often than its policy allows.
THEOREM TypeCorrect == Spec => []TypeOK
<1>1. TypeInv => TypeOK
  BY DEF TypeInv
<1> QED BY <1>1, InitType, StepType, PTL DEF Spec

-----------------------------------------------------------------------------
(* Statuses follow the dependencies                                        *)

\* StatusFollowsDeps of rows s.
Follows(s) ==
    \A n \in Node :
        /\ s[n] \in {"ready", "running", "waiting", "succeeded", "failed", "cancelled"}
               => \A d \in Deps[n] : s[d] = "succeeded"
        /\ s[n] = "blocked" => \E d \in Deps[n] : s[d] \in Failure
        /\ s[n] = "pending" => \A d \in Deps[n] : s[d] \notin Failure

\* A refresh of rows that follow their dependencies makes some pending rows
\* ready and changes nothing else: in particular it blocks none.
LEMMA RefreshFollows ==
    ASSUME NEW s \in [Node -> NodeStatus], Follows(s)
    PROVE  /\ Follows(Refreshed(s))
           /\ \A n \in Node :
                 \/ Refreshed(s)[n] = s[n]
                 \/ s[n] = "pending" /\ Refreshed(s)[n] = "ready"
<1>1. \A n \in Node : Deps[n] \subseteq Node
  BY DepsAssumption
<1>2. \A n \in Node : Refreshed(s)[n] =
          IF s[n] = "pending" /\ \A d \in Deps[n] : s[d] = "succeeded"
          THEN "ready" ELSE s[n]
  BY DEF Refreshed, Follows
<1> DEFINE r == Refreshed(s)
<1> HIDE DEF r
<1>3. \A n \in Node : r[n] = IF s[n] = "pending" /\ \A d \in Deps[n] : s[d] = "succeeded"
                             THEN "ready" ELSE s[n]
  BY <1>2 DEF r
<1>4. \A n \in Node : r[n] = "succeeded" <=> s[n] = "succeeded"
  BY <1>3
<1>5. \A n \in Node : r[n] \in Failure <=> s[n] \in Failure
  BY <1>3 DEF Failure
<1>6. Follows(r)
  BY <1>1, <1>3, <1>4, <1>5 DEF Follows
<1> QED BY <1>3, <1>6 DEF r

\* Changing the outcome of a node that is ready or running breaks nothing but,
\* when it fails, what waits below it.
LEMMA OutcomeFollows ==
    ASSUME status \in [Node -> NodeStatus], Follows(status),
           NEW n \in Node, status[n] \in {"ready", "running"},
           NEW o \in {"pending", "succeeded", "waiting"}
    PROVE  Follows([status EXCEPT ![n] = o])
<1>1. \A m \in Node : Deps[m] \subseteq Node
  BY DepsAssumption
<1> DEFINE s == [status EXCEPT ![n] = o]
<1>2. \A m \in Node : s[m] = IF m = n THEN o ELSE status[m]
  OBVIOUS
<1> HIDE DEF s
<1>3. \A d \in Deps[n] : status[d] = "succeeded" /\ s[d] = "succeeded"
  BY <1>1, <1>2 DEF Follows
<1>4. ASSUME NEW m \in Node, m # n
      PROVE  /\ s[m] \in {"ready", "running", "waiting", "succeeded", "failed", "cancelled"}
                    => \A d \in Deps[m] : s[d] = "succeeded"
             /\ s[m] = "blocked" => \E d \in Deps[m] : s[d] \in Failure
             /\ s[m] = "pending" => \A d \in Deps[m] : s[d] \notin Failure
  BY <1>1, <1>2, <1>4 DEF Follows, Failure
<1>5. /\ s[n] \in {"ready", "running", "waiting", "succeeded", "failed", "cancelled"}
             => \A d \in Deps[n] : s[d] = "succeeded"
      /\ s[n] = "blocked" => \E d \in Deps[n] : s[d] \in Failure
      /\ s[n] = "pending" => \A d \in Deps[n] : s[d] \notin Failure
  BY <1>2, <1>3 DEF Failure
<1> QED BY <1>4, <1>5 DEF Follows, s

\* A failure blocks what waits below it: every blocked row gets a failed or
\* blocked dependency, and no row below the failure is left waiting.
LEMMA FailureFollows ==
    ASSUME status \in [Node -> NodeStatus], Follows(status),
           NEW n \in Node, status[n] \in {"ready", "running"},
           NEW o \in {"failed", "cancelled"}
    PROVE  /\ Follows(BlockedBelow([status EXCEPT ![n] = o], n))
           /\ \A m \in Node : m # n =>
                 \/ BlockedBelow([status EXCEPT ![n] = o], n)[m] = status[m]
                 \/ status[m] \in {"pending", "ready"}
<1> DEFINE s == [status EXCEPT ![n] = o]
           waiting == {m \in Node : s[m] \in {"pending", "ready"}}
           Closed(S) == \A m \in waiting : Deps[m] \cap S # {} => m \in S
           below == {m \in Node : \A S \in SUBSET Node : n \in S /\ Closed(S) => m \in S}
           b == BlockedBelow(s, n)
<1>1. \A m \in Node : Deps[m] \subseteq Node
  BY DepsAssumption
<1>2. \A m \in Node : s[m] = IF m = n THEN o ELSE status[m]
  OBVIOUS
<1>3. \A m \in Node : b[m] = IF m \in waiting /\ m \in below THEN "blocked" ELSE s[m]
  BY DEF BlockedBelow
<1> HIDE DEF s, b
<1>4. n \in below /\ n \notin waiting
  BY <1>2
<1>5. below \subseteq waiting \cup {n}
  <2>1. n \in waiting \cup {n} /\ Closed(waiting \cup {n}) /\ waiting \cup {n} \in SUBSET Node
    OBVIOUS
  <2> QED BY <2>1
<1>6. Closed(below)
  OBVIOUS
<1>7. ASSUME NEW m \in waiting, m \in below
      PROVE  \E d \in Deps[m] : d \in below
  <2> SUFFICES ASSUME Deps[m] \cap below = {} PROVE FALSE
    OBVIOUS
  <2>1. n \in below \ {m}
    BY <1>4
  <2>2. Closed(below \ {m})
    BY <1>6
  <2>3. below \ {m} \in SUBSET Node
    OBVIOUS
  <2> QED BY <1>7, <2>1, <2>2, <2>3
<1> HIDE DEF below, waiting
<1>8. \A m \in waiting : m \in Node /\ s[m] \in {"pending", "ready"} /\ m # n
  BY <1>4 DEF waiting
<1>9. \A m \in Node : m \in below => b[m] \in Failure
  BY <1>2, <1>3, <1>4, <1>5 DEF Failure
<1>10. \A m \in Node : b[m] = "succeeded" <=> s[m] = "succeeded"
  BY <1>3, <1>8
<1>11. \A m \in Node : s[m] = "succeeded" <=> status[m] = "succeeded"
  BY <1>2
<1>12. ASSUME NEW m \in Node,
              b[m] \in {"ready", "running", "waiting", "succeeded", "failed", "cancelled"}
       PROVE  \A d \in Deps[m] : b[d] = "succeeded"
  <2>1. b[m] = s[m]
    BY <1>3, <1>12
  <2>2. status[m] \in {"ready", "running", "waiting", "succeeded", "failed", "cancelled"}
    BY <1>2, <1>12, <2>1
  <2> QED BY <1>1, <1>10, <1>11, <2>2 DEF Follows
<1>13. ASSUME NEW m \in Node, b[m] = "blocked"
       PROVE  \E d \in Deps[m] : b[d] \in Failure
  <2>1. CASE m \in waiting /\ m \in below
    BY <1>1, <1>7, <1>9, <2>1
  <2>2. CASE ~(m \in waiting /\ m \in below)
    <3>1. s[m] = "blocked" /\ status[m] = "blocked"
      BY <1>2, <1>3, <1>13, <2>2
    <3>2. PICK d \in Deps[m] : status[d] \in Failure
      BY <3>1 DEF Follows
    <3>3. d # n /\ s[d] = status[d] /\ d \in Node
      BY <1>1, <1>2, <3>2 DEF Failure
    <3>4. b[d] = status[d]
      BY <1>3, <1>8, <3>2, <3>3 DEF Failure
    <3> QED BY <3>2, <3>4
  <2> QED BY <2>1, <2>2
<1>14. ASSUME NEW m \in Node, b[m] = "pending"
       PROVE  \A d \in Deps[m] : b[d] \notin Failure
  <2>1. s[m] = "pending" /\ status[m] = "pending" /\ m \in waiting
    BY <1>2, <1>3, <1>14 DEF waiting
  <2>2. m \notin below
    BY <1>3, <1>14, <2>1
  <2>3. SUFFICES ASSUME NEW d \in Deps[m] PROVE b[d] \notin Failure
    OBVIOUS
  <2>4. d \notin below /\ d # n /\ d \in Node
    BY <1>1, <1>4, <1>6, <2>1, <2>2
  <2>5. b[d] = status[d]
    BY <1>2, <1>3, <2>4
  <2> QED BY <2>1, <2>5 DEF Follows
<1>15. Follows(b)
  BY <1>12, <1>13, <1>14 DEF Follows
<1>16. \A m \in Node : m # n => b[m] = status[m] \/ status[m] \in {"pending", "ready"}
  BY <1>2, <1>3, <1>8
<1> QED BY <1>15, <1>16 DEF b, s

\* What complete_node stores follows the dependencies and leaves settled rows
\* alone.
LEMMA CompletedFollows ==
    ASSUME status \in [Node -> NodeStatus], Follows(status),
           NEW n \in Node, status[n] \in {"ready", "running"},
           NEW outcome \in Outcome, NEW repair \in BOOLEAN
    PROVE  /\ Follows(Completed(n, outcome, repair))
           /\ \A m \in Node :
                 status[m] \in Final => Completed(n, outcome, repair)[m] = status[m]
<1>1. ASSUME NEW o \in {"pending", "succeeded", "waiting"}
      PROVE  /\ Follows(Refreshed([status EXCEPT ![n] = o]))
             /\ \A m \in Node : status[m] \in Final
                    => Refreshed([status EXCEPT ![n] = o])[m] = status[m]
  <2> DEFINE s == [status EXCEPT ![n] = o]
  <2>1. s \in [Node -> NodeStatus]
    BY DEF NodeStatus, Outcome
  <2>2. Follows(s)
    BY OutcomeFollows
  <2>3. \A m \in Node : status[m] \in Final => s[m] = status[m]
    BY DEF Final, Failure
  <2> HIDE DEF s
  <2>4. \A m \in Node : status[m] \in Final => Refreshed(s)[m] = status[m]
    BY <2>1, <2>2, <2>3, RefreshFollows DEF Final, Failure
  <2>5. Follows(Refreshed(s))
    BY <2>1, <2>2, RefreshFollows
  <2> QED BY <2>4, <2>5 DEF s
<1>2. ASSUME NEW o \in {"failed", "cancelled"}
      PROVE  /\ Follows(Refreshed(BlockedBelow([status EXCEPT ![n] = o], n)))
             /\ \A m \in Node : status[m] \in Final
                    => Refreshed(BlockedBelow([status EXCEPT ![n] = o], n))[m] = status[m]
  <2> DEFINE b == BlockedBelow([status EXCEPT ![n] = o], n)
  <2>1. [status EXCEPT ![n] = o] \in [Node -> NodeStatus]
    BY DEF NodeStatus, Outcome
  <2>2. b \in [Node -> NodeStatus]
    BY <2>1, RowsType
  <2>3. Follows(b)
    BY FailureFollows
  <2>4. \A m \in Node : status[m] \in Final => b[m] = status[m]
    <3> SUFFICES ASSUME NEW m \in Node, status[m] \in Final PROVE b[m] = status[m]
      OBVIOUS
    <3>1. m # n /\ status[m] \notin {"pending", "ready"}
      BY DEF Final, Failure
    <3> QED BY <3>1, FailureFollows
  <2> HIDE DEF b
  <2>5. \A m \in Node : status[m] \in Final => Refreshed(b)[m] = status[m]
    BY <2>2, <2>3, <2>4, RefreshFollows DEF Final, Failure
  <2>6. Follows(Refreshed(b))
    BY <2>2, <2>3, RefreshFollows
  <2> QED BY <2>5, <2>6 DEF b
<1>3. CASE outcome = "failed" /\ repair /\ Repairable(n)
  BY <1>1, <1>3 DEF Completed
<1>4. CASE ~(outcome = "failed" /\ repair /\ Repairable(n)) /\ outcome \in {"failed", "cancelled"}
  <2>1. Completed(n, outcome, repair)
           = Refreshed(BlockedBelow([status EXCEPT ![n] = outcome], n))
    BY <1>4 DEF Completed
  <2> QED BY <1>2, <1>4, <2>1
<1>5. CASE outcome \notin {"failed", "cancelled"}
  <2>1. Completed(n, outcome, repair) = Refreshed([status EXCEPT ![n] = outcome])
    BY <1>5 DEF Completed
  <2> QED BY <1>1, <1>5, <2>1 DEF Outcome
<1> QED BY <1>3, <1>4, <1>5

\* A run that left "absent" has the status its rows give it; before that it has
\* no rows.
RunInv ==
    /\ run # "absent" => run = RunStatus(status)
    /\ run = "absent" => \A n \in Node : status[n] = "absent"

RowInv == TypeInv /\ Follows(status) /\ RunInv

\* Every step keeps the rows in line with their dependencies, the run in line
\* with its rows, and settled rows as they are.
LEMMA RowStep ==
    ASSUME RowInv, [Next]_vars
    PROVE  /\ Follows(status')
           /\ \/ status' = status /\ run' = run
              \/ run' = RunStatus(status')
           /\ \A n \in Node : status[n] \in Final => status'[n] = status[n]
<1> USE DEF RowInv, TypeInv
<1>0. status \in [Node -> NodeStatus]
  BY DEF TypeOK
<1>1. CASE StartRun
  <2> DEFINE s == [n \in Node |-> "pending"]
  <2>1. s \in [Node -> NodeStatus]
    BY DEF NodeStatus
  <2>2. Follows(s)
    BY DepsAssumption DEF Follows, Failure
  <2>3. status' = Refreshed(s) /\ run' = RunStatus(status') /\ run = "absent"
    BY <1>1 DEF StartRun, Store
  <2>4. \A n \in Node : status[n] \notin Final
    BY <2>3 DEF RunInv, Final, Failure
  <2> HIDE DEF s
  <2> QED BY <2>1, <2>2, <2>3, <2>4, RefreshFollows
<1>2. ASSUME NEW n \in Node, NEW outcome \in Outcome, NEW repair \in BOOLEAN,
             CompleteNode(n, outcome, repair)
      PROVE  /\ Follows(status')
             /\ run' = RunStatus(status')
             /\ \A m \in Node : status[m] \in Final => status'[m] = status[m]
  BY <1>0, <1>2, CompletedFollows DEF CompleteNode, Completable, Store
<1>3. ASSUME NEW t \in Thread, NEW outcome \in Outcome, NEW repair \in BOOLEAN,
             Complete(t, outcome, repair)
      PROVE  /\ Follows(status')
             /\ run' = RunStatus(status')
             /\ \A m \in Node : status[m] \in Final => status'[m] = status[m]
  <2>1. mine[t][1] \in Node
    BY <1>3, JobsType DEF Complete, TypeOK
  <2>2. CompleteNode(mine[t][1], outcome, repair)
    BY <1>3 DEF Complete
  <2> QED BY <1>2, <2>1, <2>2
<1>4. ASSUME NEW t \in Thread, AdmitReady(t)
      PROVE  /\ Follows(status')
             /\ run' = RunStatus(status')
             /\ \A m \in Node : status[m] \in Final => status'[m] = status[m]
  <2>1. status' = Refreshed(status) /\ run' = RunStatus(status')
    BY <1>4 DEF AdmitReady, Store
  <2> QED BY <1>0, <2>1, RefreshFollows DEF Final, Failure
<1>5. ASSUME NEW t \in Thread, MarkRunning(t)
      PROVE  /\ Follows(status')
             /\ run' = RunStatus(status')
             /\ \A m \in Node : status[m] \in Final => status'[m] = status[m]
  <2>1. run' = RunStatus(status')
    BY <1>5 DEF MarkRunning, Store
  <2>2. \A n \in Node : status'[n] = IF n \in picked[t] /\ status[n] = "ready"
                                     THEN "running" ELSE status[n]
    BY <1>5 DEF MarkRunning, Store
  <2>3. \A n \in Node : /\ status'[n] = "succeeded" <=> status[n] = "succeeded"
                        /\ status'[n] \in Failure <=> status[n] \in Failure
    BY <2>2 DEF Failure
  <2>4. \A n \in Node : Deps[n] \subseteq Node
    BY DepsAssumption
  <2>5. Follows(status')
    BY <2>2, <2>3, <2>4 DEF Follows
  <2> QED BY <2>1, <2>2, <2>5 DEF Final, Failure
<1>6. ASSUME NEW t \in Thread, FailNode(t)
      PROVE  /\ Follows(status')
             /\ \/ status' = status /\ run' = run
                \/ run' = RunStatus(status')
             /\ \A m \in Node : status[m] \in Final => status'[m] = status[m]
  <2>1. NextClaim(t)[1] \in Node
    BY <1>6, NextClaimIsClaim, JobsType DEF FailNode, TypeInv
  <2>2. CASE CompleteNode(NextClaim(t)[1], "failed", FALSE)
    BY <1>2, <2>1, <2>2 DEF Outcome
  <2>3. CASE UNCHANGED <<status, repairs, run>>
    BY <2>3
  <2> QED BY <1>6, <2>2, <2>3 DEF FailNode
<1>7. ASSUME status' = status, run' = run
      PROVE  Follows(status') /\ \A m \in Node : status'[m] = status[m]
  BY <1>7
<1>8. ASSUME NEW t \in Thread, NEW j \in Jobs, TakeJob(t, j)
      PROVE  status' = status /\ run' = run
  BY <1>8 DEF TakeJob
<1>9. ASSUME NEW t \in Thread,
             CompleteRefused(t) \/ ReadNode(t) \/ ReadAll(t) \/ Submit(t)
                \/ SubmitRaises(t) \/ Finish(t)
      PROVE  status' = status /\ run' = run
  BY <1>9 DEF CompleteRefused, ReadNode, ReadAll, Submit, SubmitRaises, Finish
<1>10. Crash \/ UNCHANGED vars => status' = status /\ run' = run
  BY DEF Crash, vars
<1> QED
  BY <1>1, <1>3, <1>4, <1>5, <1>6, <1>7, <1>8, <1>9, <1>10 DEF Next, Work

LEMMA RowInvInit == Init => RowInv
<1> SUFFICES ASSUME Init PROVE RowInv
  OBVIOUS
<1>1. TypeInv
  BY InitType
<1>2. \A n \in Node : status[n] = "absent"
  BY DEF Init
<1>3. Follows(status) /\ RunInv
  BY <1>2 DEF Follows, RunInv, Init
<1> QED BY <1>1, <1>3 DEF RowInv

LEMMA RowInvStep == RowInv /\ [Next]_vars => RowInv'
<1> SUFFICES ASSUME RowInv, [Next]_vars PROVE RowInv'
  OBVIOUS
<1>1. TypeInv'
  BY StepType DEF RowInv
<1>2. Follows(status')
  BY RowStep
<1>3. RunInv'
  <2>1. CASE status' = status /\ run' = run
    BY <2>1 DEF RowInv, RunInv
  <2>2. CASE run' = RunStatus(status')
    <3>1. run' \in {"queued", "running"} \cup Outcome
      BY <1>1, <2>2, RunStatusType DEF TypeInv, TypeOK
    <3> QED BY <2>2, <3>1 DEF RunInv, Outcome
  <2> QED BY <2>1, <2>2, RowStep
<1> QED BY <1>1, <1>2, <1>3 DEF RowInv

\* However claims, completions, failed submissions and crashes interleave, a node
\* that is ready or beyond had all its dependencies succeed, a blocked node has a
\* dependency that did not, and no node below a failure is left pending: a
\* failure reaches everything that _block_descendants_locked must stop.
THEOREM StatusesFollow == Spec => []StatusFollowsDeps
<1>1. RowInv => StatusFollowsDeps
  BY DEF RowInv, Follows, StatusFollowsDeps
<1> QED BY <1>1, RowInvInit, RowInvStep, PTL DEF Spec

\* Late completions, failed submissions and executions repeated after a crash
\* overwrite no settled node, and a run that succeeded or was cancelled keeps its
\* status: all of its nodes are settled.
THEOREM SettledForGood == Spec => SettledStays
<1> DEFINE Kept == /\ \A n \in Node : status[n] \in Final => status'[n] = status[n]
                   /\ run \in {"succeeded", "cancelled"} => run' = run
<1>1. RowInv /\ [Next]_vars => [Kept]_vars
  <2> SUFFICES ASSUME RowInv, [Next]_vars PROVE Kept
    OBVIOUS
  <2>1. \A n \in Node : status[n] \in Final => status'[n] = status[n]
    BY RowStep
  <2>2. ASSUME run \in {"succeeded", "cancelled"} PROVE run' = run
    <3>1. run = RunStatus(status)
      BY <2>2 DEF RowInv, RunInv
    <3>2. CASE Node = {}
      <4>1. \A s : RunStatus(s) = "succeeded"
        BY <3>2 DEF RunStatus
      <4> QED BY <3>1, <4>1, RowStep
    <3>3. CASE Node # {}
      <4>1. \A n \in Node : status[n] \in {"succeeded", "cancelled"}
        <5>1. CASE \A n \in Node : status[n] \in {"succeeded", "cancelled"}
          BY <5>1
        <5>2. CASE \E n \in Node : status[n] \notin {"succeeded", "cancelled"}
          <6>1. RunStatus(status) \notin {"succeeded", "cancelled"}
            BY <3>3, <5>2 DEF RunStatus
          <6> QED BY <2>2, <3>1, <6>1
        <5> QED BY <5>1, <5>2
      <4>2. \A n \in Node : status'[n] = status[n]
        BY <2>1, <4>1 DEF Final, Failure
      <4>3. TypeInv'
        BY StepType DEF RowInv
      <4>4. status \in [Node -> NodeStatus] /\ status' \in [Node -> NodeStatus]
        BY <4>3 DEF RowInv, TypeInv, TypeOK
      <4>5. status' = status
        BY <4>2, <4>4
      <4> QED BY <3>1, <4>5, RowStep
    <3> QED BY <3>2, <3>3
  <2> QED BY <2>1, <2>2
<1>2. QED BY <1>1, RowInvInit, RowInvStep, PTL DEF Spec, SettledStays

-----------------------------------------------------------------------------
(* One execution per attempt                                               *)

\* The attempts of node n whose job was taken by a thread.
Taken(n) == {k \in 0 .. MaxRepairs[n] : job[<<n, k>>] \in {"running", "done"}}

\* A job in a thread's hands is running and in no other thread's; claims and
\* accepted jobs carry an attempt their node has reached; before the first crash
\* a node was executed at most as often as it has jobs that were taken.
JobInv ==
    /\ \A t \in Thread : mine[t] # NoJob => job[mine[t]] = "running"
    /\ \A t, u \in Thread : t # u /\ mine[t] # NoJob => mine[t] # mine[u]
    /\ \A j \in Jobs : job[j] # "absent" => j[2] <= repairs[j[1]]
    /\ \A t \in Thread : \A j \in claims[t] : j[2] <= repairs[j[1]]
    /\ crashes = 0 => \A n \in Node : executions[n] <= Cardinality(Taken(n))

LEMMA TakenFinite ==
    ASSUME NEW n \in Node
    PROVE  /\ IsFiniteSet(Taken(n))
           /\ Cardinality(Taken(n)) \in Nat
<1>1. IsFiniteSet(0 .. MaxRepairs[n])
  BY RepairsAssumption, FS_Interval
<1>2. Taken(n) \in SUBSET (0 .. MaxRepairs[n])
  BY DEF Taken
<1>3. IsFiniteSet(Taken(n))
  BY <1>1, <1>2, FS_Subset
<1> QED BY <1>3, FS_CardinalityType

LEMMA JobInvInit == Init => JobInv
<1> SUFFICES ASSUME Init PROVE JobInv
  OBVIOUS
<1>1. \A n \in Node : 0 <= Cardinality(Taken(n))
  BY TakenFinite
<1> QED BY <1>1 DEF Init, JobInv

\* The end of a job makes it done instead of running.
LEMMA EndJobKeeps ==
    ASSUME TypeInv, JobInv, NEW t \in Thread, EndJob(t)
    PROVE  /\ \A u \in Thread : mine'[u] # NoJob => job'[mine'[u]] = "running"
           /\ \A u, v \in Thread : u # v /\ mine'[u] # NoJob => mine'[u] # mine'[v]
           /\ \A j \in Jobs : job'[j] # "absent" <=> job[j] # "absent"
           /\ \A n \in Node : Taken(n)' = Taken(n)
<1>1. \A u \in Thread : mine'[u] = IF u = t THEN NoJob ELSE mine[u]
  BY DEF EndJob, TypeInv, TypeOK
<1>2. \A j \in Jobs : job'[j] = IF j = mine[t] THEN "done" ELSE job[j]
  BY JobsType DEF EndJob, TypeInv, TypeOK
<1>3. \A u \in Thread : mine[u] \in Jobs \cup {NoJob}
  BY DEF TypeInv, TypeOK
<1>4. \A j \in Jobs : j = mine[t] => job[j] = "running"
  BY JobsType DEF JobInv
<1>5. \A n \in Node : Taken(n)' = Taken(n)
  <2> TAKE n \in Node
  <2>1. \A k \in 0 .. MaxRepairs[n] : <<n, k>> \in Jobs
    BY JobsType
  <2>2. \A k \in 0 .. MaxRepairs[n] :
           job'[<<n, k>>] \in {"running", "done"} <=> job[<<n, k>>] \in {"running", "done"}
    BY <1>2, <1>4, <2>1
  <2> QED BY <2>2 DEF Taken
<1>6. \A u, v \in Thread : u # v /\ mine'[u] # NoJob => mine'[u] # mine'[v]
  BY <1>1 DEF JobInv
<1>7. ASSUME NEW u \in Thread, mine'[u] # NoJob PROVE job'[mine'[u]] = "running"
  <2>1. u # t /\ mine'[u] = mine[u] /\ mine[u] # NoJob /\ mine[u] \in Jobs
    BY <1>1, <1>3, <1>7
  <2>2. mine[u] # mine[t]
    BY <2>1 DEF JobInv
  <2> QED BY <1>2, <2>1, <2>2 DEF JobInv
<1>8. \A j \in Jobs : job'[j] # "absent" <=> job[j] # "absent"
  BY <1>2, <1>4
<1> QED BY <1>5, <1>6, <1>7, <1>8

\* Attempts only grow, so claims and accepted jobs keep carrying reached ones.
LEMMA CompleteKeeps ==
    ASSUME TypeInv, JobInv, NEW n \in Node, NEW outcome \in Outcome, NEW repair \in BOOLEAN,
           CompleteNode(n, outcome, repair), NEW j \in Jobs, j[2] <= repairs[j[1]]
    PROVE  j[2] <= repairs'[j[1]]
<1>1. j[1] \in Node /\ j[2] \in Nat
  BY JobsType, RepairsAssumption
<1>2. repairs[j[1]] <= repairs'[j[1]] /\ repairs[j[1]] \in Nat /\ repairs'[j[1]] \in Nat
  BY <1>1, CompleteType DEF TypeInv
<1> QED BY <1>1, <1>2

LEMMA JobInvStep == TypeInv /\ JobInv /\ [Next]_vars => JobInv'
<1> SUFFICES ASSUME TypeInv, JobInv, [Next]_vars PROVE JobInv'
  OBVIOUS
<1>0. \A t \in Thread : mine[t] \in Jobs \cup {NoJob} /\ claims[t] \subseteq Jobs
  BY DEF TypeInv, TypeOK
<1>1. ASSUME UNCHANGED <<job, mine, claims, executions, crashes, repairs>> PROVE JobInv'
  BY <1>1 DEF JobInv, Taken
<1>2. ASSUME NEW t \in Thread, NEW j \in Jobs, TakeJob(t, j) PROVE JobInv'
  <2>1. j[1] \in Node /\ j = <<j[1], j[2]>> /\ j[2] \in 0 .. MaxRepairs[j[1]] /\ j # NoJob
    BY JobsType
  <2>2. job[j] = "queued"
    BY <1>2 DEF TakeJob
  <2>3. \A i \in Jobs : job'[i] = IF i = j THEN "running" ELSE job[i]
    BY <1>2 DEF TakeJob, TypeInv, TypeOK
  <2>4. \A u \in Thread : mine'[u] = IF u = t THEN j ELSE mine[u]
    BY <1>2 DEF TakeJob, TypeInv, TypeOK
  <2>5. \A u \in Thread : mine[u] # NoJob => mine[u] # j /\ mine[u] \in Jobs
    BY <1>0, <2>2 DEF JobInv
  <2>6. \A u \in Thread : mine'[u] # NoJob => job'[mine'[u]] = "running"
    BY <2>3, <2>4, <2>5 DEF JobInv
  <2>7. \A u, v \in Thread : u # v /\ mine'[u] # NoJob => mine'[u] # mine'[v]
    BY <2>1, <2>4, <2>5 DEF JobInv
  <2>8. \A i \in Jobs : job'[i] # "absent" => i[2] <= repairs'[i[1]]
    BY <1>2, <2>2, <2>3 DEF JobInv, TakeJob
  <2>9. \A u \in Thread : \A i \in claims'[u] : i[2] <= repairs'[i[1]]
    BY <1>2 DEF JobInv, TakeJob
  <2>10. ASSUME crashes' = 0, NEW n \in Node PROVE executions'[n] <= Cardinality(Taken(n)')
    <3>1. executions[n] <= Cardinality(Taken(n))
      BY <1>2, <2>10 DEF TakeJob, JobInv
    <3>2. \A k \in 0 .. MaxRepairs[n] : <<n, k>> \in Jobs
      BY JobsType
    <3>3. executions[n] \in Nat /\ IsFiniteSet(Taken(n)) /\ Cardinality(Taken(n)) \in Nat
      BY TakenFinite DEF TypeInv
    <3>4. CASE n = j[1]
      <4>1. executions'[n] = executions[n] + 1
        BY <1>2, <2>1, <3>4 DEF TakeJob, TypeInv
      <4>2. j[2] \notin Taken(n)
        BY <2>1, <2>2, <3>4 DEF Taken
      <4>3. Taken(n)' = Taken(n) \cup {j[2]}
        <5>1. \A k \in 0 .. MaxRepairs[n] : <<n, k>> = j <=> k = j[2]
          BY <2>1, <3>4
        <5>2. \A k \in 0 .. MaxRepairs[n] :
                 job'[<<n, k>>] \in {"running", "done"}
                 <=> job[<<n, k>>] \in {"running", "done"} \/ k = j[2]
          BY <2>3, <3>2, <5>1
        <5> QED BY <2>1, <3>4, <5>2 DEF Taken
      <4>4. Cardinality(Taken(n)') = Cardinality(Taken(n)) + 1
        BY <3>3, <4>2, <4>3, FS_AddElement
      <4> QED BY <3>1, <3>3, <4>1, <4>4
    <3>5. CASE n # j[1]
      <4>1. executions'[n] = executions[n]
        BY <1>2, <2>1, <3>5 DEF TakeJob, TypeInv
      <4>2. \A k \in 0 .. MaxRepairs[n] : <<n, k>> # j
        BY <2>1, <3>5
      <4>3. Taken(n)' = Taken(n)
        BY <2>3, <3>2, <4>2 DEF Taken
      <4> QED BY <3>1, <4>1, <4>3
    <3> QED BY <3>4, <3>5
  <2> QED BY <2>6, <2>7, <2>8, <2>9, <2>10 DEF JobInv
<1>3. ASSUME NEW n \in Node, NEW outcome \in Outcome, NEW repair \in BOOLEAN,
             CompleteNode(n, outcome, repair),
             UNCHANGED <<job, mine, executions, crashes>>,
             \A u \in Thread : claims'[u] \subseteq claims[u]
      PROVE  JobInv'
  <2>1. \A j \in Jobs : job'[j] # "absent" => j[2] <= repairs'[j[1]]
    BY <1>3, CompleteKeeps DEF JobInv
  <2>2. \A u \in Thread : \A j \in claims'[u] : j[2] <= repairs'[j[1]]
    BY <1>0, <1>3, CompleteKeeps DEF JobInv
  <2>3. \A m \in Node : Taken(m)' = Taken(m)
    BY <1>3 DEF Taken
  <2> QED BY <1>3, <2>1, <2>2, <2>3 DEF JobInv
<1>4. ASSUME NEW t \in Thread, NEW outcome \in Outcome, NEW repair \in BOOLEAN,
             Complete(t, outcome, repair)
      PROVE  JobInv'
  <2>1. mine[t][1] \in Node
    BY <1>4, JobsType DEF Complete, TypeInv, TypeOK
  <2>2. CompleteNode(mine[t][1], outcome, repair)
    BY <1>4 DEF Complete
  <2>3. UNCHANGED <<job, mine, claims, executions, crashes>>
    BY <1>4 DEF Complete
  <2> QED BY <1>3, <2>1, <2>2, <2>3
<1>5. ASSUME NEW t \in Thread, EndJob(t), UNCHANGED <<executions, crashes, repairs>>,
             \A u \in Thread : claims'[u] \subseteq claims[u]
      PROVE  JobInv'
  <2>1. \A j \in Jobs : job'[j] # "absent" => j[2] <= repairs'[j[1]]
    BY <1>5, EndJobKeeps DEF JobInv
  <2>2. \A u \in Thread : \A j \in claims'[u] : j[2] <= repairs'[j[1]]
    BY <1>5 DEF JobInv
  <2>3. \A m \in Node : Taken(m)' = Taken(m)
    BY <1>5, EndJobKeeps
  <2>4. /\ \A u \in Thread : mine'[u] # NoJob => job'[mine'[u]] = "running"
        /\ \A u, v \in Thread : u # v /\ mine'[u] # NoJob => mine'[u] # mine'[v]
    BY <1>5, EndJobKeeps
  <2> QED BY <1>5, <2>1, <2>2, <2>3, <2>4 DEF JobInv
<1>6. ASSUME NEW t \in Thread, CompleteRefused(t) \/ Finish(t) PROVE JobInv'
  BY <1>5, <1>6 DEF CompleteRefused, Finish
<1>7. ASSUME NEW t \in Thread, ReadNode(t) PROVE JobInv'
  <2> DEFINE n == Min(picked[t])
  <2>1. n \in Node
    BY <1>7, MinPicked DEF ReadNode, TypeInv, TypeOK
  <2> HIDE DEF n
  <2>2. claims' = [claims EXCEPT ![t] = @ \cup {<<n, repairs[n]>>}]
    BY <1>7 DEF ReadNode, n
  <2>3. \A u \in Thread : \A j \in claims'[u] : j[2] <= repairs'[j[1]]
    <3> SUFFICES ASSUME NEW u \in Thread, NEW j \in claims'[u] PROVE j[2] <= repairs'[j[1]]
      OBVIOUS
    <3>1. repairs' = repairs /\ repairs[n] \in Nat
      BY <1>7, <2>1 DEF ReadNode, TypeInv
    <3>2. j \in claims[u] \/ j = <<n, repairs[n]>>
      BY <2>2 DEF TypeInv, TypeOK
    <3> QED BY <3>1, <3>2 DEF JobInv
  <2> QED BY <1>7, <2>3 DEF ReadNode, JobInv, Taken
<1>8. ASSUME NEW t \in Thread, Submit(t) \/ SubmitRaises(t) PROVE JobInv'
  <2> DEFINE j == NextClaim(t)
  <2>1. j \in claims[t] /\ j \in Jobs
    BY <1>8, NextClaimIsClaim DEF Submit, SubmitRaises, TypeInv
  <2> HIDE DEF j
  <2>2. /\ \/ job' = job
           \/ Accepted(j) /\ \E s \in {"stranded", "queued"} : job' = [job EXCEPT ![j] = s]
        /\ claims' \in {claims, [claims EXCEPT ![t] = @ \ {j}]}
    BY <1>8 DEF Submit, SubmitRaises, j
  <2>3. \A i \in Jobs : \/ job'[i] = job[i]
                        \/ i = j /\ job[i] = "absent" /\ job'[i] \in {"stranded", "queued"}
    BY <2>2 DEF Accepted, TypeInv, TypeOK
  <2>4. \A u \in Thread : claims'[u] \subseteq claims[u]
    BY <2>2 DEF TypeInv, TypeOK
  <2>5. UNCHANGED <<mine, executions, crashes, repairs>>
    BY <1>8 DEF Submit, SubmitRaises
  <2>6. \A i \in Jobs : job'[i] # "absent" => i[2] <= repairs'[i[1]]
    BY <2>1, <2>3, <2>5 DEF JobInv
  <2>7. \A n \in Node : Taken(n)' = Taken(n)
    <3> TAKE n \in Node
    <3>1. \A k \in 0 .. MaxRepairs[n] : <<n, k>> \in Jobs
      BY JobsType
    <3>2. \A k \in 0 .. MaxRepairs[n] :
             job'[<<n, k>>] \in {"running", "done"} <=> job[<<n, k>>] \in {"running", "done"}
      BY <2>3, <3>1
    <3> QED BY <3>2 DEF Taken
  <2>8. \A u \in Thread : mine'[u] # NoJob => job'[mine'[u]] = "running"
    BY <1>0, <2>3, <2>5 DEF JobInv
  <2>9. \A u \in Thread : \A i \in claims'[u] : i[2] <= repairs'[i[1]]
    BY <2>4, <2>5 DEF JobInv
  <2> QED BY <2>5, <2>6, <2>7, <2>8, <2>9 DEF JobInv
<1>9. ASSUME NEW t \in Thread, FailNode(t) PROVE JobInv'
  <2>1. NextClaim(t)[1] \in Node
    BY <1>9, NextClaimIsClaim, JobsType DEF FailNode, TypeInv
  <2>2. CASE /\ CompleteNode(NextClaim(t)[1], "failed", FALSE)
             /\ claims' = [claims EXCEPT ![t] = @ \ {NextClaim(t)}]
             /\ Go(t, "submit")
             /\ UNCHANGED <<job, mine>>
    <3>1. \A u \in Thread : claims'[u] \subseteq claims[u]
      BY <2>2 DEF TypeInv, TypeOK
    <3>2. UNCHANGED <<job, mine, executions, crashes>>
      BY <1>9, <2>2 DEF FailNode
    <3> QED BY <1>3, <2>1, <2>2, <3>1, <3>2 DEF Outcome
  <2>3. CASE /\ ~Completable(NextClaim(t)[1])
             /\ claims' = [claims EXCEPT ![t] = {}]
             /\ EndJob(t)
             /\ UNCHANGED <<status, repairs, run>>
    <3>1. \A u \in Thread : claims'[u] \subseteq claims[u]
      BY <2>3 DEF TypeInv, TypeOK
    <3>2. UNCHANGED <<executions, crashes, repairs>>
      BY <1>9, <2>3 DEF FailNode
    <3> QED BY <1>5, <2>3, <3>1, <3>2
  <2> QED BY <1>9, <2>2, <2>3 DEF FailNode
<1>10. CASE Crash
  <2>1. \A j \in Jobs : job'[j] # "absent" <=> job[j] # "absent"
    BY <1>10 DEF Crash
  <2>2. crashes' # 0
    BY <1>10 DEF Crash, TypeInv
  <2>3. \A t \in Thread : mine'[t] = NoJob /\ claims'[t] = {}
    BY <1>10 DEF Crash
  <2> QED BY <1>10, <2>1, <2>2, <2>3 DEF Crash, JobInv
<1>11. ASSUME NEW t \in Thread, AdmitReady(t) \/ MarkRunning(t) \/ ReadAll(t) PROVE JobInv'
  BY <1>1, <1>11 DEF AdmitReady, MarkRunning, ReadAll
<1>12. CASE StartRun \/ UNCHANGED vars
  BY <1>1, <1>12 DEF StartRun, vars
<1> QED
  BY <1>2, <1>4, <1>6, <1>7, <1>8, <1>9, <1>10, <1>11, <1>12 DEF Next, Work

\* Two threads may both have selected a node and both submit it: still no two of
\* them execute one job, and without a crash a node is executed at most once per
\* attempt, because the job id carries the attempt and a known id is a replay.
THEOREM OncePerAttempt == Spec => []ExecutedOncePerAttempt
<1>1. TypeInv /\ JobInv => ExecutedOncePerAttempt
  <2> SUFFICES ASSUME TypeInv, JobInv PROVE ExecutedOncePerAttempt
    OBVIOUS
  <2>1. ASSUME crashes = 0, NEW n \in Node PROVE executions[n] <= repairs[n] + 1
    <3>1. executions[n] <= Cardinality(Taken(n)) /\ executions[n] \in Nat
      BY <2>1 DEF JobInv, TypeInv
    <3>2. repairs[n] \in Nat
      BY DEF TypeInv
    <3>3. Taken(n) \in SUBSET (0 .. repairs[n])
      <4> SUFFICES ASSUME NEW k \in Taken(n) PROVE k \in 0 .. repairs[n]
        OBVIOUS
      <4>1. k \in 0 .. MaxRepairs[n] /\ job[<<n, k>>] \in {"running", "done"}
        BY DEF Taken
      <4>2. <<n, k>> \in Jobs
        BY <4>1, JobsType
      <4>3. k <= repairs[n]
        BY <4>1, <4>2 DEF JobInv
      <4> QED BY <3>2, <4>1, <4>3, RepairsAssumption
    <3>4. IsFiniteSet(0 .. repairs[n]) /\ Cardinality(0 .. repairs[n]) = repairs[n] + 1
      BY <3>2, FS_Interval
    <3>5. Cardinality(Taken(n)) <= repairs[n] + 1 /\ Cardinality(Taken(n)) \in Nat
      BY <3>3, <3>4, FS_Subset, TakenFinite
    <3> QED BY <3>1, <3>2, <3>5
  <2>2. \A t, u \in Thread : t # u /\ mine[t] # NoJob => mine[t] # mine[u]
    BY DEF JobInv
  <2> QED BY <2>1, <2>2 DEF ExecutedOncePerAttempt
<1> QED BY <1>1, InitType, StepType, JobInvInit, JobInvStep, PTL DEF Spec

=============================================================================
