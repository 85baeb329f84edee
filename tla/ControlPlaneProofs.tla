------------------------- MODULE ControlPlaneProofs -------------------------
(***************************************************************************)
(* Proofs about the shared control plane, for any set of resources,        *)
(* workers and requests and any number of grants.                          *)
(*                                                                         *)
(* The fencing properties are not inductive by themselves: that an         *)
(* accepted token is the newest one, or that a new token differs from all  *)
(* others, needs that no token was ever ahead of its resource's counter.   *)
(* FencingInv adds that, and TypeOK.                                       *)
(***************************************************************************)
EXTENDS ControlPlane, TLAPS

LEMMA TypeStep == TypeOK /\ [Next]_vars => TypeOK'
<1> SUFFICES ASSUME TypeOK, [Next]_vars PROVE TypeOK'
  OBVIOUS
<1> USE DEF TypeOK
<1>1. ASSUME NEW k \in Key, NEW h \in Hash, Admit(k, h) PROVE TypeOK'
  BY <1>1 DEF Admit, Publish, Status, EventType
<1>2. ASSUME NEW k \in Key, NEW o \in Owner, Claim(k, o) PROVE TypeOK'
  BY <1>2 DEF Claim, Grant, NextFence, Publish, Status, EventType, Token,
              queueVars
<1>3. ASSUME NEW t \in issued, Renew(t) PROVE TypeOK'
  BY <1>3 DEF Renew, Token, queueVars
<1>4. ASSUME NEW t \in issued, NEW s \in Outcomes, Transition(t, s)
      PROVE TypeOK'
  BY <1>4 DEF Transition, Release, Publish, Token, Status, EventType,
              queueVars
<1>5. ASSUME NEW t \in issued, ScheduleRetry(t) PROVE TypeOK'
  BY <1>5 DEF ScheduleRetry, Release, Publish, Token, Status, EventType,
              queueVars
<1>6. ASSUME NEW k \in Key, Lapse(k) PROVE TypeOK'
  BY <1>6 DEF Lapse, queueVars
<1>7. ASSUME NEW o \in Owner, Poll(o) PROVE TypeOK'
  BY <1>7 DEF Poll, leaseVars
<1>8. ASSUME NEW o \in Owner, NEW k \in Key, Reclaim(o, k) PROVE TypeOK'
  BY <1>8 DEF Reclaim, leaseVars
<1>9. ASSUME NEW k \in Key, Ack(k) PROVE TypeOK'
  BY <1>9 DEF Ack, leaseVars
<1>10. CASE UNCHANGED vars
  BY <1>10 DEF vars
<1>11. QED
  BY <1>1, <1>2, <1>3, <1>4, <1>5, <1>6, <1>7, <1>8, <1>9, <1>10 DEF Next

\* Every field keeps its type under every script and stream command.
THEOREM TypeCorrect == Spec => []TypeOK
<1>1. Init => TypeOK
  BY DEF Init, TypeOK, Status
<1>2. QED
  BY <1>1, TypeStep, PTL DEF Spec

-----------------------------------------------------------------------------
\* No token carries a fence that its resource's counter has not reached.
TokensBehindCounter == \A t \in issued : t.fence <= fence[t.key]

\* A final result was written under the counter's present value.
AuthorAtCounter ==
    \A k \in Key : status[k] \in ClaimTerminal => author[k] = fence[k]

\* The admit script creates the record and its status together.
AdmittedTogether ==
    \A k \in Key : status[k] = "absent" <=> hash[k] = NoHash

FencingInv ==
    /\ TypeOK
    /\ AdmittedTogether
    /\ TokensBehindCounter
    /\ TokensUnique
    /\ AuthorAtCounter
    /\ LeaseOnlyWhileRunning

LEMMA FencingInit == Init => FencingInv
  BY OutcomesAssumption
     DEF Init, FencingInv, TypeOK, Status, TokensBehindCounter, TokensUnique,
         AuthorAtCounter, AdmittedTogether, LeaseOnlyWhileRunning,
         ClaimTerminal, Parked

LEMMA FencingStep == FencingInv /\ [Next]_vars => FencingInv'
<1> SUFFICES ASSUME TypeOK, TypeOK', FencingInv, [Next]_vars
             PROVE  FencingInv'
  BY TypeStep DEF FencingInv
<1> USE OutcomesAssumption, NoOwnerAssumption, NoHashAssumption
    DEF FencingInv, TypeOK, TokensBehindCounter, TokensUnique,
        AuthorAtCounter, AdmittedTogether, LeaseOnlyWhileRunning,
        ClaimTerminal, Parked, Token
<1>1. ASSUME NEW k \in Key, NEW h \in Hash, Admit(k, h) PROVE FencingInv'
  <2>1. status[k] = "absent"
    BY <1>1 DEF Admit, Admission
  <2>2. QED
    BY <1>1, <2>1 DEF Admit
<1>2. ASSUME NEW k \in Key, NEW o \in Owner, Claim(k, o)
      PROVE  FencingInv'
  <2>1. TokensBehindCounter'
    BY <1>2 DEF Claim, Grant, NextFence
  <2>2. TokensUnique'
    <3> DEFINE g == Grant(k, o)
    <3>1. issued' = issued \cup {g} /\ g.key = k /\ g.fence = fence[k] + 1
      BY <1>2 DEF Claim, Grant, NextFence
    <3>2. \A t \in issued : t.key = k => t.fence # g.fence
      BY <3>1
    <3> HIDE DEF g
    <3>3. QED
      BY <3>1, <3>2
  <2>3. AuthorAtCounter' /\ AdmittedTogether' /\ LeaseOnlyWhileRunning'
    BY <1>2 DEF Claim, Claimable, NextFence
  <2>4. QED
    BY <2>1, <2>2, <2>3
<1>3. ASSUME NEW t \in issued, Renew(t) PROVE FencingInv'
  BY <1>3 DEF Renew, Holds
<1>4. ASSUME NEW t \in issued, NEW s \in Outcomes, Transition(t, s)
      PROVE FencingInv'
  <2>1. t.key \in Key /\ author'[t.key] = fence'[t.key]
    BY <1>4 DEF Transition, Holds
  <2>2. TokensBehindCounter' /\ TokensUnique' /\ AdmittedTogether'
    BY <1>4, <2>1 DEF Transition, Holds
  <2>3. AuthorAtCounter' /\ LeaseOnlyWhileRunning'
    BY <1>4, <2>1 DEF Transition, Release
  <2>4. QED
    BY <2>2, <2>3
<1>5. ASSUME NEW t \in issued, ScheduleRetry(t) PROVE FencingInv'
  BY <1>5 DEF ScheduleRetry, Holds, Release
<1>6. ASSUME NEW k \in Key, Lapse(k) PROVE FencingInv'
  BY <1>6 DEF Lapse
<1>7. ASSUME NEW o \in Owner, Poll(o) PROVE FencingInv'
  BY <1>7 DEF Poll, leaseVars
<1>8. ASSUME NEW o \in Owner, NEW k \in Key, Reclaim(o, k)
      PROVE  FencingInv'
  BY <1>8 DEF Reclaim, leaseVars
<1>9. ASSUME NEW k \in Key, Ack(k) PROVE FencingInv'
  BY <1>9 DEF Ack, leaseVars
<1>10. CASE UNCHANGED vars
  BY <1>10 DEF vars
<1>11. QED
  BY <1>1, <1>2, <1>3, <1>4, <1>5, <1>6, <1>7, <1>8, <1>9, <1>10 DEF Next

\* The strengthened fencing invariant holds of every behaviour.
THEOREM Fencing == Spec => []FencingInv
  BY FencingInit, FencingStep, PTL DEF Spec

\* A worker that lost its lease can renew, settle and retry nothing, even if
\* it holds a newer lease name or several tokens of the resource.
THEOREM StalePowerless == Spec => []StaleTokensPowerless
<1>1. FencingInv => StaleTokensPowerless
  BY DEF FencingInv, TypeOK, TokensBehindCounter, StaleTokensPowerless, Holds,
         Token
<1>2. QED
  BY <1>1, Fencing, PTL

\* Only a running resource has an owner or a lease, so every other one can be claimed at
\* once or never again: no retry, transition or late renewal leaves a lease behind.
THEOREM LeasesEndWithRun == Spec => []LeaseOnlyWhileRunning
<1>1. FencingInv => LeaseOnlyWhileRunning
  BY DEF FencingInv
<1>2. QED
  BY <1>1, Fencing, PTL

\* No two claims of a resource return the same fencing token.
THEOREM UniqueTokens == Spec => []TokensUnique
<1>1. FencingInv => TokensUnique
  BY DEF FencingInv
<1>2. QED
  BY <1>1, Fencing, PTL

\* A final result was written by the newest lease holder, and no lease was
\* handed out after it.
THEOREM FinalIsNewest == Spec => []FinalByNewest
<1>1. FencingInv => FinalByNewest
  BY DEF FencingInv, TypeOK, TokensBehindCounter, AuthorAtCounter,
         FinalByNewest, Token
<1>2. QED
  BY <1>1, Fencing, PTL

\* What a step leaves alone of a resource that is final.
Frozen ==
    \A k \in Key : status[k] \in ClaimTerminal =>
        /\ status'[k] = status[k]
        /\ result'[k] = result[k]
        /\ events'[k] = events[k]

LEMMA FrozenStep == FencingInv /\ [Next]_vars => Frozen
<1> SUFFICES ASSUME FencingInv, [Next]_vars PROVE Frozen
  OBVIOUS
<1> USE DEF FencingInv, TypeOK, AdmittedTogether, ClaimTerminal, Publish,
        Holds, Token, Frozen
<1>1. ASSUME NEW k \in Key, NEW h \in Hash, Admit(k, h) PROVE Frozen
  BY <1>1 DEF Admit, Admission
<1>2. ASSUME NEW k \in Key, NEW o \in Owner, Claim(k, o) PROVE Frozen
  BY <1>2 DEF Claim, Claimable
<1>3. ASSUME NEW t \in issued, Renew(t) PROVE Frozen
  BY <1>3 DEF Renew
<1>4. ASSUME NEW t \in issued, NEW s \in Outcomes, Transition(t, s)
      PROVE Frozen
  BY <1>4 DEF Transition
<1>5. ASSUME NEW t \in issued, ScheduleRetry(t) PROVE Frozen
  BY <1>5 DEF ScheduleRetry
<1>6. ASSUME NEW k \in Key, Lapse(k) PROVE Frozen
  BY <1>6 DEF Lapse
<1>7. ASSUME UNCHANGED leaseVars PROVE Frozen
  BY <1>7 DEF leaseVars
<1>8. UNCHANGED vars => UNCHANGED leaseVars
  BY DEF vars, leaseVars
<1>9. QED
  BY <1>1, <1>2, <1>3, <1>4, <1>5, <1>6, <1>7, <1>8
     DEF Next, Poll, Reclaim, Ack

\* Nothing that arrives after a final status changes it, its result or its
\* event stream.
THEOREM FinalNeverChanges == Spec => FinalStable
<1>1. FencingInv /\ [Next]_vars => [Frozen]_vars
  BY FrozenStep
<1>2. QED
  BY <1>1, Fencing, PTL DEF Spec, FinalStable, Frozen

-----------------------------------------------------------------------------
\* The scripts implement the single-writer contract: a claim opens an epoch, a
\* retry gives the resource back, a transition writes under the newest epoch,
\* and everything else is a stutter of the contract.
THEOREM Refinement == Spec => ImplementsContract
<1> USE DEF Contract!avars
<1>1. Init => Contract!Init
  <2>1. Phase("absent") = "absent"
    BY DEF Phase, ClaimTerminal
  <2>2. QED
    BY <2>1 DEF Init, Contract!Init
<1>2. FencingInv /\ FencingInv' /\ [Next]_vars => [Contract!Next]_(Contract!avars)
  <2> SUFFICES ASSUME FencingInv, FencingInv', [Next]_vars
               PROVE  [Contract!Next]_(Contract!avars)
    OBVIOUS
  <2> USE OutcomesAssumption
      DEF FencingInv, TypeOK, AdmittedTogether, Holds, Token, Parked
  <2>1. ASSUME NEW k \in Key, NEW h \in Hash, Admit(k, h)
        PROVE  Contract!Open(k)
    <3>1. k \in Key /\ Phase(status[k]) = "absent"
          /\ Phase(status'[k]) = "open"
      BY <2>1 DEF Admit, Admission, Phase, ClaimTerminal
    <3>2. \A j \in Key : j # k => Phase(status'[j]) = Phase(status[j])
      BY <2>1 DEF Admit, Admission, Phase
    <3>3. QED
      BY <2>1, <3>1, <3>2 DEF Admit, Contract!Open
  <2>2. ASSUME NEW k \in Key, NEW o \in Owner, Claim(k, o)
        PROVE  Contract!Grant(k)
    <3>1. k \in Key /\ Phase(status[k]) \in {"open", "held"}
          /\ Phase(status'[k]) = "held"
      BY <2>2 DEF Claim, Claimable, Phase, ClaimTerminal
    <3>2. \A j \in Key : j # k => Phase(status'[j]) = Phase(status[j])
      BY <2>2 DEF Claim, Claimable, Phase
    <3>3. QED
      BY <2>2, <3>1, <3>2 DEF Claim, NextFence, Contract!Grant
  <2>3. ASSUME NEW t \in issued, NEW s \in Outcomes, Transition(t, s)
        PROVE  Contract!Write(t.key, s)
    <3> DEFINE after == IF s \in Outcomes \cap ClaimTerminal
                        THEN "closed" ELSE "open"
    <3>1. t.key \in Key /\ Phase(status[t.key]) = "held"
      BY <2>3 DEF Transition, Phase, ClaimTerminal
    <3>2. Phase(status'[t.key]) = after
      BY <2>3 DEF Transition, Phase, ClaimTerminal
    <3>3. \A j \in Key : j # t.key => Phase(status'[j]) = Phase(status[j])
      BY <2>3 DEF Transition, Phase
    <3>4. [k \in Key |-> Phase(status'[k])]
            = [[k \in Key |-> Phase(status[k])] EXCEPT ![t.key] = after]
      <4> HIDE DEF after
      <4>1. QED
        BY <3>1, <3>2, <3>3
    <3>5. author' = [author EXCEPT ![t.key] = fence[t.key]]
      BY <2>3 DEF Transition
    <3>6. QED
      BY <2>3, <3>1, <3>4, <3>5 DEF Transition, Contract!Write
  <2>4. ASSUME NEW t \in issued, ScheduleRetry(t)
        PROVE  Contract!GiveBack(t.key)
    <3>1. t.key \in Key /\ Phase(status[t.key]) = "held"
          /\ Phase(status'[t.key]) = "open"
      BY <2>4 DEF ScheduleRetry, Phase, ClaimTerminal
    <3>2. \A j \in Key : j # t.key => Phase(status'[j]) = Phase(status[j])
      BY <2>4 DEF ScheduleRetry, Phase
    <3>3. QED
      BY <2>4, <3>1, <3>2 DEF ScheduleRetry, Contract!GiveBack
  <2>5. ASSUME UNCHANGED <<status, fence, result, author>>
        PROVE  UNCHANGED Contract!avars
    BY <2>5 DEF Phase
  <2>6. QED
    BY <2>1, <2>2, <2>3, <2>4, <2>5
       DEF Next, Renew, Lapse, Poll, Reclaim, Ack, leaseVars, vars,
           Contract!Next
<1>3. QED
  BY <1>1, <1>2, Fencing, PTL DEF Spec, ImplementsContract, Contract!Spec

-----------------------------------------------------------------------------
(* The consumer group                                                      *)

\* An append of a key that is not queued keeps the entries apart.
LEMMA QueueAppend ==
    ASSUME NEW q \in Seq(Key), NEW k \in Key, \A i \in DOMAIN q : q[i] # k,
           \A i, j \in DOMAIN q : q[i] = q[j] => i = j
    PROVE  /\ \A i, j \in DOMAIN Append(q, k) : Append(q, k)[i] = Append(q, k)[j] => i = j
           /\ \A x \in Key : (\E i \in DOMAIN Append(q, k) : Append(q, k)[i] = x)
                                <=> x = k \/ \E i \in DOMAIN q : q[i] = x
<1>1. /\ DOMAIN Append(q, k) = 1..(Len(q) + 1) /\ DOMAIN q = 1..Len(q) /\ Len(q) \in Nat
      /\ \A i \in 1..Len(q) : Append(q, k)[i] = q[i]
      /\ Append(q, k)[Len(q) + 1] = k
  OBVIOUS
<1> DEFINE p == Append(q, k)
<1>2. \A i \in DOMAIN p : i \in DOMAIN q \/ i = Len(q) + 1
  BY <1>1
<1>3. \A i, j \in DOMAIN p : p[i] = p[j] => i = j
  BY <1>1, <1>2
<1>4. \A x \in Key : (\E i \in DOMAIN p : p[i] = x) <=> x = k \/ \E i \in DOMAIN q : q[i] = x
  <2> TAKE x \in Key
  <2>1. (\E i \in DOMAIN p : p[i] = x) => x = k \/ \E i \in DOMAIN q : q[i] = x
    BY <1>1, <1>2
  <2>2. x = k => \E i \in DOMAIN p : p[i] = x
    BY <1>1
  <2>3. (\E i \in DOMAIN q : q[i] = x) => \E i \in DOMAIN p : p[i] = x
    BY <1>1
  <2> QED BY <2>1, <2>2, <2>3
<1> QED BY <1>3, <1>4

\* Delivering the oldest entry removes that key from the queue and no other.
LEMMA QueueTail ==
    ASSUME NEW q \in Seq(Key), q # <<>>, \A i, j \in DOMAIN q : q[i] = q[j] => i = j
    PROVE  /\ \A i, j \in DOMAIN Tail(q) : Tail(q)[i] = Tail(q)[j] => i = j
           /\ \A x \in Key : (\E i \in DOMAIN Tail(q) : Tail(q)[i] = x)
                                <=> x # Head(q) /\ \E i \in DOMAIN q : q[i] = x
<1>1. /\ DOMAIN Tail(q) = 1..(Len(q) - 1) /\ DOMAIN q = 1..Len(q) /\ Len(q) \in Nat \ {0}
      /\ \A i \in 1..(Len(q) - 1) : Tail(q)[i] = q[i + 1]
      /\ Head(q) = q[1]
  OBVIOUS
<1> DEFINE p == Tail(q)
<1>2. \A i \in DOMAIN p : i + 1 \in DOMAIN q /\ i + 1 # 1 /\ i \in Nat
  BY <1>1
<1>3. \A i, j \in DOMAIN p : p[i] = p[j] => i = j
  <2> TAKE i, j \in DOMAIN p
  <2>1. p[i] = q[i + 1] /\ p[j] = q[j + 1]
    BY <1>1
  <2>2. p[i] = p[j] => i + 1 = j + 1
    BY <1>2, <2>1
  <2> QED BY <1>2, <2>2
<1>4. \A x \in Key : (\E i \in DOMAIN p : p[i] = x) <=> x # Head(q) /\ \E i \in DOMAIN q : q[i] = x
  <2> TAKE x \in Key
  <2>1. ASSUME NEW i \in DOMAIN p, p[i] = x PROVE x # Head(q) /\ \E j \in DOMAIN q : q[j] = x
    <3>1. q[i + 1] = x /\ i + 1 \in DOMAIN q /\ i + 1 # 1 /\ 1 \in DOMAIN q
      BY <1>1, <1>2, <2>1
    <3>2. q[i + 1] # q[1]
      BY <3>1
    <3> QED BY <1>1, <3>1, <3>2
  <2>2. ASSUME NEW j \in DOMAIN q, q[j] = x, x # Head(q) PROVE \E i \in DOMAIN p : p[i] = x
    <3>1. j # 1 /\ j \in 1..Len(q)
      BY <1>1, <2>2
    <3>2. j - 1 \in 1..(Len(q) - 1) /\ (j - 1) + 1 = j
      BY <1>1, <3>1
    <3>3. Tail(q)[j - 1] = q[j]
      BY <1>1, <3>2
    <3> QED BY <1>1, <2>2, <3>2, <3>3
  <2> QED BY <2>1, <2>2
<1> QED BY <1>3, <1>4

LEMMA EntryStep ==
    ASSUME FencingInv, OneEntryPerAdmission, [Next]_vars
    PROVE  OneEntryPerAdmission'
<1>0. TypeOK /\ AdmittedTogether
  BY DEF FencingInv
<1> USE DEF OneEntryPerAdmission
<1>1. ASSUME NEW k \in Key, NEW h \in Hash, Admit(k, h) PROVE OneEntryPerAdmission'
  <2>1. /\ status[k] = "absent" /\ status' = [status EXCEPT ![k] = "queued"]
        /\ queue' = Append(queue, k) /\ UNCHANGED <<pel, acked>>
    BY <1>0, <1>1 DEF Admit, Admission, AdmittedTogether
  <2>2. ~InQueue(k) /\ queue \in Seq(Key)
    BY <1>0, <2>1 DEF TypeOK
  <2>3. \A i \in DOMAIN queue : queue[i] # k
    BY <2>2 DEF InQueue
  <2>4. /\ \A i, j \in DOMAIN queue' : queue'[i] = queue'[j] => i = j
        /\ \A x \in Key : InQueue(x)' <=> x = k \/ InQueue(x)
    BY <2>1, <2>2, <2>3, QueueAppend DEF InQueue
  <2> HIDE DEF InQueue
  <2>5. \A x \in Key : status'[x] = IF x = k THEN "queued" ELSE status[x]
    BY <1>0, <2>1 DEF TypeOK
  <2> QED BY <2>1, <2>4, <2>5
<1>2. ASSUME NEW o \in Owner, Poll(o) PROVE OneEntryPerAdmission'
  <2>1. /\ queue \in Seq(Key) /\ queue # <<>> /\ queue' = Tail(queue) /\ Head(queue) \in Key
        /\ pel' = [pel EXCEPT ![Head(queue)] = o] /\ UNCHANGED <<status, acked>>
    BY <1>0, <1>2 DEF Poll, TypeOK, leaseVars
  <2>2. InQueue(Head(queue))
    BY <2>1 DEF InQueue
  <2>3. /\ \A i, j \in DOMAIN queue' : queue'[i] = queue'[j] => i = j
        /\ \A x \in Key : InQueue(x)' <=> x # Head(queue) /\ InQueue(x)
    BY <2>1, QueueTail DEF InQueue
  <2>4. PICK k \in Key : k = Head(queue)
    BY <2>1
  <2>5. \A x \in Key : pel'[x] = IF x = k THEN o ELSE pel[x]
    BY <1>0, <2>1, <2>4 DEF TypeOK
  <2>6. o # NoOwner
    BY NoOwnerAssumption
  <2> QED BY <2>1, <2>2, <2>3, <2>4, <2>5, <2>6
<1>3. ASSUME NEW o \in Owner, NEW k \in Key, Reclaim(o, k) PROVE OneEntryPerAdmission'
  <2>1. /\ pel[k] # NoOwner /\ \A x \in Key : pel'[x] = IF x = k THEN o ELSE pel[x]
        /\ UNCHANGED <<status, queue, acked>> /\ o # NoOwner
    BY <1>0, <1>3, NoOwnerAssumption DEF Reclaim, leaseVars, TypeOK
  <2> QED BY <2>1 DEF InQueue
<1>4. ASSUME NEW k \in Key, Ack(k) PROVE OneEntryPerAdmission'
  <2>1. /\ pel[k] # NoOwner /\ \A x \in Key : pel'[x] = IF x = k THEN NoOwner ELSE pel[x]
        /\ acked' = acked \cup {k} /\ UNCHANGED <<status, queue>>
    BY <1>0, <1>4 DEF Ack, leaseVars, TypeOK
  <2> QED BY <2>1 DEF InQueue
<1>5. ASSUME UNCHANGED queueVars,
             \A k \in Key : status'[k] = "absent" <=> status[k] = "absent"
      PROVE  OneEntryPerAdmission'
  BY <1>5 DEF queueVars, InQueue
<1>6. ASSUME NEW k \in Key, NEW o \in Owner, Claim(k, o) PROVE OneEntryPerAdmission'
  BY <1>0, <1>5, <1>6 DEF Claim, Claimable, TypeOK
<1>7. ASSUME NEW t \in issued, NEW s \in Outcomes, Transition(t, s) PROVE OneEntryPerAdmission'
  <2>1. s # "absent" /\ status[t.key] = "running" /\ t.key \in Key
    BY <1>0, <1>7, OutcomesAssumption DEF Transition, Holds, ClaimTerminal, Parked, TypeOK, Token
  <2> QED BY <1>0, <1>5, <1>7, <2>1 DEF Transition, TypeOK
<1>8. ASSUME NEW t \in issued, ScheduleRetry(t) PROVE OneEntryPerAdmission'
  <2>1. status[t.key] = "running" /\ t.key \in Key
    BY <1>0, <1>8 DEF ScheduleRetry, Holds, TypeOK, Token
  <2> QED BY <1>0, <1>5, <1>8, <2>1 DEF ScheduleRetry, TypeOK
<1>9. ASSUME NEW t \in issued, Renew(t) PROVE OneEntryPerAdmission'
  BY <1>5, <1>9 DEF Renew
<1>10. ASSUME NEW k \in Key, Lapse(k) PROVE OneEntryPerAdmission'
  BY <1>5, <1>10 DEF Lapse
<1>11. ASSUME UNCHANGED vars PROVE OneEntryPerAdmission'
  BY <1>5, <1>11 DEF vars, queueVars
<1> HIDE DEF OneEntryPerAdmission
<1> QED
  BY <1>1, <1>2, <1>3, <1>4, <1>6, <1>7, <1>8, <1>9, <1>10, <1>11 DEF Next

\* The work item of an admitted request is neither lost nor doubled by the stream: it is
\* undelivered, pending at one consumer, or acknowledged, for any number of requests.
THEOREM NoEntryLost == Spec => []OneEntryPerAdmission
<1>1. Init => OneEntryPerAdmission
  BY DEF Init, OneEntryPerAdmission, InQueue
<1>2. FencingInv /\ OneEntryPerAdmission /\ [Next]_vars => OneEntryPerAdmission'
  BY EntryStep
<1> QED BY <1>1, <1>2, Fencing, PTL DEF Spec
=============================================================================
