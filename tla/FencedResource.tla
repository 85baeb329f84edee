--------------------------- MODULE FencedResource ---------------------------
(***************************************************************************)
(* What the shared control plane promises to the workers that use it,      *)
(* independently of how the Redis scripts keep that promise.               *)
(*                                                                         *)
(* A resource is granted to one holder at a time; every grant opens a new  *)
(* epoch; only the holder of the newest epoch may write, and once it has   *)
(* written a final result the resource is never granted again and the      *)
(* result never changes.                                                   *)
(***************************************************************************)
EXTENDS Naturals

CONSTANTS
    Key,        \* the resources
    Final,      \* results after which a resource is closed for good
    Interim     \* results that leave it open for another grant

VARIABLES
    phase,      \* [Key -> {"absent", "open", "held", "closed"}]
    epoch,      \* [Key -> Nat], grants made so far
    result,     \* [Key -> {"none"} \cup Final \cup Interim], last result written
    author      \* [Key -> Nat], epoch of the holder that wrote it

avars == <<phase, epoch, result, author>>

Init ==
    /\ phase = [k \in Key |-> "absent"]
    /\ epoch = [k \in Key |-> 0]
    /\ result = [k \in Key |-> "none"]
    /\ author = [k \in Key |-> 0]

Open(k) ==
    /\ phase[k] = "absent"
    /\ phase' = [phase EXCEPT ![k] = "open"]
    /\ UNCHANGED <<epoch, result, author>>

\* A grant is made to a resource nobody holds, or over a holder that lapsed.
Grant(k) ==
    /\ phase[k] \in {"open", "held"}
    /\ phase' = [phase EXCEPT ![k] = "held"]
    /\ epoch' = [epoch EXCEPT ![k] = @ + 1]
    /\ UNCHANGED <<result, author>>

\* The newest holder gives the resource back for another attempt.
GiveBack(k) ==
    /\ phase[k] = "held"
    /\ phase' = [phase EXCEPT ![k] = "open"]
    /\ UNCHANGED <<epoch, result, author>>

\* The newest holder writes a result; a final one closes the resource.
Write(k, r) ==
    /\ phase[k] = "held"
    /\ phase' = [phase EXCEPT ![k] = IF r \in Final THEN "closed" ELSE "open"]
    /\ result' = [result EXCEPT ![k] = r]
    /\ author' = [author EXCEPT ![k] = epoch[k]]
    /\ UNCHANGED epoch

Next ==
    \E k \in Key :
        \/ Open(k)
        \/ Grant(k)
        \/ GiveBack(k)
        \/ \E r \in Final \cup Interim : Write(k, r)

Spec == Init /\ [][Next]_avars
=============================================================================
