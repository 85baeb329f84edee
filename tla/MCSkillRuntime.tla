--------------------------- MODULE MCSkillRuntime ---------------------------
(* Three children of one run compute the same fingerprint in two processes. *)
(* The run's policy has room for two children or for one, and c3 may be     *)
(* called under either: with c1 it then fills the wide one, once a claim    *)
(* has lapsed, and with c2 it overfills the narrow one, which only the      *)
(* shared ledger can see.  The surroundings of c2 may fail.                 *)
EXTENDS SkillRuntime, TLC

CONSTANTS c1, c2, c3, f1, r1, p1, p2

Units(n) == [m \in Meter |-> n]

OneRun == (c1 :> r1) @@ (c2 :> r1) @@ (c3 :> r1)
TwoProcs == (c1 :> p1) @@ (c2 :> p1) @@ (c3 :> p2)
OnePrint == (c1 :> f1) @@ (c2 :> f1) @@ (c3 :> f1)

Narrow == [limit |-> Units(3), max_cost |-> NoLimit, parallel |-> 1]
Wide == [limit |-> Units(3), max_cost |-> NoLimit, parallel |-> 2]
Child(n) == [limit |-> Units(n), max_cost |-> NoLimit, parallel |-> 1]

Parents == (c1 :> {Wide}) @@ (c2 :> {Narrow}) @@ (c3 :> {Wide, Narrow})
Children == (c1 :> Child(2)) @@ (c2 :> Child(2)) @@ (c3 :> Child(1))

Reply(s, q, n) ==
    [status |-> s, passed |-> q, usage |-> [id |-> "u", meter |-> Units(n), cost |-> 0]]

\* A cacheable result, and a failure that used more than a small child's
\* reservation.
TwoReplies == {Reply("succeeded", TRUE, 1), Reply("failed", FALSE, 2)}

=============================================================================
