--------------------------- MODULE MCRunScheduler ---------------------------
(* Small instances of the scheduler.                                       *)
EXTENDS RunScheduler

CONSTANTS p1, p2, t1, t2, d1, d2, r1, r2

\* Processes on one queue database, and each on its own.
OneDb == [p \in Proc |-> d1]
OwnDb == [p \in Proc |-> IF p = p1 THEN d1 ELSE d2]

AllCancels == Proc \X Run
NoCancels == {}
=============================================================================
