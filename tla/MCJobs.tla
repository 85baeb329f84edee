------------------------------- MODULE MCJobs -------------------------------
(* Instances of Jobs for model checking.                                   *)
EXTENDS Jobs

CONSTANTS j1, j2, w1, w2, o1
=============================================================================
