--------------------------- MODULE MCControlPlane ---------------------------
(* The control plane with two resources, two workers and two requests.     *)
EXTENDS ControlPlane, TLC

CONSTANTS k1, k2, o1, o2, h1, h2

MCKey == {k1, k2}
MCOwner == {o1, o2}
MCHash == {h1, h2}

Symmetry == Permutations(MCKey) \cup Permutations(MCOwner) \cup Permutations(MCHash)
=============================================================================
