-------------------------- MODULE MCDependencyDAG ---------------------------
(* A graph for TLC: after the root two nodes become ready together, they    *)
(* join again, and one more node waits below the join.                      *)
EXTENDS DependencyDAG

Diamond == <<{}, {1}, {1}, {2, 3}, {4}>>
FirstRepairable == <<1, 0, 0, 0, 0>>

=============================================================================
