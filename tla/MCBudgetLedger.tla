--------------------------- MODULE MCBudgetLedger ---------------------------
(* Bounds for TLC: amounts are small numbers of units; one meter may be     *)
(* exhausted while the other is not, and two usages share a usage_id.       *)
EXTENDS BudgetLedger

Amounts(a, b) == [m \in Meter |-> IF m = "model_tokens" THEN a ELSE b]

SmallPolicies ==
    {[limit |-> Amounts(3, 2), max_cost |-> 1, parallel |-> 2],
     [limit |-> Amounts(2, 2), max_cost |-> NoLimit, parallel |-> 1]}

SmallClaims ==
    {[meter |-> Amounts(2, 1), cost |-> 1, width |-> 1],
     [meter |-> Amounts(1, 0), cost |-> 0, width |-> 1]}

SmallUsages ==
    {[id |-> "x", meter |-> Amounts(0, 0), cost |-> 0],
     [id |-> "y", meter |-> Amounts(1, 0), cost |-> 1],
     [id |-> "x", meter |-> Amounts(2, 1), cost |-> 2]}

=============================================================================
