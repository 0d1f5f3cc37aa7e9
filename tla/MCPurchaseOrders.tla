-------------------------- MODULE MCPurchaseOrders --------------------------
(* Finite instances of PurchaseOrders for TLC. *)
EXTENDS PurchaseOrders, TLC

\* Every line costs the same per unit.
MCUnitCost == [l \in Lines |-> 1]

MCSymmetry == Permutations(Orders) \cup Permutations(Requests) \cup Permutations(Lines)
=============================================================================
