---------------------------- MODULE PurchaseCosts ----------------------------
(***************************************************************************)
(* What quantities of an order's lines cost.  Quantities are whole quanta, *)
(* Scale of them to one unit: Decimal quantities with Python's             *)
(* int(quantity * unit_cost), which drops the fraction of every product.   *)
(***************************************************************************)
EXTENDS Sums

CONSTANTS
  Lines,      \* lines of an order (every order has one row per element)
  UnitCost,   \* unit_cost of each line
  Scale       \* quanta per unit of quantity

ASSUME CostsOK ==
  /\ IsFiniteSet(Lines) /\ Lines # {}
  /\ UnitCost \in [Lines -> Nat]
  /\ Scale \in Nat \ {0}

CostOf(l, q) == (q * UnitCost[l]) \div Scale
Costs(q) == [l \in Lines |-> CostOf(l, q[l])]
CostOfAll(q) == SumOver(Lines, Costs(q))
=============================================================================
