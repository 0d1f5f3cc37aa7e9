--------------------------- MODULE MCInventoryLots ---------------------------
(* Finite instances of InventoryLots for TLC. *)
EXTENDS InventoryLots, TLC

MCInventorySymmetry ==
  Permutations(Lots) \cup Permutations(Writers) \cup Permutations(Imports)
=============================================================================
