----------------------------- MODULE MCLotPhysics ---------------------------
(* A finite instance of LotPhysics for TLC: its .cfg gives the bounds. *)
EXTENDS LotPhysics
=============================================================================
