----------------------------- MODULE MCPlanning -----------------------------
(* A finite instance of Planning for TLC: its .cfg names the requests. *)
EXTENDS Planning
=============================================================================
