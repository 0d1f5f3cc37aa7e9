----------------------------- MODULE MCImportJob -----------------------------
(* A finite instance of ImportJob for TLC; liveness is checked, so no symmetry. *)
EXTENDS ImportJob
=============================================================================
