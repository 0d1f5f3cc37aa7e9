--------------------------- MODULE MCImportCreate ---------------------------
(* A finite instance of ImportCreate for TLC; liveness is checked, so no symmetry. *)
EXTENDS ImportCreate
=============================================================================
