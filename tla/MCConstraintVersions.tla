------------------------ MODULE MCConstraintVersions ------------------------
(* A finite instance of ConstraintVersions for TLC: its .cfg gives the bounds. *)
EXTENDS ConstraintVersions
=============================================================================
