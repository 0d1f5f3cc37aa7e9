----------------------------- MODULE MCNarration ----------------------------
(* A finite instance of Narration for TLC.  One caller may ask for anything, the others share    *)
(* the gateway with it.                                                                          *)
EXTENDS Narration

CONSTANTS Asker  \* the caller that may ask for anything
Interests(c) == IF c = Asker THEN Tasks ELSE {"explanation"}
=============================================================================
