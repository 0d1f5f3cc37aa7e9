---------------------------- MODULE MCForecasts -----------------------------
(* A finite instance of Forecasts for TLC: its .cfg gives the bounds. *)
EXTENDS Forecasts
=============================================================================
