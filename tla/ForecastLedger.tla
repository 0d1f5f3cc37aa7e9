--------------------------- MODULE ForecastLedger ---------------------------
(***************************************************************************)
(* What forecasting promises a store, without threads, directories or      *)
(* stages: one model is active once any is, every forecast has one end,    *)
(* and the requests that carry one key share one forecast, which nothing   *)
(* changes once the key is linked to it.  Forecasts implements it.         *)
(***************************************************************************)
EXTENDS Integers, Sequences

CONSTANT Versions   \* model versions

VARIABLES
  active,     \* the active models
  trained,    \* the models that were active once
  forecasts,  \* status, model version, whether the key made it, builds it came from
  linked      \* the forecast the key answers with, 0 when there is none

ledger == <<active, trained, forecasts, linked>>
Forecast(status, version, keyed, settings, model) ==
  [status |-> status, version |-> version, keyed |-> keyed, settings |-> settings, model |-> model]

Init ==
  /\ active = {}
  /\ trained = {}
  /\ forecasts = <<>>
  /\ linked = 0

\* A trained model takes over from whichever was active.
Activate(v) ==
  /\ active' = {v}
  /\ trained' = trained \cup {v}
  /\ UNCHANGED <<forecasts, linked>>

\* The key has made no forecast yet.
Unused == linked = 0 /\ \A i \in DOMAIN forecasts : ~ forecasts[i].keyed

\* A forecast begins, with a model that was active once; the key's begins once.
Begin(v, keyed) ==
  /\ v \in trained
  /\ keyed => Unused
  /\ forecasts' = Append(forecasts, Forecast("running", v, keyed, 0, 0))
  /\ UNCHANGED <<active, trained, linked>>

\* Without a model a request is answered at once, by a forecast that is blocked.
Refuse(keyed) ==
  /\ keyed => Unused
  /\ forecasts' = Append(forecasts, Forecast("blocked", "none", keyed, 0, 0))
  /\ linked' = IF keyed THEN Len(forecasts) + 1 ELSE linked
  /\ UNCHANGED <<active, trained>>

\* A running forecast is computed from builds that were there.
Finish(i) ==
  LET f == forecasts[i]  g == forecasts'[i] IN
  /\ f.status = "running"
  /\ g.settings \in Nat \ {0} /\ g.model \in Nat \ {0}
  /\ forecasts' = [forecasts EXCEPT ![i] =
                     Forecast("completed", f.version, f.keyed, g.settings, g.model)]
  /\ UNCHANGED <<active, trained, linked>>

\* A forecast fails while it runs, or when its answer cannot be given; it is over then,
\* and never is one that the key answers with.
Fail(i) ==
  /\ forecasts[i].status \in {"running", "completed"} /\ linked # i
  /\ forecasts' = [forecasts EXCEPT ![i] =
                     Forecast("failed", forecasts[i].version, forecasts[i].keyed, 0, 0)]
  /\ UNCHANGED <<active, trained, linked>>

\* The key is linked to its forecast, once.
Link(i) ==
  /\ linked = 0 /\ forecasts[i].keyed /\ forecasts[i].status = "completed"
  /\ linked' = i
  /\ UNCHANGED <<active, trained, forecasts>>

Next ==
  \/ \E v \in Versions : Activate(v) \/ \E keyed \in BOOLEAN : Begin(v, keyed)
  \/ \E keyed \in BOOLEAN : Refuse(keyed)
  \/ \E i \in DOMAIN forecasts : Finish(i) \/ Fail(i) \/ Link(i)

Spec == Init /\ [][Next]_ledger
=============================================================================
