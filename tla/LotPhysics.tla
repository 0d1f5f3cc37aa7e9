----------------------------- MODULE LotPhysics -----------------------------
(***************************************************************************)
(* simulate_inventory of the decision core: what happens, day by day, to   *)
(* the lots of one ingredient of one store when a demand scenario meets    *)
(* the stock, the deliveries and the waste events of a plan.  A day        *)
(* receives its deliveries, drops what has expired, serves its demand      *)
(* first-expired-first-out, applies its waste events and closes its ledger *)
(* row, which validate_accounting_ledger checks.                           *)
(*                                                                         *)
(* The days of the simulation are 1 .. LastDay; a lot of the initial       *)
(* snapshot arrives on day 0.                                              *)
(***************************************************************************)
EXTENDS Integers, FiniteSets, Sums

CONSTANTS
  Lots,         \* lot ids, ordered as numbers
  LastDay,      \* the last simulated day
  MaxQuantity,  \* bound on a lot
  MaxDemand,    \* bound on a day's demand
  MaxEvents     \* bound on the waste events of a simulation

ASSUME PhysicsConstantsOK ==
  /\ IsFiniteSet(Lots) /\ Lots \subseteq Nat
  /\ LastDay \in Nat \ {0} /\ MaxQuantity \in Nat \ {0}
  /\ MaxDemand \in Nat /\ MaxEvents \in Nat

VARIABLES
  lot,      \* per lot: its arrival, expiry, receipt, tracking mode and quantity (input)
  policy,   \* unknown_expiry (input)
  day,
  stage,    \* where in the day
  shelf,    \* per lot: what is left of it
  used,     \* per lot: what demand took of it
  spoiled,  \* per lot: what expired of it
  wasted,   \* per lot: what waste events took of it
  want,     \* today's demand that is not yet served
  event,    \* the waste event being applied: its lot, what is left to take
  events,   \* waste events so far
  ledger,   \* today's row
  uses,     \* consumption traces: which lot on which day
  short     \* stockout_dates

input == <<lot, policy>>
vars == <<lot, policy, day, stage, shelf, used, spoiled, wasted, want, event, events, ledger, uses, short>>

\* No expiry date, no receipt date: after every date.
Never == LastDay + 2
AnyLot == 0 - 1
NoEvent == [lot |-> AnyLot, left |-> 0]
Zero == [l \in Lots |-> 0]

LotInputs == [arrives : 0..LastDay, expires : 0..LastDay + 1 \cup {Never},
              received : {0, Never} \cup 1..LastDay, tracked : BOOLEAN, quantity : 1..MaxQuantity]
Ledgers == [beginning : Nat, inbound : Nat, expired : Nat, demand : Nat, waste : Nat]

\* Only a lot of the snapshot may lack its receipt date; a delivery is received when it arrives.
Received(l) == lot[l].received = lot[l].arrives \/ (lot[l].arrives = 0 /\ lot[l].received = Never)

Init ==
  /\ lot \in [Lots -> LotInputs] /\ \A l \in Lots : Received(l)
  /\ policy \in {"reject", "place_last"}
  /\ day = 1 /\ stage = "receive"
  /\ shelf = [l \in Lots |-> IF lot[l].arrives = 0 THEN lot[l].quantity ELSE 0]
  /\ used = Zero /\ spoiled = Zero /\ wasted = Zero
  /\ want = 0 /\ event = NoEvent /\ events = 0
  /\ ledger = [beginning |-> 0, inbound |-> 0, expired |-> 0, demand |-> 0, waste |-> 0]
  /\ uses = {} /\ short = {}

-----------------------------------------------------------------------------
\* Expiry.

\* A tracked lot is usable through `expires'; without a date it never expires.  `expires' is
\* the expiry date when policy.expiry_inclusive, which is the default, and the day before it
\* otherwise: is_expired compares with nothing else, and shifting the dates of all lots
\* by a day leaves the order of fefo_sort_key as it is.
ExpiredNextDay(l, d) == lot[l].tracked /\ lot[l].expires + 1 < d
Expired(l, d) == lot[l].tracked /\ lot[l].expires < d
Unknown(l) == lot[l].tracked /\ lot[l].expires = Never

\* fefo_sort_key: untracked lots first, then by expiry, receipt and id.
ExpiryKey(l) == IF lot[l].tracked THEN lot[l].expires ELSE 0 - 1
BeforeByReceipt(k, l) ==
  lot[k].received < lot[l].received \/ (lot[k].received = lot[l].received /\ k < l)
Before(k, l) ==
  \/ ExpiryKey(k) < ExpiryKey(l)
  \/ /\ ExpiryKey(k) = ExpiryKey(l)
     /\ \/ lot[k].received < lot[l].received
        \/ lot[k].received = lot[l].received /\ k < l

Stocked(S) == {l \in S : shelf[l] > 0}
IsFirst(l, S) == l \in Stocked(S) /\ \A k \in Stocked(S) : k = l \/ Before(l, k)

-----------------------------------------------------------------------------
\* A day.

Arriving == [l \in Lots |-> IF lot[l].arrives = day THEN lot[l].quantity ELSE 0]
ReplenishedUsable == [l \in Lots |-> IF lot[l].expires < day THEN shelf[l] ELSE shelf[l] + Arriving[l]]
Replenished == [l \in Lots |-> shelf[l] + Arriving[l]]

Receive ==
  /\ stage = "receive" /\ stage' = "spoil"
  /\ shelf' = Replenished
  /\ ledger' = [beginning |-> SumOver(Lots, shelf), inbound |-> SumOver(Lots, Arriving),
                expired |-> 0, demand |-> 0, waste |-> 0]
  /\ UNCHANGED <<input, day, used, spoiled, wasted, want, event, events, uses, short>>

\* A lot on the list whose expiry nobody knows stops the simulation under "reject"; the list keeps
\* the empty lots.
Refuse ==
  /\ stage = "spoil" /\ stage' = "refused"
  /\ policy = "reject" /\ \E l \in Lots : Unknown(l) /\ lot[l].arrives <= day
  /\ UNCHANGED <<input, day, shelf, used, spoiled, wasted, want, event, events, ledger, uses, short>>

Spoiling == [l \in Lots |-> IF Expired(l, day) THEN shelf[l] ELSE 0]

Spoil ==
  /\ stage = "spoil" /\ stage' = "demand"
  /\ policy = "reject" => \A l \in Lots : Unknown(l) => lot[l].arrives > day
  /\ shelf' = [l \in Lots |-> IF Expired(l, day) THEN 0 ELSE shelf[l]]
  /\ spoiled' = [l \in Lots |-> spoiled[l] + Spoiling[l]]
  /\ ledger' = [ledger EXCEPT !.expired = SumOver(Lots, Spoiling)]
  /\ UNCHANGED <<input, day, used, wasted, want, event, events, uses, short>>

Demand(quantity) ==
  /\ stage = "demand" /\ stage' = "consume"
  /\ want' = quantity
  /\ ledger' = [ledger EXCEPT !.demand = quantity]
  /\ UNCHANGED <<input, day, shelf, used, spoiled, wasted, event, events, uses, short>>

Smaller(a, b) == IF a < b THEN a ELSE b
TakenWhole(l, amount) == [shelf EXCEPT ![l] = 0]
Taken(l, amount) == [shelf EXCEPT ![l] = shelf[l] - Smaller(shelf[l], amount)]

\* The next lot of the sorted list that has something left.
Consume(l) ==
  /\ stage = "consume" /\ want > 0 /\ IsFirst(l, Lots)
  /\ shelf' = Taken(l, want)
  /\ used' = [used EXCEPT ![l] = used[l] + Smaller(shelf[l], want)]
  /\ want' = want - Smaller(shelf[l], want)
  /\ uses' = uses \cup {[day |-> day, lot |-> l]}
  /\ UNCHANGED <<input, day, stage, spoiled, wasted, event, events, ledger, short>>

Served ==
  /\ stage = "consume" /\ stage' = "waste"
  /\ want = 0 \/ Stocked(Lots) = {}
  /\ short' = IF want > 0 THEN short \cup {day} ELSE short
  /\ UNCHANGED <<input, day, shelf, used, spoiled, wasted, want, event, events, ledger, uses>>

\* A waste event of the day, of one lot or of any.
Waste(target, quantity) ==
  /\ stage = "waste" /\ event.left = 0 /\ events < MaxEvents
  /\ event' = [lot |-> target, left |-> quantity]
  /\ events' = events + 1
  /\ UNCHANGED <<input, day, stage, shelf, used, spoiled, wasted, want, ledger, uses, short>>

Candidates == IF event.lot = AnyLot THEN Lots ELSE {event.lot}

Discard(l) ==
  /\ stage = "waste" /\ event.left > 0 /\ IsFirst(l, Candidates)
  /\ shelf' = Taken(l, event.left)
  /\ wasted' = [wasted EXCEPT ![l] = wasted[l] + Smaller(shelf[l], event.left)]
  /\ event' = [lot |-> event.lot, left |-> event.left - Smaller(shelf[l], event.left)]
  /\ ledger' = [ledger EXCEPT !.waste = ledger.waste + Smaller(shelf[l], event.left)]
  /\ UNCHANGED <<input, day, stage, used, spoiled, want, events, uses, short>>

\* An event that asks for more than there is stops the simulation.
Overdraw ==
  /\ stage = "waste" /\ stage' = "overdrawn"
  /\ event.left > 0 /\ Stocked(Candidates) = {}
  /\ UNCHANGED <<input, day, shelf, used, spoiled, wasted, want, event, events, ledger, uses, short>>

\* validate_accounting_ledger: fulfilled is the demand that is not wanted any more.
Balanced ==
  ledger.beginning + ledger.inbound - (ledger.demand - want) - ledger.expired - ledger.waste
    = SumOver(Lots, shelf)

CloseDay ==
  /\ stage = "waste" /\ event.left = 0
  /\ stage' = IF ~Balanced THEN "unbalanced" ELSE IF day < LastDay THEN "receive" ELSE "done"
  /\ day' = IF Balanced /\ day < LastDay THEN day + 1 ELSE day
  /\ want' = IF Balanced THEN 0 ELSE want
  /\ UNCHANGED <<input, shelf, used, spoiled, wasted, event, events, ledger, uses, short>>

Next ==
  \/ Receive \/ Refuse \/ Spoil \/ Served \/ Overdraw \/ CloseDay
  \/ \E quantity \in 0..MaxDemand : Demand(quantity)
  \/ \E l \in Lots : Consume(l) \/ Discard(l)
  \/ \E target \in Lots \cup {AnyLot}, quantity \in 1..MaxQuantity : Waste(target, quantity)

Spec == Init /\ [][Next]_vars

-----------------------------------------------------------------------------
Stages == {"receive", "spoil", "demand", "consume", "waste", "done", "refused", "overdrawn", "unbalanced"}

\* The types of the simulator's state.
TypeOK ==
  /\ lot \in [Lots -> LotInputs]
  /\ policy \in {"reject", "place_last"}
  /\ day \in 1..LastDay /\ stage \in Stages
  /\ shelf \in [Lots -> Nat] /\ used \in [Lots -> Nat]
  /\ spoiled \in [Lots -> Nat] /\ wasted \in [Lots -> Nat]
  /\ want \in Nat
  /\ event \in [lot : Lots \cup {AnyLot}, left : Nat] /\ events \in Nat
  /\ ledger \in Ledgers
  /\ uses \subseteq [day : 1..LastDay, lot : Lots]
  /\ short \subseteq 1..LastDay

\* Every ledger row balances: the check at the end of a day (validate_accounting_ledger) never
\* raises InventoryAccountingError, whatever arrives expired, runs short or is thrown away.
AccountsBalance == stage # "unbalanced"

\* No demand is served from a lot after its expiry date (is_expired, consume_fefo).
NothingExpiredIsUsed ==
  \A u \in uses : lot[u.lot].tracked => u.day <= lot[u.lot].expires

\* What spoils could not have been used: on no day on which it was good did demand go short, or
\* take from a lot that would have kept for longer; and the same holds of what is still on the
\* shelf (consume_fefo, fefo_sort_key).
SpoilageIsUnavoidable ==
  \A l \in Lots : lot[l].tracked /\ shelf[l] + spoiled[l] > 0 =>
    \A d \in lot[l].arrives .. day : d <= lot[l].expires =>
      /\ d \notin short
      /\ \A u \in uses : u.day = d /\ lot[u.lot].tracked => lot[u.lot].expires <= lot[l].expires

\* Every unit that arrived was used, spoiled, wasted or is still there: lot by lot the traces of a
\* simulation add up to what it was given (simulate_inventory, LotConsumptionTrace,
\* LotExpiryTrace, LotWasteTrace).
EveryUnitIsTraced ==
  \A l \in Lots :
    (lot[l].arrives < day \/ (lot[l].arrives = day /\ stage # "receive")) =>
      lot[l].quantity = shelf[l] + used[l] + spoiled[l] + wasted[l]
=============================================================================
