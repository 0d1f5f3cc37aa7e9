-------------------------- MODULE FefoSimulation ---------------------------
(***************************************************************************)
(* InventorySimulationService.simulate: the lots of one ingredient, day by *)
(* day.  A day's deliveries arrive, then what expired is thrown away, then *)
(* the day's demand takes from the lots, first expiring first out.         *)
(*                                                                         *)
(* A lot or a delivery is a record: its quantity, the last day it may be   *)
(* used (Never without a date), whether the ingredient's expiry is tracked *)
(* at all, the day it arrives (0: on hand when the simulation starts) and  *)
(* the received date that orders lots expiring together.                   *)
(***************************************************************************)
EXTENDS Integers, FiniteSets, Sums

CONSTANT LastDay   \* the demand is for the days 1 .. LastDay

ASSUME LastDayOK == LastDay \in Nat \ {0}

Days == 1 .. LastDay
Never == LastDay + 100   \* date.max

Least(a, b) == IF a <= b THEN a ELSE b
Greatest(a, b) == IF a >= b THEN a ELSE b

LotSet == [quantity : Nat, expiry : Int, tracked : BOOLEAN, arrives : Nat, received : Int]

\* The date FEFO goes by: a lot that needs no tracking goes first.
Shelf(lot) == IF lot.tracked THEN lot.expiry ELSE 0

Spoils(lot, day) == lot.tracked /\ lot.expiry < day

\* A mistaken order: first in, first out.
Fifo(lots) ==
  {p \in (DOMAIN lots) \X (DOMAIN lots) :
     LET k == lots[p[1]]
         l == lots[p[2]]
     IN k.received < l.received \/ (k.received = l.received /\ p[1] < p[2])}

\* Lot k is consumed before lot l: by expiry, then received date, then id.
Fefo(lots) ==
  {p \in (DOMAIN lots) \X (DOMAIN lots) :
     LET k == lots[p[1]]
         l == lots[p[2]]
     IN \/ Shelf(k) < Shelf(l)
        \/ Shelf(k) = Shelf(l) /\ k.received < l.received
        \/ Shelf(k) = Shelf(l) /\ k.received = l.received /\ p[1] < p[2]}

\* What each lot gives when `need' is taken from the stock in that order: a
\* lot gives what those before it left wanting.
Takes(first, stock, need) ==
  [l \in DOMAIN stock |->
     LET ahead == {k \in DOMAIN stock : <<k, l>> \in first}
     IN Least(stock[l], Greatest(0, need - SumOver(ahead, stock)))]

Total(stock) == SumOver(DOMAIN stock, stock)

\* A row of the projection: one day from the stock the day before left.
Row(first, lots, stock, day, need) ==
  LET arrived == [l \in DOMAIN lots |->
                    IF lots[l].arrives = day THEN lots[l].quantity ELSE stock[l]]
      fresh   == [l \in DOMAIN lots |-> IF Spoils(lots[l], day) THEN 0 ELSE arrived[l]]
      given   == Takes(first, fresh, need)
      left    == [l \in DOMAIN lots |-> fresh[l] - given[l]]
  IN [stock     |-> left,
      opening   |-> Total(stock),
      inbound   |-> Total(arrived) - Total(stock),
      expired   |-> Total(arrived) - Total(fresh),
      fulfilled |-> Total(given),
      shortage  |-> need - Total(given),
      ending    |-> Total(left)]

\* The stock on hand before the first day, as a row.
Opening(lots) ==
  [stock |-> [l \in DOMAIN lots |-> IF lots[l].arrives = 0 THEN lots[l].quantity ELSE 0],
   opening |-> 0, inbound |-> 0, expired |-> 0, fulfilled |-> 0, shortage |-> 0,
   ending |-> Total([l \in DOMAIN lots |->
                       IF lots[l].arrives = 0 THEN lots[l].quantity ELSE 0])]

\* The rows of a projection when the lots are consumed in the order `first'.
Consumed(first, lots, demand) ==
  LET rows[day \in 0 .. LastDay] ==
        IF day = 0 THEN Opening(lots)
        ELSE Row(first, lots, rows[day - 1].stock, day, demand[day])
  IN rows

Simulate(lots, demand) == Consumed(Fefo(lots), lots, demand)

\* Totals over the days up to one.
ShortageThrough(rows, day) == SumOver(1 .. day, [d \in 1 .. day |-> rows[d].shortage])
Shortage(rows) == ShortageThrough(rows, LastDay)
Expired(rows) == SumOver(Days, [d \in Days |-> rows[d].expired])
Fulfilled(rows) == SumOver(Days, [d \in Days |-> rows[d].fulfilled])
Inbound(rows) == SumOver(Days, [d \in Days |-> rows[d].inbound])
Ending(rows) == rows[LastDay].ending

\* The first day short of stock, or Never.
FirstShortage(rows) ==
  LET short == {d \in Days : rows[d].shortage > 0}
  IN IF short = {} THEN Never ELSE CHOOSE d \in short : \A e \in short : d <= e
=============================================================================
