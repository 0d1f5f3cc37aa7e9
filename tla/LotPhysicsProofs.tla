-------------------------- MODULE LotPhysicsProofs --------------------------
(***************************************************************************)
(* For every set of lots, every horizon and every quantity: the day's      *)
(* accounts balance, every unit is traced, no expired stock serves demand, *)
(* and what spoils could not have been used.                               *)
(***************************************************************************)
EXTENDS LotPhysics, SumLemmas

Arrived(l) == lot[l].arrives < day \/ (lot[l].arrives = day /\ stage # "receive")

\* The parts of the inductive invariant.  Nothing happens to a lot before it arrives.
NothingBeforeArrival ==
  \A l \in Lots : ~ Arrived(l) => shelf[l] = 0 /\ used[l] = 0 /\ spoiled[l] = 0 /\ wasted[l] = 0

\* The row of the day balances after every step of the day, not only at its end.
RowBalances ==
  /\ stage \in {"spoil", "demand", "consume", "waste"} => Balanced
  /\ stage \in {"receive", "spoil", "demand"} => want = 0
  /\ stage = "spoil" => ledger.expired = 0
  /\ stage \in {"spoil", "demand"} => ledger.demand = 0

\* Once a day's expired lots are dropped, what is on the shelf is good.
ShelfIsGood ==
  stage \in {"demand", "consume", "waste"} => \A l \in Lots : shelf[l] > 0 => ~ Expired(l, day)

SpoiledIsExpired == \A l \in Lots : spoiled[l] > 0 => Expired(l, day)

\* Demand is served, and falls short, at its stage of the day.
UsesInOrder ==
  \A u \in uses : u.day < day \/ (u.day = day /\ stage \notin {"receive", "spoil", "demand"})
ShortInOrder ==
  \A d \in short : d < day \/ (d = day /\ stage \notin {"receive", "spoil", "demand", "consume"})

IInv ==
  /\ TypeOK /\ NothingBeforeArrival /\ EveryUnitIsTraced
  /\ RowBalances /\ AccountsBalance
  /\ ShelfIsGood /\ SpoiledIsExpired /\ UsesInOrder /\ ShortInOrder
  /\ NothingExpiredIsUsed /\ SpoilageIsUnavoidable

-----------------------------------------------------------------------------
LEMMA LotsAreFinite == IsFiniteSet(Lots)
BY PhysicsConstantsOK

\* The lots' data are numbers.
LEMMA LotData ==
  ASSUME TypeOK, NEW l \in Lots
  PROVE  /\ lot[l].arrives \in 0 .. LastDay /\ lot[l].expires \in Int /\ lot[l].quantity \in Nat
         /\ lot[l].tracked \in BOOLEAN
BY PhysicsConstantsOK DEF TypeOK, LotInputs, Never

\* What is taken of a lot is no more than it has or than is asked for.
LEMMA SmallerFits ==
  ASSUME NEW a \in Nat, NEW b \in Nat
  PROVE  /\ Smaller(a, b) \in Nat /\ Smaller(a, b) <= a /\ Smaller(a, b) <= b
         /\ b - Smaller(a, b) \in Nat
BY DEF Smaller

LEMMA TakenFacts ==
  ASSUME TypeOK, NEW l \in Lots, NEW amount \in Nat
  PROVE  /\ Taken(l, amount) \in [Lots -> Nat]
         /\ Taken(l, amount)[l] = shelf[l] - Smaller(shelf[l], amount)
         /\ \A k \in Lots : k # l => Taken(l, amount)[k] = shelf[k]
         /\ SumOver(Lots, Taken(l, amount)) = SumOver(Lots, shelf) - Smaller(shelf[l], amount)
         /\ SumOver(Lots, shelf) \in Nat
<1> DEFINE g == Taken(l, amount)
           d == Smaller(shelf[l], amount)
<1>1. shelf \in [Lots -> Nat] /\ d \in Nat /\ d <= shelf[l]
  BY SmallerFits DEF TypeOK
<1>2. /\ g \in [Lots -> Nat] /\ g[l] = shelf[l] - d
      /\ \A k \in Lots : k # l => g[k] = shelf[k]
  <2> HIDE DEF d
  <2>1. g = [shelf EXCEPT ![l] = shelf[l] - d]
    BY DEF Taken, d
  <2>2. shelf[l] - d \in Nat
    BY <1>1
  <2>3. QED
    BY <1>1, <2>1, <2>2
<1> HIDE DEF g, d
<1>3. SumOver(Lots, g) - g[l] = SumOver(Lots, shelf) - shelf[l]
  BY <1>1, <1>2, SumChange, LotsAreFinite
<1>4. SumOver(Lots, shelf) \in Nat /\ SumOver(Lots, g) \in Nat
  BY <1>1, <1>2, SumNat, LotsAreFinite
<1>5. QED
  BY <1>1, <1>2, <1>3, <1>4 DEF g, d

\* What arrives today, and what spoils today.
LEMMA DayFacts ==
  ASSUME TypeOK
  PROVE  /\ Arriving \in [Lots -> Nat] /\ Replenished \in [Lots -> Nat]
         /\ Spoiling \in [Lots -> Nat]
         /\ SumOver(Lots, Arriving) \in Nat /\ SumOver(Lots, Spoiling) \in Nat
         /\ SumOver(Lots, shelf) \in Nat
<1>1. Arriving \in [Lots -> Nat]
  BY LotData DEF Arriving
<1>2. Replenished \in [Lots -> Nat]
  BY <1>1 DEF Replenished, TypeOK
<1>3. Spoiling \in [Lots -> Nat]
  BY DEF Spoiling, TypeOK
<1>4. QED
  BY <1>1, <1>2, <1>3, SumNat, LotsAreFinite DEF TypeOK

\* A property of every action is a property of every step.
LEMMA StepCases ==
  ASSUME Next
  PROVE  \/ Receive \/ Refuse \/ Spoil \/ Served \/ Overdraw \/ CloseDay
         \/ \E quantity \in Nat : Demand(quantity)
         \/ \E l \in Lots : Consume(l)
         \/ \E l \in Lots : Discard(l)
         \/ \E target \in Lots \cup {AnyLot}, quantity \in Nat : Waste(target, quantity)
BY PhysicsConstantsOK DEF Next

-----------------------------------------------------------------------------
LEMMA TypesStep == TypeOK /\ [Next]_vars => TypeOK'
<1> SUFFICES ASSUME TypeOK, [Next]_vars PROVE TypeOK'
  OBVIOUS
<1> USE DEF TypeOK, input
<1>0. LastDay \in Nat \ {0}
  BY PhysicsConstantsOK
<1>1. CASE Receive
  <2>1. [beginning |-> SumOver(Lots, shelf), inbound |-> SumOver(Lots, Arriving),
         expired |-> 0, demand |-> 0, waste |-> 0] \in Ledgers
    BY DayFacts DEF Ledgers
  <2>2. QED
    BY <1>1, <2>1, DayFacts DEF Receive, Stages
<1>2. CASE Refuse
  BY <1>2 DEF Refuse, Stages
<1>3. CASE Spoil
  <2>1. ledger' \in Ledgers
    BY <1>3, DayFacts DEF Spoil, Ledgers
  <2>2. spoiled' \in [Lots -> Nat] /\ shelf' \in [Lots -> Nat]
    BY <1>3, DayFacts DEF Spoil
  <2>3. QED
    BY <1>3, <2>1, <2>2 DEF Spoil, Stages
<1>4. CASE Served
  BY <1>4 DEF Served, Stages
<1>5. CASE Overdraw
  BY <1>5 DEF Overdraw, Stages
<1>6. CASE CloseDay
  BY <1>0, <1>6 DEF CloseDay, Stages
<1>7. ASSUME NEW quantity \in Nat, Demand(quantity) PROVE TypeOK'
  <2>1. ledger' \in Ledgers
    BY <1>7 DEF Demand, Ledgers
  <2>2. QED
    BY <1>7, <2>1 DEF Demand, Stages
<1>8. ASSUME NEW l \in Lots, Consume(l) PROVE TypeOK'
  <2>1. Smaller(shelf[l], want) \in Nat /\ want - Smaller(shelf[l], want) \in Nat
    <3>1. shelf[l] \in Nat /\ want \in Nat
      OBVIOUS
    <3>2. QED
      BY <3>1, SmallerFits
  <2>2. shelf' \in [Lots -> Nat]
    BY <1>8, TakenFacts DEF Consume
  <2>3. used' \in [Lots -> Nat] /\ want' \in Nat
    BY <1>8, <2>1 DEF Consume
  <2>4. uses' \subseteq [day : 1 .. LastDay, lot : Lots]
    BY <1>8 DEF Consume
  <2>5. QED
    BY <1>8, <2>2, <2>3, <2>4 DEF Consume
<1>9. ASSUME NEW l \in Lots, Discard(l) PROVE TypeOK'
  <2>0. event.left \in Nat /\ event.lot \in Lots \cup {AnyLot} /\ ledger.waste \in Nat
    BY DEF Ledgers
  <2>1. Smaller(shelf[l], event.left) \in Nat /\ event.left - Smaller(shelf[l], event.left) \in Nat
    <3>1. shelf[l] \in Nat
      OBVIOUS
    <3>2. QED
      BY <2>0, <3>1, SmallerFits
  <2>2. shelf' \in [Lots -> Nat]
    BY <1>9, <2>0, TakenFacts DEF Discard
  <2>3. wasted' \in [Lots -> Nat] /\ event' \in [lot : Lots \cup {AnyLot}, left : Nat]
    BY <1>9, <2>0, <2>1 DEF Discard
  <2>4. ledger' \in Ledgers
    BY <1>9, <2>0, <2>1 DEF Discard, Ledgers
  <2>5. QED
    BY <1>9, <2>2, <2>3, <2>4 DEF Discard
<1>10. ASSUME NEW target \in Lots \cup {AnyLot}, NEW quantity \in Nat, Waste(target, quantity)
       PROVE  TypeOK'
  BY <1>10 DEF Waste
<1>11. CASE UNCHANGED vars
  BY <1>11 DEF vars
<1>12. QED
  BY <1>1, <1>2, <1>3, <1>4, <1>5, <1>6, <1>7, <1>8, <1>9, <1>10, <1>11, StepCases

-----------------------------------------------------------------------------
\* Lots arrive when a day receives its deliveries, and at no other step.
LEMMA ArrivalsAreReceived ==
  ASSUME TypeOK, [Next]_vars, NEW l \in Lots, ~ Receive
  PROVE  Arrived(l)' <=> Arrived(l)
<1>0. lot[l].arrives \in Int /\ day \in Int
  BY LotData DEF TypeOK
<1>1. CASE CloseDay
  BY <1>0, <1>1 DEF CloseDay, input, Arrived
<1>2. CASE ~ CloseDay
  <2>1. lot' = lot /\ day' = day /\ (stage' = "receive" <=> stage = "receive")
    BY <1>2, StepCases DEF Refuse, Spoil, Served, Overdraw, Demand, Consume, Discard, Waste, input, vars
  <2>2. QED
    BY <2>1 DEF Arrived
<1>3. QED
  BY <1>1, <1>2

LEMMA UnitsStep ==
  TypeOK /\ NothingBeforeArrival /\ EveryUnitIsTraced /\ [Next]_vars
    => NothingBeforeArrival' /\ EveryUnitIsTraced'
<1> SUFFICES ASSUME TypeOK, NothingBeforeArrival, EveryUnitIsTraced, [Next]_vars, NEW l \in Lots
             PROVE  /\ ~ Arrived(l)' => /\ shelf'[l] = 0 /\ used'[l] = 0
                                       /\ spoiled'[l] = 0 /\ wasted'[l] = 0
                    /\ Arrived(l)' => lot'[l].quantity = shelf'[l] + used'[l] + spoiled'[l] + wasted'[l]
  BY DEF NothingBeforeArrival, EveryUnitIsTraced, Arrived
<1>0. /\ shelf[l] \in Nat /\ used[l] \in Nat /\ spoiled[l] \in Nat /\ wasted[l] \in Nat
      /\ day \in Int /\ lot[l].quantity \in Nat /\ lot[l].arrives \in Int
  BY LotData DEF TypeOK
<1>a. /\ ~ Arrived(l) => shelf[l] = 0 /\ used[l] = 0 /\ spoiled[l] = 0 /\ wasted[l] = 0
      /\ Arrived(l) => lot[l].quantity = shelf[l] + used[l] + spoiled[l] + wasted[l]
  BY DEF NothingBeforeArrival, EveryUnitIsTraced, Arrived
<1>b. lot' = lot
  BY StepCases DEF Receive, Refuse, Spoil, Served, Overdraw, CloseDay, Demand, Consume, Discard, Waste,
     input, vars
<1>1. CASE Receive
  <2>1. /\ shelf'[l] = shelf[l] + (IF lot[l].arrives = day THEN lot[l].quantity ELSE 0)
        /\ UNCHANGED <<lot, day, used, spoiled, wasted>>
    BY <1>1 DEF Receive, Replenished, Arriving, input
  <2>2. /\ Arrived(l)' <=> lot[l].arrives <= day
        /\ Arrived(l) <=> lot[l].arrives < day
    BY <1>0, <1>1, <2>1 DEF Arrived, Receive
  <2>3. QED
    BY <1>0, <1>a, <2>1, <2>2
<1>2. CASE Spoil
  <2>1. /\ shelf'[l] = IF Expired(l, day) THEN 0 ELSE shelf[l]
        /\ spoiled'[l] = spoiled[l] + (IF Expired(l, day) THEN shelf[l] ELSE 0)
        /\ UNCHANGED <<lot, used, wasted>>
    BY <1>2 DEF Spoil, Spoiling, input
  <2>2. Arrived(l)' <=> Arrived(l)
    BY <1>2, ArrivalsAreReceived DEF Spoil, Receive
  <2>3. CASE Expired(l, day)
    BY <1>0, <1>a, <2>1, <2>2, <2>3
  <2>4. CASE ~ Expired(l, day)
    BY <1>0, <1>a, <2>1, <2>2, <2>4
  <2>5. QED
    BY <2>3, <2>4
<1>3. ASSUME NEW k \in Lots, Consume(k)
      PROVE  /\ ~ Arrived(l)' => shelf'[l] = 0 /\ used'[l] = 0 /\ spoiled'[l] = 0 /\ wasted'[l] = 0
             /\ Arrived(l)' => lot'[l].quantity = shelf'[l] + used'[l] + spoiled'[l] + wasted'[l]
  <2>0. ~ Receive
    BY <1>3 DEF Consume, Receive
  <2>1. UNCHANGED <<spoiled, wasted>> /\ want \in Nat /\ shelf[k] > 0
    BY <1>3 DEF Consume, TypeOK, IsFirst, Stocked
  <2>2. CASE l = k
    <3>1. Arrived(l)
      BY <1>a, <2>1, <2>2
    <3>2. /\ shelf'[l] = shelf[l] - Smaller(shelf[l], want)
          /\ used'[l] = used[l] + Smaller(shelf[l], want)
      BY <1>3, <2>1, <2>2, TakenFacts DEF Consume, TypeOK
    <3>3. Smaller(shelf[l], want) \in Nat
      BY <1>0, <2>1, SmallerFits
    <3>4. QED
      BY <1>0, <1>a, <1>b, <2>0, <2>1, <3>1, <3>2, <3>3, ArrivalsAreReceived
  <2>3. CASE l # k
    <3>1. shelf'[l] = shelf[l] /\ used'[l] = used[l]
      BY <1>3, <2>1, <2>3, TakenFacts DEF Consume, TypeOK
    <3>2. QED
      BY <1>a, <1>b, <2>0, <2>1, <3>1, ArrivalsAreReceived
  <2>4. QED
    BY <2>2, <2>3
<1>4. ASSUME NEW k \in Lots, Discard(k)
      PROVE  /\ ~ Arrived(l)' => shelf'[l] = 0 /\ used'[l] = 0 /\ spoiled'[l] = 0 /\ wasted'[l] = 0
             /\ Arrived(l)' => lot'[l].quantity = shelf'[l] + used'[l] + spoiled'[l] + wasted'[l]
  <2>0. ~ Receive
    BY <1>4 DEF Discard, Receive
  <2>1. UNCHANGED <<used, spoiled>> /\ event.left \in Nat /\ shelf[k] > 0
    BY <1>4 DEF Discard, TypeOK, IsFirst, Stocked
  <2>2. CASE l = k
    <3>1. Arrived(l)
      BY <1>a, <2>1, <2>2
    <3>2. /\ shelf'[l] = shelf[l] - Smaller(shelf[l], event.left)
          /\ wasted'[l] = wasted[l] + Smaller(shelf[l], event.left)
      BY <1>4, <2>1, <2>2, TakenFacts DEF Discard, TypeOK
    <3>3. Smaller(shelf[l], event.left) \in Nat
      BY <1>0, <2>1, SmallerFits
    <3>4. QED
      BY <1>0, <1>a, <1>b, <2>0, <2>1, <3>1, <3>2, <3>3, ArrivalsAreReceived
  <2>3. CASE l # k
    <3>1. shelf'[l] = shelf[l] /\ wasted'[l] = wasted[l]
      BY <1>4, <2>1, <2>3, TakenFacts DEF Discard, TypeOK
    <3>2. QED
      BY <1>a, <1>b, <2>0, <2>1, <3>1, ArrivalsAreReceived
  <2>4. QED
    BY <2>2, <2>3
<1>5. CASE \/ Refuse \/ Served \/ Overdraw \/ CloseDay \/ UNCHANGED vars
           \/ \E quantity \in Nat : Demand(quantity)
           \/ \E target \in Lots \cup {AnyLot}, quantity \in Nat : Waste(target, quantity)
  <2>1. UNCHANGED <<shelf, used, spoiled, wasted>>
    BY <1>5 DEF Refuse, Served, Overdraw, CloseDay, Demand, Waste, vars
  <2>2. CASE ~ Receive
    BY <1>a, <1>b, <2>1, <2>2, ArrivalsAreReceived
  <2>3. QED
    BY <1>1, <2>2
<1>6. QED
  BY <1>1, <1>2, <1>3, <1>4, <1>5, StepCases

-----------------------------------------------------------------------------
\* The accounts.
LEMMA AccountsStep ==
  TypeOK /\ NothingBeforeArrival /\ RowBalances /\ AccountsBalance /\ [Next]_vars
    => RowBalances' /\ AccountsBalance'
<1> SUFFICES ASSUME TypeOK, NothingBeforeArrival, RowBalances, AccountsBalance, [Next]_vars
             PROVE  RowBalances' /\ AccountsBalance'
  OBVIOUS
<1> USE DEF RowBalances, AccountsBalance, Balanced
<1>0. /\ ledger \in Ledgers /\ want \in Nat /\ shelf \in [Lots -> Nat] /\ SumOver(Lots, shelf) \in Nat
      /\ ledger.beginning \in Nat /\ ledger.inbound \in Nat /\ ledger.expired \in Nat
      /\ ledger.demand \in Nat /\ ledger.waste \in Nat
  BY DayFacts DEF TypeOK, Ledgers
<1>1. CASE Receive
  <2>1. \A l \in Lots : shelf[l] = 0 \/ Arriving[l] = 0
    <3> SUFFICES ASSUME NEW l \in Lots, lot[l].arrives = day PROVE shelf[l] = 0
      BY DEF Arriving
    <3>1. ~ Arrived(l)
      BY <1>1, LotData DEF Arrived, Receive, TypeOK
    <3>2. QED
      BY <3>1 DEF NothingBeforeArrival
  <2>2. SumOver(Lots, Replenished) = SumOver(Lots, shelf) + SumOver(Lots, Arriving)
    BY <1>0, <2>1, DayFacts, SumPlus, LotsAreFinite DEF Replenished
  <2>3. /\ stage = "receive" /\ stage' = "spoil" /\ want' = 0 /\ shelf' = Replenished
        /\ ledger' = [beginning |-> SumOver(Lots, shelf), inbound |-> SumOver(Lots, Arriving),
                      expired |-> 0, demand |-> 0, waste |-> 0]
    BY <1>1 DEF Receive
  <2>4. Balanced'
    BY <1>0, <2>2, <2>3, DayFacts
  <2>5. QED
    BY <2>3, <2>4
<1>2. CASE Spoil
  <2>1. /\ stage = "spoil" /\ stage' = "demand" /\ want' = 0 /\ want = 0 /\ ledger.expired = 0
        /\ shelf' = [l \in Lots |-> IF Expired(l, day) THEN 0 ELSE shelf[l]]
        /\ ledger' = [ledger EXCEPT !.expired = SumOver(Lots, Spoiling)]
    BY <1>2 DEF Spoil
  <2>2. \A l \in Lots : /\ shelf'[l] \in Nat /\ Spoiling[l] \in Nat
                        /\ shelf[l] = shelf'[l] + Spoiling[l] /\ (shelf'[l] = 0 \/ Spoiling[l] = 0)
    BY <1>0, <2>1 DEF Spoiling
  <2>3. PICK s : s = shelf'
    OBVIOUS
  <2>4. SumOver(Lots, shelf) = SumOver(Lots, s) + SumOver(Lots, Spoiling)
    BY <2>2, <2>3, SumPlus, LotsAreFinite
  <2>5. SumOver(Lots, s) \in Nat /\ SumOver(Lots, Spoiling) \in Nat
    BY <2>2, <2>3, SumNat, LotsAreFinite
  <2>6. /\ ledger'.beginning = ledger.beginning /\ ledger'.inbound = ledger.inbound
        /\ ledger'.expired = SumOver(Lots, Spoiling) /\ ledger'.demand = ledger.demand
        /\ ledger'.waste = ledger.waste
    BY <1>0, <2>1 DEF Ledgers
  <2>7. Balanced'
    BY <1>0, <2>1, <2>3, <2>4, <2>5, <2>6
  <2>8. QED
    BY <2>1, <2>6, <2>7
<1>3. ASSUME NEW quantity \in Nat, Demand(quantity) PROVE RowBalances' /\ AccountsBalance'
  <2>1. /\ stage = "demand" /\ stage' = "consume" /\ want' = quantity /\ want = 0 /\ ledger.demand = 0
        /\ ledger' = [ledger EXCEPT !.demand = quantity] /\ shelf' = shelf
    BY <1>3 DEF Demand
  <2>2. /\ ledger'.beginning = ledger.beginning /\ ledger'.inbound = ledger.inbound
        /\ ledger'.expired = ledger.expired /\ ledger'.demand = quantity /\ ledger'.waste = ledger.waste
    BY <1>0, <2>1 DEF Ledgers
  <2>3. QED
    BY <1>0, <2>1, <2>2
<1>4. ASSUME NEW l \in Lots, Consume(l) PROVE RowBalances' /\ AccountsBalance'
  <2>1. /\ stage = "consume" /\ stage' = stage /\ shelf' = Taken(l, want) /\ ledger' = ledger
        /\ want' = want - Smaller(shelf[l], want)
    BY <1>4 DEF Consume
  <2>2. SumOver(Lots, Taken(l, want)) = SumOver(Lots, shelf) - Smaller(shelf[l], want)
    BY <1>0, TakenFacts
  <2>3. Smaller(shelf[l], want) \in Nat
    BY <1>0, SmallerFits
  <2>4. QED
    BY <1>0, <2>1, <2>2, <2>3
<1>5. ASSUME NEW l \in Lots, Discard(l) PROVE RowBalances' /\ AccountsBalance'
  <2> DEFINE d == Smaller(shelf[l], event.left)
  <2>0. event.left \in Nat
    BY DEF TypeOK
  <2>1. /\ stage = "waste" /\ stage' = stage /\ shelf' = Taken(l, event.left) /\ want' = want
        /\ ledger' = [ledger EXCEPT !.waste = ledger.waste + d]
    BY <1>5 DEF Discard
  <2>2. SumOver(Lots, Taken(l, event.left)) = SumOver(Lots, shelf) - d
    BY <1>0, <2>0, TakenFacts
  <2>3. d \in Nat
    BY <1>0, <2>0, SmallerFits
  <2> HIDE DEF d
  <2>4. /\ ledger'.beginning = ledger.beginning /\ ledger'.inbound = ledger.inbound
        /\ ledger'.expired = ledger.expired /\ ledger'.demand = ledger.demand
        /\ ledger'.waste = ledger.waste + d
    BY <1>0, <2>1 DEF Ledgers
  <2>5. QED
    BY <1>0, <2>1, <2>2, <2>3, <2>4
<1>6. CASE CloseDay
  <2>1. stage = "waste" /\ Balanced
    BY <1>6 DEF CloseDay
  <2>2. stage' \in {"receive", "done"} /\ (stage' = "receive" => want' = 0)
    BY <1>6, <2>1 DEF CloseDay
  <2>3. QED
    BY <2>2
<1>7. CASE Refuse \/ Overdraw
  BY <1>7 DEF Refuse, Overdraw
<1>8. CASE Served
  BY <1>8 DEF Served
<1>9. ASSUME NEW target \in Lots \cup {AnyLot}, NEW quantity \in Nat, Waste(target, quantity)
      PROVE  RowBalances' /\ AccountsBalance'
  BY <1>9 DEF Waste
<1>10. CASE UNCHANGED vars
  BY <1>10 DEF vars
<1>11. QED
  BY <1>1, <1>2, <1>3, <1>4, <1>5, <1>6, <1>7, <1>8, <1>9, <1>10, StepCases

-----------------------------------------------------------------------------
\* A lot that is taken from had something, and keeps no more.
LEMMA TakenFromStock ==
  ASSUME TypeOK, NEW l \in Lots, Consume(l) \/ Discard(l)
  PROVE  /\ shelf[l] > 0
         /\ \A k \in Lots : shelf'[k] \in Nat /\ shelf'[k] <= shelf[k]
         /\ UNCHANGED <<lot, day, stage, spoiled, short>>
<1>0. shelf \in [Lots -> Nat] /\ want \in Nat /\ event.left \in Nat
  BY DEF TypeOK
<1>1. PICK amount \in Nat : shelf' = Taken(l, amount)
  BY <1>0 DEF Consume, Discard
<1>2. /\ Taken(l, amount)[l] = shelf[l] - Smaller(shelf[l], amount)
      /\ \A k \in Lots : k # l => Taken(l, amount)[k] = shelf[k]
      /\ Taken(l, amount) \in [Lots -> Nat]
  BY TakenFacts
<1>3. Smaller(shelf[l], amount) \in Nat
  BY <1>0, SmallerFits
<1>4. \A k \in Lots : shelf'[k] \in Nat /\ shelf'[k] <= shelf[k]
  BY <1>0, <1>1, <1>2, <1>3
<1>5. QED
  BY <1>4 DEF Consume, Discard, IsFirst, Stocked, input

LEMMA GoodStep ==
  TypeOK /\ ShelfIsGood /\ SpoiledIsExpired /\ [Next]_vars => ShelfIsGood' /\ SpoiledIsExpired'
<1> SUFFICES ASSUME TypeOK, ShelfIsGood, SpoiledIsExpired, [Next]_vars
             PROVE  ShelfIsGood' /\ SpoiledIsExpired'
  OBVIOUS
<1>0. /\ shelf \in [Lots -> Nat] /\ spoiled \in [Lots -> Nat] /\ day \in Int
      /\ \A l \in Lots : lot[l].expires \in Int
  BY LotData DEF TypeOK
<1>1. CASE Spoil
  <2>1. /\ UNCHANGED <<lot, day>>
        /\ \A l \in Lots : shelf'[l] = IF Expired(l, day) THEN 0 ELSE shelf[l]
        /\ \A l \in Lots : spoiled'[l] = spoiled[l] + (IF Expired(l, day) THEN shelf[l] ELSE 0)
    BY <1>1 DEF Spoil, Spoiling, input
  <2>2. \A l \in Lots : Expired(l, day)' <=> Expired(l, day)
    BY <2>1 DEF Expired
  <2>3. ShelfIsGood'
    BY <2>1, <2>2 DEF ShelfIsGood
  <2>4. \A l \in Lots : spoiled'[l] > 0 => Expired(l, day)
    BY <1>0, <2>1 DEF SpoiledIsExpired
  <2>5. QED
    BY <2>2, <2>3, <2>4 DEF SpoiledIsExpired
<1>2. CASE CloseDay
  <2>1. /\ UNCHANGED <<lot, shelf, spoiled>> /\ day' \in {day, day + 1}
        /\ stage' \notin {"demand", "consume", "waste"}
    BY <1>2 DEF CloseDay, input
  <2>2. \A l \in Lots : Expired(l, day) => Expired(l, day)'
    BY <1>0, <2>1 DEF Expired
  <2>3. QED
    BY <2>1, <2>2 DEF ShelfIsGood, SpoiledIsExpired
<1>3. ASSUME NEW l \in Lots, Consume(l) \/ Discard(l) PROVE ShelfIsGood' /\ SpoiledIsExpired'
  <2>1. /\ UNCHANGED <<lot, day, stage, spoiled>>
        /\ \A k \in Lots : shelf'[k] \in Nat /\ shelf'[k] <= shelf[k]
    BY <1>3, TakenFromStock
  <2>2. \A k \in Lots : shelf'[k] > 0 => shelf[k] > 0
    BY <1>0, <2>1
  <2>3. \A k \in Lots : Expired(k, day)' <=> Expired(k, day)
    BY <2>1 DEF Expired
  <2>4. QED
    BY <2>1, <2>2, <2>3 DEF ShelfIsGood, SpoiledIsExpired
<1>4. CASE Receive \/ Refuse \/ Overdraw
  <2>1. /\ UNCHANGED <<lot, day, spoiled>> /\ stage' \notin {"demand", "consume", "waste"}
    BY <1>4 DEF Receive, Refuse, Overdraw, input
  <2>2. QED
    BY <2>1 DEF ShelfIsGood, SpoiledIsExpired, Expired
<1>5. CASE \/ Served \/ UNCHANGED vars
           \/ \E quantity \in Nat : Demand(quantity)
           \/ \E target \in Lots \cup {AnyLot}, quantity \in Nat : Waste(target, quantity)
  <2>1. /\ UNCHANGED <<lot, day, spoiled, shelf>>
        /\ stage' \in {"demand", "consume", "waste"} => stage \in {"demand", "consume", "waste"}
    BY <1>5 DEF Served, Demand, Waste, input, vars
  <2>2. QED
    BY <2>1 DEF ShelfIsGood, SpoiledIsExpired, Expired
<1>6. QED
  BY <1>1, <1>2, <1>3, <1>4, <1>5, StepCases

LEMMA OrderStep ==
  TypeOK /\ UsesInOrder /\ ShortInOrder /\ [Next]_vars => UsesInOrder' /\ ShortInOrder'
<1> SUFFICES ASSUME TypeOK, UsesInOrder, ShortInOrder, [Next]_vars PROVE UsesInOrder' /\ ShortInOrder'
  OBVIOUS
<1>0. day \in Int /\ (\A u \in uses : u.day \in Int) /\ (\A d \in short : d \in Int)
  BY DEF TypeOK
<1>1. CASE CloseDay
  <2>1. /\ UNCHANGED <<uses, short>>
        /\ day' = day + 1 \/ (day' = day /\ stage' \in {"done", "unbalanced"})
    BY <1>0, <1>1 DEF CloseDay
  <2>2. QED
    BY <1>0, <2>1 DEF UsesInOrder, ShortInOrder
<1>2. CASE Served
  <2>1. /\ UNCHANGED <<uses, day>> /\ stage = "consume" /\ stage' = "waste"
        /\ short' \subseteq short \cup {day}
    BY <1>2 DEF Served
  <2>2. QED
    BY <2>1 DEF UsesInOrder, ShortInOrder
<1>3. ASSUME NEW l \in Lots, Consume(l) PROVE UsesInOrder' /\ ShortInOrder'
  <2>1. /\ UNCHANGED <<day, short>> /\ stage = "consume" /\ stage' = "consume"
        /\ uses' = uses \cup {[day |-> day, lot |-> l]}
    BY <1>3 DEF Consume
  <2>2. QED
    BY <2>1 DEF UsesInOrder, ShortInOrder
<1>4. CASE Receive \/ Spoil \/ \E quantity \in Nat : Demand(quantity)
  <2>1. /\ UNCHANGED <<day, uses, short>> /\ stage \in {"receive", "spoil", "demand"}
    BY <1>4 DEF Receive, Spoil, Demand
  <2>2. QED
    BY <2>1 DEF UsesInOrder, ShortInOrder
<1>5. CASE \/ Refuse \/ Overdraw \/ UNCHANGED vars \/ \E l \in Lots : Discard(l)
           \/ \E target \in Lots \cup {AnyLot}, quantity \in Nat : Waste(target, quantity)
  <2>1. /\ UNCHANGED <<day, uses, short>>
        /\ stage' = stage \/ stage' \in {"refused", "overdrawn"}
    BY <1>5 DEF Refuse, Overdraw, Discard, Waste, vars
  <2>2. QED
    BY <2>1 DEF UsesInOrder, ShortInOrder
<1>6. QED
  BY <1>1, <1>2, <1>3, <1>4, <1>5, StepCases

LEMMA UsedStep ==
  TypeOK /\ ShelfIsGood /\ NothingExpiredIsUsed /\ [Next]_vars => NothingExpiredIsUsed'
<1> SUFFICES ASSUME TypeOK, ShelfIsGood, NothingExpiredIsUsed, [Next]_vars PROVE NothingExpiredIsUsed'
  OBVIOUS
<1>1. ASSUME NEW l \in Lots, Consume(l) PROVE NothingExpiredIsUsed'
  <2>1. /\ lot' = lot /\ stage = "consume" /\ uses' = uses \cup {[day |-> day, lot |-> l]} /\ shelf[l] > 0
    BY <1>1, TakenFromStock DEF Consume
  <2>2. lot[l].tracked => day <= lot[l].expires
    BY <2>1, LotData DEF ShelfIsGood, Expired, TypeOK
  <2>3. QED
    BY <2>1, <2>2 DEF NothingExpiredIsUsed
<1>2. CASE UNCHANGED <<lot, uses>>
  BY <1>2 DEF NothingExpiredIsUsed
<1>3. QED
  BY <1>1, <1>2, StepCases DEF Receive, Refuse, Spoil, Served, Overdraw, CloseDay, Demand, Discard, Waste,
     input, vars

-----------------------------------------------------------------------------
\* Demand takes a lot that keeps longer only when nothing shorter-lived is left.
LEMMA ShortestLivedFirst ==
  ASSUME TypeOK, NEW k \in Lots, NEW l \in Lots, Consume(k), shelf[l] > 0, lot[k].tracked, lot[l].tracked
  PROVE  lot[k].expires <= lot[l].expires
<1>1. l = k \/ Before(k, l)
  BY DEF Consume, IsFirst, Stocked
<1>2. lot[k].expires \in Int /\ lot[l].expires \in Int
  BY LotData
<1>3. CASE l = k
  BY <1>2, <1>3
<1>4. CASE Before(k, l)
  BY <1>2, <1>4 DEF Before, ExpiryKey
<1>5. QED
  BY <1>1, <1>3, <1>4

\* Of a lot that was good on day d: no demand of that day went short or took a longer-lived lot.
GoodUse(l, d) ==
  /\ d \notin short
  /\ \A u \in uses : u.day = d /\ lot[u.lot].tracked => lot[u.lot].expires <= lot[l].expires

LEMMA UnavoidableStep ==
  TypeOK /\ SpoiledIsExpired /\ UsesInOrder /\ ShortInOrder /\ SpoilageIsUnavoidable /\ [Next]_vars
    => SpoilageIsUnavoidable'
<1> SUFFICES ASSUME TypeOK, SpoiledIsExpired, UsesInOrder, ShortInOrder, SpoilageIsUnavoidable, [Next]_vars
             PROVE  SpoilageIsUnavoidable'
  OBVIOUS
<1> SUFFICES ASSUME NEW l \in Lots, lot'[l].tracked, shelf'[l] + spoiled'[l] > 0,
                    NEW d \in lot'[l].arrives .. day', d <= lot'[l].expires
             PROVE  /\ d \notin short'
                    /\ \A u \in uses' : u.day = d /\ lot'[u.lot].tracked
                                        => lot'[u.lot].expires <= lot'[l].expires
  BY Zenon DEF SpoilageIsUnavoidable
<1>0. /\ shelf[l] \in Nat /\ spoiled[l] \in Nat /\ day \in Int /\ lot[l].arrives \in Int
      /\ lot[l].expires \in Int /\ (\A u \in uses : u.day \in Int) /\ (\A e \in short : e \in Int)
  BY LotData DEF TypeOK
<1>b. lot' = lot
  BY StepCases DEF Receive, Refuse, Spoil, Served, Overdraw, CloseDay, Demand, Consume, Discard, Waste,
     input, vars
<1>d. d \in Int /\ lot[l].tracked /\ lot[l].arrives <= d /\ d <= day' /\ d <= lot[l].expires
  <2>1. day' \in Int
    BY TypesStep, PhysicsConstantsOK DEF TypeOK
  <2>2. QED
    BY <1>0, <1>b, <2>1
<1>a. shelf[l] + spoiled[l] > 0 /\ d <= day => GoodUse(l, d)
  <2>1. shelf[l] + spoiled[l] > 0 /\ d <= day => d \in lot[l].arrives .. day
    BY <1>0, <1>d
  <2>2. QED
    BY <1>d, <2>1 DEF SpoilageIsUnavoidable, GoodUse
<1>1. CASE Receive
  <2>1. UNCHANGED <<day, spoiled, uses, short>> /\ stage = "receive"
    BY <1>1 DEF Receive
  <2>2. CASE lot[l].arrives < day
    <3>1. shelf'[l] = shelf[l]
      BY <1>0, <1>1, <2>2 DEF Receive, Replenished, Arriving, TypeOK
    <3>2. QED
      BY <1>a, <1>b, <1>d, <2>1, <3>1 DEF GoodUse
  <2>3. CASE lot[l].arrives >= day
    <3>1. d = day
      BY <1>0, <1>d, <2>1, <2>3
    <3>2. d \notin short /\ \A u \in uses : u.day # d
      BY <1>0, <2>1, <3>1 DEF UsesInOrder, ShortInOrder
    <3>3. QED
      BY <2>1, <3>2
  <2>4. QED
    BY <1>0, <2>2, <2>3
<1>2. CASE Spoil
  <2>1. /\ UNCHANGED <<day, uses, short>>
        /\ shelf'[l] = IF Expired(l, day) THEN 0 ELSE shelf[l]
        /\ spoiled'[l] = spoiled[l] + (IF Expired(l, day) THEN shelf[l] ELSE 0)
    BY <1>2 DEF Spoil, Spoiling
  <2>2. shelf'[l] + spoiled'[l] = shelf[l] + spoiled[l]
    BY <1>0, <2>1
  <2>3. QED
    BY <1>a, <1>b, <1>d, <2>1, <2>2 DEF GoodUse
<1>3. CASE Served
  <2>1. /\ UNCHANGED <<day, uses, shelf, spoiled>>
        /\ short' = IF want > 0 THEN short \cup {day} ELSE short
        /\ want = 0 \/ Stocked(Lots) = {}
    BY <1>3 DEF Served
  <2>2. GoodUse(l, d)
    BY <1>a, <1>d, <2>1
  <2>3. d = day => want = 0
    <3> SUFFICES ASSUME d = day, Stocked(Lots) = {} PROVE FALSE
      BY <2>1
    <3>1. ~ (shelf[l] > 0)
      BY DEF Stocked
    <3>2. spoiled[l] > 0
      BY <1>0, <2>1, <3>1
    <3>3. lot[l].expires < day
      BY <3>2 DEF SpoiledIsExpired, Expired
    <3>4. QED
      BY <1>0, <1>d, <3>3
  <2>4. d \notin short'
    BY <2>1, <2>2, <2>3 DEF GoodUse
  <2>5. QED
    BY <1>b, <2>1, <2>2, <2>4 DEF GoodUse
<1>4. CASE CloseDay
  <2>1. UNCHANGED <<shelf, spoiled, uses, short>> /\ day' \in {day, day + 1}
    BY <1>4 DEF CloseDay
  <2>2. CASE d <= day
    BY <1>a, <1>b, <2>1, <2>2 DEF GoodUse
  <2>3. CASE d > day
    <3>1. d \notin short /\ \A u \in uses : u.day # d
      BY <1>0, <2>3 DEF UsesInOrder, ShortInOrder
    <3>2. QED
      BY <2>1, <3>1
  <2>4. QED
    BY <1>0, <1>d, <2>2, <2>3
<1>5. ASSUME NEW k \in Lots, Consume(k)
      PROVE  /\ d \notin short'
             /\ \A u \in uses' : u.day = d /\ lot'[u.lot].tracked
                                 => lot'[u.lot].expires <= lot'[l].expires
  <2>1. /\ UNCHANGED <<day, spoiled, short>> /\ shelf'[l] \in Nat /\ shelf'[l] <= shelf[l]
        /\ uses' = uses \cup {[day |-> day, lot |-> k]}
    BY <1>5, TakenFromStock DEF Consume
  <2>2. GoodUse(l, d)
    BY <1>0, <1>a, <1>d, <2>1
  <2>3. d = day /\ lot[k].tracked => lot[k].expires <= lot[l].expires
    <3> SUFFICES ASSUME d = day, lot[k].tracked PROVE lot[k].expires <= lot[l].expires
      OBVIOUS
    <3>1. ~ (spoiled[l] > 0)
      BY <1>0, <1>d DEF SpoiledIsExpired, Expired
    <3>2. shelf[l] > 0
      BY <1>0, <2>1, <3>1
    <3>3. QED
      BY <1>5, <1>d, <3>2, ShortestLivedFirst
  <2>4. QED
    BY <1>b, <2>1, <2>2, <2>3 DEF GoodUse
<1>6. ASSUME NEW k \in Lots, Discard(k)
      PROVE  /\ d \notin short'
             /\ \A u \in uses' : u.day = d /\ lot'[u.lot].tracked
                                 => lot'[u.lot].expires <= lot'[l].expires
  <2>1. UNCHANGED <<day, spoiled, short, uses>> /\ shelf'[l] \in Nat /\ shelf'[l] <= shelf[l]
    BY <1>6, TakenFromStock DEF Discard
  <2>2. GoodUse(l, d)
    BY <1>0, <1>a, <1>d, <2>1
  <2>3. QED
    BY <1>b, <2>1, <2>2 DEF GoodUse
<1>7. CASE \/ Refuse \/ Overdraw \/ UNCHANGED vars
           \/ \E quantity \in Nat : Demand(quantity)
           \/ \E target \in Lots \cup {AnyLot}, quantity \in Nat : Waste(target, quantity)
  <2>1. UNCHANGED <<day, shelf, spoiled, uses, short>>
    BY <1>7 DEF Refuse, Overdraw, Demand, Waste, vars
  <2>2. QED
    BY <1>a, <1>b, <1>d, <2>1 DEF GoodUse
<1>8. QED
  BY <1>1, <1>2, <1>3, <1>4, <1>5, <1>6, <1>7, StepCases

-----------------------------------------------------------------------------
LEMMA Initially == Init => IInv
<1> SUFFICES ASSUME Init PROVE IInv
  OBVIOUS
<1>0. LastDay \in Nat \ {0}
  BY PhysicsConstantsOK
<1>1. TypeOK
  <2>1. shelf \in [Lots -> Nat]
    BY PhysicsConstantsOK DEF Init, LotInputs
  <2>2. QED
    BY <1>0, <2>1 DEF Init, TypeOK, Stages, Zero, NoEvent, Ledgers
<1>2. NothingBeforeArrival /\ EveryUnitIsTraced
  <2> SUFFICES ASSUME NEW l \in Lots
               PROVE  /\ ~ Arrived(l) => shelf[l] = 0 /\ used[l] = 0 /\ spoiled[l] = 0 /\ wasted[l] = 0
                      /\ Arrived(l) => lot[l].quantity = shelf[l] + used[l] + spoiled[l] + wasted[l]
    BY DEF NothingBeforeArrival, EveryUnitIsTraced, Arrived
  <2>1. lot[l].arrives \in Nat /\ lot[l].quantity \in Nat
    BY <1>1, LotData
  <2>2. Arrived(l) <=> lot[l].arrives = 0
    BY <2>1 DEF Init, Arrived
  <2>3. QED
    BY <2>1, <2>2 DEF Init, Zero
<1>3. RowBalances /\ AccountsBalance
  BY DEF Init, RowBalances, AccountsBalance
<1>4. ShelfIsGood /\ SpoiledIsExpired /\ UsesInOrder /\ ShortInOrder /\ NothingExpiredIsUsed
  BY DEF Init, ShelfIsGood, SpoiledIsExpired, UsesInOrder, ShortInOrder, NothingExpiredIsUsed, Zero
<1>5. SpoilageIsUnavoidable
  BY DEF Init, SpoilageIsUnavoidable
<1>6. QED
  BY <1>1, <1>2, <1>3, <1>4, <1>5 DEF IInv

LEMMA Inductive == IInv /\ [Next]_vars => IInv'
BY TypesStep, UnitsStep, AccountsStep, GoodStep, OrderStep, UsedStep, UnavoidableStep DEF IInv

LEMMA Invariance == Spec => []IInv
BY Initially, Inductive, PTL DEF Spec

\* The simulator's state is typed: nothing on the shelf, in the traces or on the ledger is negative.
THEOREM PhysicsTyped == Spec => []TypeOK
<1>1. IInv => TypeOK
  BY DEF IInv
<1>2. QED
  BY <1>1, Invariance, PTL

\* The accounting check at the end of a day never fails (validate_accounting_ledger).
THEOREM LedgersBalance == Spec => []AccountsBalance
<1>1. IInv => AccountsBalance
  BY DEF IInv
<1>2. QED
  BY <1>1, Invariance, PTL

\* Every unit that arrived was used, spoiled, wasted or is on the shelf.
THEOREM UnitsAreTraced == Spec => []EveryUnitIsTraced
<1>1. IInv => EveryUnitIsTraced
  BY DEF IInv
<1>2. QED
  BY <1>1, Invariance, PTL

\* No demand is served from a lot after its expiry date.
THEOREM NoExpiredUse == Spec => []NothingExpiredIsUsed
<1>1. IInv => NothingExpiredIsUsed
  BY DEF IInv
<1>2. QED
  BY <1>1, Invariance, PTL

\* While a lot that spoils was good, no demand went short and none took a lot that keeps longer.
THEOREM SpoilageWasUnavoidable == Spec => []SpoilageIsUnavoidable
<1>1. IInv => SpoilageIsUnavoidable
  BY DEF IInv
<1>2. QED
  BY <1>1, Invariance, PTL
=============================================================================
