---------------------------- MODULE Procurement ----------------------------
(***************************************************************************)
(* ProcurementPlanningService.build for one ingredient: for each strategy, *)
(* in turn, project the stock without an order, choose a supplier term,    *)
(* size the order, shrink it to what keeps, project again, and judge the   *)
(* plan; when every strategy has its plan, recommend one.                  *)
(*                                                                         *)
(* A planning run is a case: the lots on hand and on order, the demand per *)
(* strategy, the supplier's terms and the constraints in force.  Supplier  *)
(* units are taken to be the ingredient's.                                 *)
(***************************************************************************)
EXTENDS FefoSimulation, Sequences

CONSTANTS
  Strategies,   \* the strategies asked for, in order: a sequence
  Stocks,       \* lots on hand and open deliveries: functions on lot numbers
  Demands,      \* demand by strategy and day
  Offers,       \* sets of supplier terms
  Rules,        \* the constraints in force
  None          \* not configured

TermSet == [id : Nat, pack : Nat \ {0}, moq : Nat, lead : Nat,
            weekdays : SUBSET (0 .. 6), cost : Nat]

\* Whether expiry is tracked is the ingredient's setting, the same for its lots.
ASSUME ProcurementConstantsOK ==
  /\ Strategies \in Seq(STRING)
  /\ \A lots \in Stocks :
       /\ lots \in Seq(LotSet)
       /\ \A k, l \in DOMAIN lots : lots[k].tracked = lots[l].tracked
  /\ \A demand \in Demands, i \in 1 .. Len(Strategies) : demand[Strategies[i]] \in [Days -> Nat]
  /\ \A terms \in Offers : terms \subseteq TermSet
  /\ \A rule \in Rules :
       {rule.safety, rule.minimum, rule.maximum} \subseteq Nat \cup {None}

VARIABLES
  case,   \* what the run plans from
  step,   \* what is done next for the current strategy
  draft,  \* the plan being worked out
  plans   \* the plans worked out: a sequence in the order of Strategies

vars == <<case, step, draft, plans>>

NoDraft == [none |-> TRUE]
StrategyNow == Strategies[Len(plans) + 1]
Demand == case.demand[StrategyNow]
Configured(value, otherwise) == IF value = None THEN otherwise ELSE value

Init ==
  /\ case \in [lots : Stocks, demand : Demands, terms : Offers, rule : Rules]
  /\ step = "project"
  /\ draft = NoDraft
  /\ plans = <<>>

-----------------------------------------------------------------------------
\* Whole packs that hold a quantity.
PacksFor(quantity, term) == (quantity + term.pack - 1) \div term.pack

\* _delivery_date: the first day of the supplier's week within a fortnight of
\* the nominal one.  Day 1 is the day the order is placed.
Arrival(term) ==
  LET open == {d \in (1 + term.lead) .. (14 + term.lead) : d % 7 \in term.weekdays}
  IN IF open = {} THEN Never ELSE CHOOSE d \in open : \A e \in open : d <= e

\* A mistaken target: the safety stock alone.
SafetyOnly == Configured(case.rule.safety, 0)

\* The ending stock a plan aims for: the greater of two thresholds, not their sum.
Target == Greatest(Configured(case.rule.safety, 0), Configured(case.rule.minimum, 0))

\* A mistaken cap: what the maximum leaves over the shortage.
CappedByShortage(rows) ==
  LET wanted == Shortage(rows) + Greatest(0, Target - Ending(rows))
  IN IF case.rule.maximum = None THEN wanted
     ELSE Least(wanted, Greatest(0, case.rule.maximum - Shortage(rows)))

\* What is short, capped by what fits under the maximum.
Required(rows) ==
  LET wanted == Shortage(rows) + Greatest(0, Target - Ending(rows))
  IN IF case.rule.maximum = None THEN wanted
     ELSE Least(wanted, Greatest(0, case.rule.maximum - Ending(rows)))

\* The order in packs: enough for what is required, and no less than the MOQ.
Rounded(required, term) ==
  LET packs == PacksFor(required, term)
  IN IF required = 0 THEN 0
     ELSE IF packs * term.pack < term.moq THEN PacksFor(term.moq, term) ELSE packs

\* A mistaken delivery: given the expiry date of a day's shelf life.
ExpiringOrder(quantity, arrival) ==
  [l \in 1 .. (Len(case.lots) + 1) |->
     IF l <= Len(case.lots) THEN case.lots[l]
     ELSE [quantity |-> quantity, expiry |-> arrival, tracked |-> TRUE,
           arrives |-> arrival, received |-> arrival]]

\* The stock with the order among the deliveries; it carries no expiry date.
\* An order that arrives after the horizon, or never, is in no row.
WithOrder(quantity, arrival) ==
  [l \in 1 .. (Len(case.lots) + 1) |->
     IF l <= Len(case.lots) THEN case.lots[l]
     ELSE [quantity |-> quantity, expiry |-> Never, tracked |-> TRUE,
           arrives |-> arrival, received |-> arrival]]

ProjectWith(quantity, arrival) == Simulate(WithOrder(quantity, arrival), Demand)

-----------------------------------------------------------------------------
\* The last day of the shelf life asked for, within the horizon.
WindowEnd(arrival) == Least(LastDay, arrival + case.rule.shelf - 1)

\* _apply_shelf_life_policy: a smaller order in whole packs that leaves no
\* more shortage in the window and keeps the minimum at its end.
Keeps(fewer, packs, term) ==
  LET through == WindowEnd(Arrival(term))
      rows == ProjectWith(fewer * term.pack, Arrival(term))
      full == ProjectWith(packs * term.pack, Arrival(term))
  IN /\ ShortageThrough(rows, through) <= ShortageThrough(full, through)
     /\ rows[through].ending >= Configured(case.rule.minimum, 0)

\* The candidates are tried downwards and the last good one wins.
Shrunk(packs, term) ==
  LET good == {fewer \in PacksFor(term.moq, term) .. (packs - 1) : Keeps(fewer, packs, term)}
  IN IF good = {} THEN packs ELSE CHOOSE p \in good : \A q \in good : p <= q

\* What the stock can use in the window, by the projection without an order.
Usable(rows, arrival) ==
  LET window == {d \in Days : arrival <= d /\ d <= arrival + case.rule.shelf - 1}
      there  == IF arrival > LastDay THEN Ending(rows)
                ELSE rows[arrival].opening + rows[arrival].inbound - rows[arrival].expired
  IN Greatest(0, SumOver(window, Demand) + Target - there)

AtRisk(packs, term, rows) ==
  Greatest(0, Shrunk(packs, term) * term.pack - Usable(rows, Arrival(term)))

-----------------------------------------------------------------------------
Late(term, rows) == Arrival(term) > FirstShortage(rows)
Flag(fact) == IF fact THEN 1 ELSE 0

\* _select_term: one that delivers, in time, then the cheapest, the soonest, by id.
Rank(term, rows) ==
  <<Flag(Arrival(term) = Never), Flag(Late(term, rows)), term.cost, term.lead, term.id>>

\* _shelf_life_candidate_rank: the least at risk before anything else.
KeepingRank(term, rows) ==
  IF Arrival(term) = Never THEN <<1, 0, 1, term.cost, term.lead, term.id>>
  ELSE <<0, AtRisk(Rounded(Required(rows), term), term, rows), Flag(Late(term, rows)),
         term.cost, term.lead, term.id>>

Precedes(a, b) ==
  \E i \in 1 .. Len(a) : a[i] < b[i] /\ \A j \in 1 .. (i - 1) : a[j] = b[j]

\* One that no other precedes: of equals, the first the query returned.
Lowest(RankOf(_), terms) ==
  CHOOSE t \in terms : \A u \in terms : ~ Precedes(RankOf(u), RankOf(t))

\* The projection without an order, of the lots and deliveries there are.
Project ==
  /\ step = "project" /\ Len(plans) < Len(Strategies)
  /\ draft' = [base |-> Simulate(case.lots, Demand)]
  /\ step' = "choose"
  /\ UNCHANGED <<case, plans>>

\* The supplier term: a second choice by shelf life overrides the first.
Choose ==
  /\ step = "choose"
  /\ LET base == draft.base
         required == Required(base)
         ByShelfLife == case.rule.shelf # None /\ required > 0
         Key(t) == IF ByShelfLife THEN KeepingRank(t, base) ELSE Rank(t, base)
     IN draft' = [base |-> base, required |-> required,
                  term |-> IF case.terms = {} THEN None ELSE Lowest(Key, case.terms)]
  /\ step' = "size"
  /\ UNCHANGED <<case, plans>>

\* The line: no order without a term; packs and MOQ; then the shelf life.
Size ==
  /\ step = "size"
  /\ LET term == draft.term
         packs == IF term = None THEN 0 ELSE Rounded(draft.required, term)
         shrinks == case.rule.shelf # None /\ packs > 0 /\ Arrival(term) # Never
     IN draft' = [base |-> draft.base, required |-> draft.required, term |-> term,
                  rounded |-> packs, packs |-> IF shrinks THEN Shrunk(packs, term) ELSE packs]
  /\ step' = "judge"
  /\ UNCHANGED <<case, plans>>

-----------------------------------------------------------------------------
\* _evaluate_storage_capacity: the fullest day of the final projection.
OverCapacity(rows) ==
  /\ case.rule.capacity # None
  /\ \E d \in Days : Greatest(rows[d].opening + rows[d].inbound, rows[d].ending)
                       > case.rule.capacity

\* What makes a plan infeasible.
Violations(line, rows, cost) ==
  LET broken ==
        [no_term       |-> line.term = None /\ line.required > 0,
         no_delivery   |-> line.term # None /\ Arrival(line.term) = Never,
         service_level |-> /\ case.rule.service # None
                           /\ 100 * Fulfilled(rows) < case.rule.service * SumOver(Days, Demand),
         capacity      |-> OverCapacity(rows),
         budget        |-> case.rule.budget # None /\ cost > case.rule.budget]
  IN {code \in DOMAIN broken : broken[code]}

\* The plan of a strategy, with the projection that includes its order.
Judge ==
  /\ step = "judge"
  /\ LET term == draft.term
         order == IF term = None THEN 0 ELSE draft.packs * term.pack
         arrives == order > 0 /\ Arrival(term) # Never
         rows == IF arrives THEN ProjectWith(order, Arrival(term)) ELSE draft.base
         cost == IF term = None THEN 0 ELSE order * term.cost
     IN plans' = Append(plans,
          [base |-> draft.base, rows |-> rows, required |-> draft.required, term |-> term,
           rounded |-> draft.rounded, packs |-> draft.packs, order |-> order, cost |-> cost,
           violations |-> Violations(draft, rows, cost), recommended |-> FALSE])
  /\ step' = "project"
  /\ draft' = NoDraft
  /\ UNCHANGED case

\* The balanced plan when it is feasible, or else the first that is.
Recommend ==
  LET feasible == {i \in 1 .. Len(plans) : plans[i].violations = {}}
      balanced == {i \in feasible : Strategies[i] = "balanced"}
      from == IF balanced = {} THEN feasible ELSE balanced
  IN /\ step = "project" /\ Len(plans) = Len(Strategies)
     /\ plans' = [i \in 1 .. Len(plans) |->
          [plans[i] EXCEPT !.recommended = i \in from /\ \A j \in from : i <= j]]
     /\ step' = "done"
     /\ UNCHANGED <<case, draft>>

\* The run is over: its plans are saved.
Saved == step = "done" /\ UNCHANGED vars

Next == Project \/ Choose \/ Size \/ Judge \/ Recommend \/ Saved

Spec == Init /\ [][Next]_vars
-----------------------------------------------------------------------------
Worked == 1 .. Len(plans)
Orders(plan) == plan.order > 0 /\ Arrival(plan.term) <= LastDay

\* The lots in a fixed order of preference.
Preferences(lots) ==
  {{p \in (DOMAIN lots) \X (DOMAIN lots) : place[p[1]] < place[p[2]]} :
     place \in {f \in [DOMAIN lots -> DOMAIN lots] :
                  \A k, l \in DOMAIN lots : f[k] = f[l] => k = l}}

\* INVARIANT.  First expiring first out is the best order to consume lots in:
\* no fixed preference among them wastes less or leaves less demand unserved,
\* over every horizon and mix of deliveries (simulate's two FEFO sorts).
FefoWastesLeast ==
  step = "done" => \A i \in Worked : \A first \in Preferences(case.lots) :
    LET rows == Consumed(first, case.lots, case.demand[Strategies[i]])
    IN /\ Expired(plans[i].base) <= Expired(rows)
       /\ Shortage(plans[i].base) <= Shortage(rows)

\* INVARIANT.  An order only adds: it is drawn on after the lots that expire,
\* so the projection with it expires what the one without did, is short by no
\* more on any day, and by nothing once an order not held back has arrived.
OrdersOnlyHelp ==
  \A i \in Worked :
    LET base == plans[i].base
        rows == plans[i].rows
        held == case.rule.maximum # None \/ case.rule.shelf # None
    IN \A d \in Days :
         /\ rows[d].expired = base[d].expired
         /\ rows[d].shortage <= base[d].shortage
         /\ Orders(plans[i]) /\ ~ held /\ Arrival(plans[i].term) <= d => rows[d].shortage = 0

\* INVARIANT.  The order closes the gap it was computed from: with no maximum
\* and no shelf life to hold it back, the stock projected with an order that
\* arrives in time ends at both the safety and the minimum stock.
OrderReachesTarget ==
  \A i \in Worked :
    (case.rule.maximum = None /\ case.rule.shelf = None /\ Orders(plans[i]))
      => /\ Ending(plans[i].rows) >= Configured(case.rule.safety, 0)
         /\ Ending(plans[i].rows) >= Configured(case.rule.minimum, 0)

\* INVARIANT.  Planning for more demand never needs less: of two strategies that
\* chose one supplier, the one with no less demand on any day rounds to no
\* fewer packs before the shelf life shrinks them.
MoreDemandOrdersMore ==
  \A i, j \in Worked :
    LET less == case.demand[Strategies[i]]
        more == case.demand[Strategies[j]]
    IN (plans[i].term = plans[j].term /\ \A d \in Days : less[d] <= more[d])
         => plans[i].rounded <= plans[j].rounded

\* docs/INVENTORY_CONSTRAINT_CONTRACT.md:55: the ingredient's maximum stock is
\* enforced in every case.  A feasible plan that orders does not end above it.
MaximumStockIsEnforced ==
  \A i \in Worked :
    (case.rule.maximum # None /\ plans[i].violations = {} /\ Orders(plans[i]))
      => Ending(plans[i].rows) <= case.rule.maximum
=============================================================================
