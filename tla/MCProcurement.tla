--------------------------- MODULE MCProcurement ---------------------------
(* Cases for Procurement: small stocks, two strategies, two suppliers. *)
EXTENDS Procurement

Lot(quantity, expiry, arrives, received) ==
  [quantity |-> quantity, expiry |-> expiry, tracked |-> TRUE,
   arrives |-> arrives, received |-> received]

MCStrategies == <<"lean", "balanced">>

\* A lot on hand that expires, one that may expire with it, a delivery on order.
MCStocks ==
  {<<>>} \cup
  {<<Lot(q, e, 0, 0), Lot(1, f, 0, -1), Lot(1, LastDay + 100, a, a)>> :
     q \in {1, 2}, e \in {0, 1, 2}, f \in {2}, a \in {2}}
  \cup {<<Lot(2, 3, 0, -1), Lot(1, LastDay + 100, LastDay + 1, LastDay + 1)>>}

\* The balanced strategy expects one more on the second day.
MCDemands ==
  {[lean |-> low, balanced |-> [d \in 1 .. LastDay |-> low[d] + (IF d = 2 THEN 1 ELSE 0)]] :
     low \in {f \in [1 .. LastDay -> 0 .. 2] : f[1] # 1 /\ f[2] # 2}}

Term(id, pack, moq, lead, weekdays, cost) ==
  [id |-> id, pack |-> pack, moq |-> moq, lead |-> lead, weekdays |-> weekdays, cost |-> cost]

MCOffers ==
  {{}, {Term(1, 2, 3, 0, 0 .. 6, 1)},
   {Term(1, 1, 1, 1, 0 .. 6, 2), Term(2, 3, 3, 1, {1, 3}, 1)},
   {Term(1, 2, 1, 0, {}, 1)}}

Rule(safety, minimum, maximum, shelf) ==
  [safety |-> safety, minimum |-> minimum, maximum |-> maximum, shelf |-> shelf,
   service |-> 100, capacity |-> 5, budget |-> 6]

MCRules ==
  {Rule(s, m, x, f) : s \in {None, 2}, m \in {None, 1}, x \in {None, 2}, f \in {None, 1, 2}}
=============================================================================
