------------------------ MODULE PurchaseOrdersProofs ------------------------
(***************************************************************************)
(* Safety of PurchaseOrders for every set of orders, lines, handlers and   *)
(* months, and every cost and quantity: its types, the commitments of the  *)
(* budget, what deliveries spend and reservations cover, the versions of   *)
(* the orders, and that its handlers implement PurchaseLedger when clients *)
(* do not patch an order while another request for it is in flight.        *)
(***************************************************************************)
EXTENDS PurchaseOrders, SumLemmas

-----------------------------------------------------------------------------
(* Types. *)

LEMMA CostNat ==
  ASSUME NEW l \in Lines, NEW q \in Nat
  PROVE  CostOf(l, q) \in Nat
<1>1. UnitCost[l] \in Nat /\ Scale \in Nat \ {0}
  BY CostsOK
<1>2. q * UnitCost[l] \in Nat
  BY <1>1
<1>3. \A n \in Nat, d \in Nat \ {0} : n \div d \in Nat
  OBVIOUS
<1>4. QED
  BY <1>1, <1>2, <1>3 DEF CostOf

LEMMA CostOfAllNat ==
  ASSUME NEW q, \A l \in Lines : q[l] \in Nat
  PROVE  CostOfAll(q) \in Nat
<1>1. \A l \in Lines : Costs(q)[l] \in Nat
  BY CostNat DEF Costs
<1>2. QED
  BY <1>1, SumNat, CostsOK DEF CostOfAll

LEMMA TotalNat ==
  ASSUME NEW rows \in Rows
  PROVE  TotalOf(rows) \in Nat
<1> DEFINE f == [l \in Lines |-> rows[l].cost]
<1>1. \A l \in Lines : f[l] \in Nat
  BY DEF Rows
<1>2. SumOver(Lines, f) \in Nat
  BY <1>1, SumNat, CostsOK
<1>3. QED
  BY <1>2 DEF TotalOf

LEMMA OrderableNat == Orderable \subseteq Nat
  BY ConstantsOK DEF Orderable

LEMMA NewLinesType ==
  ASSUME NEW q \in [Lines -> Orderable]
  PROVE  NewLines(q) \in Rows
<1>1. \A l \in Lines : q[l] \in Nat
  BY OrderableNat
<1>2. \A l \in Lines : CostOf(l, q[l]) \in Nat
  BY <1>1, CostNat
<1>3. QED
  BY <1>1, <1>2 DEF NewLines, Rows

LEMMA PatchedType ==
  ASSUME NEW rows \in Rows, NEW up \in [Lines -> Orderable \cup {0}]
  PROVE  Patched(rows, up) \in Rows
<1>1. \A l \in Lines : up[l] \in Nat
  <2>1. Orderable \cup {0} \subseteq Nat
    BY OrderableNat
  <2>2. QED
    BY <2>1
<1>2. \A l \in Lines : CostOf(l, up[l]) \in Nat
  BY <1>1, CostNat
<1>3. QED
  BY <1>1, <1>2 DEF Patched, Rows

LEMMA AbsentType == Absent \in Header /\ NoLines \in Rows
BY DEF Absent, Header, NoLines, Rows, OpenStatus

LEMMA HandlerType ==
  ASSUME NEW stage \in {"idle", "order", "ready"},
         NEW op \in OrderOps \cup {"none", "settings"},
         NEW o \in Orders \cup {None}, NEW header \in Header, NEW rows \in Rows,
         NEW m \in Nat
  PROVE  Handler(stage, op, o, header, rows, m) \in Handlers
BY DEF Handler, Handlers

LEMMA IdleType == Idle \in Handlers /\ Idle.op = "none" /\ Idle.stage = "idle" /\ Idle.order = None
BY AbsentType DEF Idle, Handlers, Handler

LEMMA BudgetRowType ==
  ASSUME TypeOK, NEW p \in Periods
  PROVE  /\ BudgetRow(p) \in OpenBudgets
         /\ BudgetRow(p).reserved = budget[p].reserved
         /\ BudgetRow(p).spent = budget[p].spent
         /\ BudgetRow(p).monthly \in Nat
         /\ BudgetRow(p).reserved \in Nat
         /\ BudgetRow(p).spent \in Nat
<1>1. storeMonthly \in Nat
  BY DEF TypeOK
<1>2. CASE budget[p] \in OpenBudgets
  <2>1. BudgetRow(p) = budget[p]
    BY <1>2 DEF BudgetRow, NewBudgetRow, OpenBudgets
  <2>2. QED
    BY <1>2, <2>1 DEF OpenBudgets
<1>3. CASE budget[p] = NoBudget
  <2>1. BudgetRow(p) = [open |-> TRUE, monthly |-> storeMonthly, reserved |-> 0, spent |-> 0]
    BY <1>3 DEF BudgetRow, NewBudgetRow, NoBudget
  <2>2. QED
    BY <1>1, <1>3, <2>1 DEF OpenBudgets, NoBudget
<1>4. QED
  BY <1>2, <1>3 DEF TypeOK, Budgets

\* The shape of a handler: it names an order exactly when it works on one.
HandlerOK(h) ==
  /\ h \in Handlers
  /\ h.op \in OrderOps <=> h.order \in Orders
  /\ h.stage = "order" => h.op \in OrderOps
  /\ h.stage = "idle" <=> h.op = "none"

LEMMA IdleOK == HandlerOK(Idle)
BY IdleType, ConstantsOK DEF HandlerOK, OrderOps

\* One handler moves and the others stay.
LEMMA HandlersMove ==
  ASSUME TypeOK, NEW r \in Requests, NEW h, HandlerOK(h),
         req' = [req EXCEPT ![r] = h]
  PROVE  /\ req' \in [Requests -> Handlers]
         /\ \A s \in Requests : HandlerOK(req'[s])
BY DEF TypeOK, HandlerOK

\* TypeOK, table by table.
HeaderOK(h) == h.period = None <=> h.status \in {"absent", "draft"}

LEMMA TypeParts ==
  TypeOK <=> /\ po \in [Orders -> Header]
             /\ \A o \in Orders : HeaderOK(po[o])
             /\ line \in [Orders -> Rows]
             /\ stocked \in [Orders -> [Lines -> Nat]]
             /\ budget \in [Periods -> Budgets]
             /\ storeMonthly \in Nat
             /\ req \in [Requests -> Handlers]
             /\ \A r \in Requests : HandlerOK(req[r])
BY DEF TypeOK, HandlerOK, HeaderOK

\* The tables and the handlers always hold what their columns and sessions can.
LEMMA TypeInit == Init => TypeOK
<1> SUFFICES ASSUME Init PROVE TypeOK
  OBVIOUS
<1>1. storeMonthly \in Nat
  BY ConstantsOK DEF Init
<1>2. req \in [Requests -> Handlers] /\ \A r \in Requests : HandlerOK(req[r])
  BY IdleType, IdleOK DEF Init
<1>3. /\ po \in [Orders -> Header] /\ line \in [Orders -> Rows]
      /\ stocked \in [Orders -> [Lines -> Nat]]
      /\ \A o \in Orders : HeaderOK(po[o])
  BY AbsentType DEF Init, HeaderOK, Absent
<1>4. budget \in [Periods -> Budgets]
  BY DEF Init, Budgets
<1>5. QED
  BY <1>1, <1>2, <1>3, <1>4, TypeParts

LEMMA TypeStep == TypeOK /\ [Next]_vars => TypeOK'
<1> SUFFICES ASSUME TypeOK, [Next]_vars PROVE TypeOK'
  OBVIOUS
<1>0. /\ po \in [Orders -> Header] /\ \A o \in Orders : HeaderOK(po[o])
      /\ line \in [Orders -> Rows]
      /\ stocked \in [Orders -> [Lines -> Nat]]
      /\ budget \in [Periods -> Budgets]
      /\ storeMonthly \in Nat /\ req \in [Requests -> Handlers]
      /\ \A r \in Requests : HandlerOK(req[r])
  BY TypeParts
<1>1. ASSUME NEW os \in SUBSET Orders, NEW p \in Periods,
             NEW q \in [os -> [Lines -> Orderable]], CreateOrders(os, q, p)
      PROVE  TypeOK'
  <2>1. \A o \in os : NewLines(q[o]) \in Rows /\ TotalOf(NewLines(q[o])) \in Nat
    BY NewLinesType, TotalNat
  <2>2. po' \in [Orders -> Header] /\ \A o \in Orders : HeaderOK(po'[o])
    BY <1>0, <1>1, <2>1 DEF CreateOrders, Header, HeaderOK
  <2>3. line' \in [Orders -> Rows]
    BY <1>0, <1>1, <2>1 DEF CreateOrders
  <2>4. budget' \in [Periods -> Budgets]
    BY <1>0, <1>1, BudgetRowType DEF CreateOrders, Budgets
  <2>5. QED
    BY <1>0, <1>1, <2>2, <2>3, <2>4 DEF CreateOrders, TypeOK, HandlerOK, HeaderOK
<1>2. ASSUME NEW r \in Requests, NEW op \in OrderOps, NEW o \in Orders, ReadOrder(r, op, o)
      PROVE  TypeOK'
  <2>1. HandlerOK(Handler("order", op, o, po[o], NoLines, 0))
    BY <1>0, AbsentType DEF HandlerOK, Handler, Handlers, OrderOps
  <2>2. /\ req' \in [Requests -> Handlers]
        /\ \A s \in Requests : HandlerOK(req'[s])
    BY <1>2, <2>1, HandlersMove DEF ReadOrder
  <2>3. QED
    BY <1>0, <1>2, <2>2 DEF ReadOrder, TypeOK, HandlerOK, HeaderOK
<1>3. ASSUME NEW r \in Requests, ReadLines(r)
      PROVE  TypeOK'
  <2>1. req[r] \in Handlers /\ req[r].op \in OrderOps /\ req[r].order \in Orders
    BY <1>0, <1>3 DEF ReadLines, Admitted, HandlerOK
  <2>2. HandlerOK(Handler("ready", req[r].op, req[r].order, req[r].po, line[req[r].order], 0))
    BY <1>0, <2>1 DEF HandlerOK, Handler, Handlers, OrderOps
  <2>3. /\ req' \in [Requests -> Handlers]
        /\ \A s \in Requests : HandlerOK(req'[s])
    BY <1>3, <2>2, HandlersMove DEF ReadLines, Admitted
  <2>4. QED
    BY <1>0, <1>3, <2>3 DEF ReadLines, Admitted, TypeOK, HandlerOK, HeaderOK
<1>4. ASSUME NEW r \in Requests, req' = [req EXCEPT ![r] = Idle]
      PROVE  /\ req' \in [Requests -> Handlers]
             /\ \A s \in Requests : HandlerOK(req'[s])
  BY <1>4, IdleOK, HandlersMove
<1>5. ASSUME NEW r \in Requests, Fail(r)
      PROVE  TypeOK'
  BY <1>0, <1>4, <1>5 DEF Fail, TypeOK, HandlerOK, HeaderOK
<1>6. ASSUME NEW r \in Requests, NEW up \in [Lines -> Orderable \cup {0}],
             NEW p \in Periods, Patch(r, up, p)
      PROVE  TypeOK'
  <2> DEFINE o == req[r].order
             new == Patched(req[r].lines, up)
  <2>1. o \in Orders /\ req[r].po \in Header /\ req[r].lines \in Rows
    BY <1>0, <1>6 DEF Patch, Repriced, HandlerOK, Handlers, OrderOps
  <2>2. new \in Rows /\ TotalOf(new) \in Nat
    BY <2>1, PatchedType, TotalNat
  <2>3. po' \in [Orders -> Header] /\ \A x \in Orders : HeaderOK(po'[x])
    BY <1>0, <1>6, <2>1, <2>2 DEF Patch, Repriced, Header, HeaderOK, Emit
  <2>4. line' \in [Orders -> Rows]
    BY <1>0, <1>6, <2>1, <2>2 DEF Patch, Repriced, Rows, Emit
  <2>5. budget' \in [Periods -> Budgets]
    BY <1>0, <1>6, BudgetRowType DEF Patch, Repriced, Budgets
  <2>6. QED
    BY <1>0, <1>4, <1>6, <2>3, <2>4, <2>5 DEF Patch, Repriced, TypeOK, HandlerOK, HeaderOK
<1>7. ASSUME NEW r \in Requests, NEW p \in Periods, Confirm(r, p)
      PROVE  TypeOK'
  <2> DEFINE o == req[r].order
             total == TotalOf(req[r].lines)
  <2>1. o \in Orders /\ req[r].lines \in Rows /\ total \in Nat
    BY <1>0, <1>7, TotalNat DEF Confirm, Confirmed, HandlerOK, Handlers, OrderOps
  <2>2. po' \in [Orders -> Header] /\ \A x \in Orders : HeaderOK(po'[x])
    BY <1>0, <1>7, <2>1, ConstantsOK DEF Confirm, Confirmed, Header, HeaderOK, OpenStatus
  <2>3. budget' \in [Periods -> Budgets]
    <3>1. [open |-> TRUE, monthly |-> BudgetRow(p).monthly,
           reserved |-> BudgetRow(p).reserved + total, spent |-> BudgetRow(p).spent]
             \in OpenBudgets
      <4>1. BudgetRow(p).monthly \in Nat /\ BudgetRow(p).spent \in Nat
        BY BudgetRowType
      <4>2. BudgetRow(p).reserved + total \in Nat
        BY <2>1, BudgetRowType
      <4>3. QED
        BY <4>1, <4>2 DEF OpenBudgets
    <3>2. QED
      BY <1>0, <1>7, <3>1 DEF Confirm, Confirmed, Budgets
  <2>4. QED
    BY <1>0, <1>4, <1>7, <2>2, <2>3 DEF Confirm, Confirmed, TypeOK, HandlerOK, HeaderOK
<1>8. ASSUME NEW o \in Orders, NEW version, NEW seen \in Rows,
             NEW got \in [Lines -> 0 .. MaxQty], Deliver(o, version, seen, got)
      PROVE  /\ po' \in [Orders -> Header] /\ \A x \in Orders : HeaderOK(po'[x])
             /\ line' \in [Orders -> Rows]
             /\ stocked' \in [Orders -> [Lines -> Nat]]
             /\ budget' \in [Periods -> Budgets] /\ storeMonthly' \in Nat
  <2>1. \A l \in Lines : got[l] \in Nat
    BY ConstantsOK
  <2>2. CostOfAll(got) \in Nat
    BY <2>1, CostOfAllNat
  <2>3. po[o].period \in Periods /\ po[o].status \in OpenStatus
    BY <1>0, <1>8 DEF Deliver, ClaimReceive, HeaderOK, Header, OpenStatus
  <2>4. po' \in [Orders -> Header] /\ \A x \in Orders : HeaderOK(po'[x])
    BY <1>0, <1>8, <2>3, ConstantsOK DEF Deliver, Header, HeaderOK, OpenStatus
  <2>5. line' \in [Orders -> Rows]
    <3>1. \A l \in Lines : seen[l].received + got[l] \in Nat
      BY <2>1 DEF Rows
    <3>2. [l \in Lines |->
             [ordered  |-> line[o][l].ordered,
              received |-> IF got[l] = 0 THEN line[o][l].received
                           ELSE seen[l].received + got[l],
              cost     |-> line[o][l].cost]] \in Rows
      BY <1>0, <3>1 DEF Rows
    <3>3. QED
      BY <1>0, <1>8, <3>2 DEF Deliver
  <2>6. stocked' \in [Orders -> [Lines -> Nat]]
    BY <1>0, <1>8, <2>1 DEF Deliver
  <2>7. budget' \in [Periods -> Budgets]
    <3> DEFINE b == BudgetRow(po[o].period)
    <3>1. CostOfAll(got) <= b.reserved
      BY <1>8 DEF Deliver
    <3>2. [open |-> TRUE, monthly |-> b.monthly, reserved |-> b.reserved - CostOfAll(got),
           spent |-> b.spent + CostOfAll(got)] \in OpenBudgets
      <4>1. b.monthly \in Nat /\ b.reserved \in Nat /\ b.spent \in Nat
        BY <2>3, BudgetRowType
      <4>2. b.reserved - CostOfAll(got) \in Nat /\ b.spent + CostOfAll(got) \in Nat
        BY <2>2, <3>1, <4>1
      <4>3. QED
        BY <4>1, <4>2 DEF OpenBudgets
    <3>3. QED
      BY <1>0, <1>8, <3>2 DEF Deliver, Budgets
  <2>8. QED
    BY <1>0, <1>8, <2>4, <2>5, <2>6, <2>7 DEF Deliver
<1>9. ASSUME NEW r \in Requests, NEW got \in [Lines -> 0 .. MaxQty], Receive(r, got)
      PROVE  TypeOK'
  <2>1. req[r].order \in Orders /\ req[r].lines \in Rows
    BY <1>0, <1>9 DEF Receive, HandlerOK, Handlers, OrderOps
  <2>2. QED
    BY <1>4, <1>8, <1>9, <2>1 DEF Receive, TypeOK, HandlerOK, HeaderOK
<1>10. ASSUME NEW o \in Orders, NEW got \in [Lines -> 0 .. MaxQty], KeyedReceive(o, got)
       PROVE  TypeOK'
  <2>1. line[o] \in Rows
    BY <1>0
  <2>2. QED
    BY <1>0, <1>8, <1>10, <2>1 DEF KeyedReceive, TypeOK, HandlerOK, HeaderOK
<1>11. ASSUME NEW r \in Requests, ReadSettings(r)
       PROVE  TypeOK'
  <2>1. HandlerOK(Handler("ready", "settings", None, Absent, NoLines, storeMonthly))
    BY <1>0, AbsentType, ConstantsOK DEF HandlerOK, Handler, Handlers, OrderOps
  <2>2. /\ req' \in [Requests -> Handlers]
        /\ \A s \in Requests : HandlerOK(req'[s])
    BY <1>11, <2>1, HandlersMove DEF ReadSettings
  <2>3. QED
    BY <1>0, <1>11, <2>2 DEF ReadSettings, TypeOK, HandlerOK, HeaderOK
<1>12. ASSUME NEW r \in Requests, NEW m \in Monthlies, NEW p \in Periods,
              WriteSettings(r, m, p)
       PROVE  TypeOK'
  <2>1. m \in Nat
    BY ConstantsOK
  <2>2. budget' \in [Periods -> Budgets] /\ storeMonthly' \in Nat
    BY <1>0, <1>12, <2>1, BudgetRowType DEF WriteSettings, Budgets, OpenBudgets, Emit
  <2>3. QED
    BY <1>0, <1>4, <1>12, <2>2 DEF WriteSettings, TypeOK, HandlerOK, HeaderOK
<1>13. CASE UNCHANGED vars
  BY <1>13 DEF vars, TypeOK, ConfirmedIn
<1>20. QED
  BY <1>1, <1>2, <1>3, <1>5, <1>6, <1>7, <1>9, <1>10, <1>11, <1>12, <1>13 DEF Next

\* In every interleaving of handlers, racing patches included, the rows and the
\* sessions keep their types: in particular the money reserved and spent never
\* goes below zero, and an order has a month exactly when it was confirmed.
THEOREM TypeCorrect == Spec => []TypeOK
BY TypeInit, TypeStep, PTL DEF Spec

-----------------------------------------------------------------------------
(* Budget commitments, in every interleaving. *)

Committed(x) == budget[x].reserved + budget[x].spent

\* A step commits more only by a confirmation, within the month's budget.
CommitsWithinBudget(x) ==
  Committed(x)' # Committed(x) => /\ Committed(x)' > Committed(x)
                                  /\ Committed(x)' <= budget'[x].monthly

\* Opening a month's row or changing its budget moves no money.
LEMMA RowKeepsMoney ==
  ASSUME TypeOK, NEW p \in Periods, NEW row,
         row.reserved = BudgetRow(p).reserved, row.spent = BudgetRow(p).spent,
         budget' = [budget EXCEPT ![p] = row], NEW x \in Periods
  PROVE  budget'[x].reserved = budget[x].reserved /\ budget'[x].spent = budget[x].spent
BY BudgetRowType DEF TypeOK

\* Confirming reserves the order's total, of what the month has left.
LEMMA ConfirmMoney ==
  ASSUME TypeOK, NEW r \in Requests, NEW p \in Periods, Confirm(r, p), NEW x \in Periods
  PROVE  /\ TotalOf(req[r].lines) \in Nat
         /\ Committed(x)' = IF x = p THEN Committed(x) + TotalOf(req[r].lines) ELSE Committed(x)
         /\ x = p => Committed(x)' <= budget'[x].monthly
<1> DEFINE b == BudgetRow(p)
           total == TotalOf(req[r].lines)
<1>1. total \in Nat
  BY TotalNat DEF TypeOK, Handlers
<1>2. /\ b.monthly \in Nat /\ b.reserved \in Nat /\ b.spent \in Nat
      /\ b.reserved = budget[p].reserved /\ b.spent = budget[p].spent
  BY BudgetRowType
<1>3. total <= b.monthly - b.reserved - b.spent
  BY DEF Confirm, Confirmed, Remaining
<1>4. budget' = [budget EXCEPT ![p] =
        [open |-> TRUE, monthly |-> b.monthly,
         reserved |-> b.reserved + total, spent |-> b.spent]]
  BY DEF Confirm, Confirmed
<1>5. CASE x = p
  <2>1. /\ budget'[x].monthly = b.monthly
        /\ budget'[x].reserved = b.reserved + total
        /\ budget'[x].spent = b.spent
    BY <1>4, <1>5 DEF TypeOK
  <2>2. QED
    BY <1>1, <1>2, <1>3, <1>5, <2>1 DEF Committed
<1>6. CASE x # p
  <2>1. budget'[x] = budget[x]
    BY <1>4, <1>6 DEF TypeOK
  <2>2. QED
    BY <1>1, <1>6, <2>1 DEF Committed
<1>7. QED
  BY <1>5, <1>6

\* A delivery moves its cost from reserved to spent, in the order's month.
LEMMA DeliverMoves ==
  ASSUME TypeOK, NEW o \in Orders, NEW version, NEW seen,
         NEW got \in [Lines -> 0 .. MaxQty], Deliver(o, version, seen, got),
         NEW x \in Periods
  PROVE  /\ po[o].period \in Periods
         /\ CostOfAll(got) \in Nat
         /\ budget[x].reserved \in Nat /\ budget[x].spent \in Nat
         /\ x = po[o].period =>
              /\ budget'[x].reserved = budget[x].reserved - CostOfAll(got)
              /\ budget'[x].spent = budget[x].spent + CostOfAll(got)
         /\ x # po[o].period => budget'[x] = budget[x]
<1> DEFINE p == po[o].period
           b == BudgetRow(p)
           cost == CostOfAll(got)
<1>1. p \in Periods
  BY DEF Deliver, ClaimReceive, TypeOK, Header, OpenStatus
<1>2. b.reserved = budget[p].reserved /\ b.spent = budget[p].spent
  BY <1>1, BudgetRowType
<1>3. cost \in Nat
  BY CostOfAllNat, ConstantsOK
<1>4. budget' = [budget EXCEPT ![p] =
        [open |-> TRUE, monthly |-> b.monthly,
         reserved |-> b.reserved - cost, spent |-> b.spent + cost]]
  BY DEF Deliver
<1>5. budget \in [Periods -> Budgets] /\ budget[x].reserved \in Nat /\ budget[x].spent \in Nat
  BY BudgetRowType DEF TypeOK
<1> HIDE DEF p, b, cost
<1>6. x = p => budget'[x].reserved = b.reserved - cost /\ budget'[x].spent = b.spent + cost
  BY <1>4, <1>5
<1>7. x # p => budget'[x] = budget[x]
  BY <1>4, <1>5
<1>8. QED
  BY <1>1, <1>2, <1>3, <1>5, <1>6, <1>7 DEF p, cost

LEMMA DeliverMoney ==
  ASSUME TypeOK, NEW o \in Orders, NEW version, NEW seen,
         NEW got \in [Lines -> 0 .. MaxQty], Deliver(o, version, seen, got),
         NEW x \in Periods
  PROVE  Committed(x)' = Committed(x)
BY DeliverMoves DEF Committed

\* A delivery by some handler, with a key or without.
Delivers == \/ \E r \in Requests : \E got \in [Lines -> 0 .. MaxQty] : Receive(r, got)
            \/ \E o \in Orders : \E got \in [Lines -> 0 .. MaxQty] : KeyedReceive(o, got)
Confirms == \E r \in Requests, p \in Periods : Confirm(r, p)

\* Whoever delivers, it is a delivery to an order.
LEMMA DeliversToOrder ==
  ASSUME TypeOK, Delivers
  PROVE  \E o \in Orders : \E version, seen : \E got \in [Lines -> 0 .. MaxQty] :
           Deliver(o, version, seen, got)
<1>1. ASSUME NEW r \in Requests, NEW got \in [Lines -> 0 .. MaxQty], Receive(r, got)
      PROVE  \E o \in Orders : \E version, seen : Deliver(o, version, seen, got)
  BY <1>1 DEF Receive, TypeOK, OrderOps
<1>2. ASSUME NEW o \in Orders, NEW got \in [Lines -> 0 .. MaxQty], KeyedReceive(o, got)
      PROVE  \E version, seen : Deliver(o, version, seen, got)
  BY <1>2 DEF KeyedReceive
<1>3. QED
  BY <1>1, <1>2 DEF Delivers

\* Every step but a confirmation and a delivery keeps what each month has
\* reserved and spent.
LEMMA QuietMoney ==
  ASSUME TypeOK, NEW x \in Periods, [Next]_vars, ~ Confirms, ~ Delivers
  PROVE  budget'[x].reserved = budget[x].reserved /\ budget'[x].spent = budget[x].spent
<1> DEFINE Kept == budget'[x].reserved = budget[x].reserved
                     /\ budget'[x].spent = budget[x].spent
<1>1. ASSUME NEW p \in Periods, budget' = [budget EXCEPT ![p] = BudgetRow(p)]
      PROVE  Kept
  BY <1>1, RowKeepsMoney
<1>2. ASSUME NEW os \in SUBSET Orders, NEW p \in Periods,
             NEW q \in [os -> [Lines -> Orderable]], CreateOrders(os, q, p)
      PROVE  Kept
  BY <1>1, <1>2 DEF CreateOrders
<1>3. ASSUME NEW r \in Requests, NEW up \in [Lines -> Orderable \cup {0}],
             NEW p \in Periods, Patch(r, up, p)
      PROVE  Kept
  BY <1>1, <1>3 DEF Patch, Repriced
<1>4. ASSUME NEW r \in Requests, NEW m \in Monthlies, NEW p \in Periods,
             WriteSettings(r, m, p)
      PROVE  Kept
  <2> DEFINE row == [open |-> TRUE, monthly |-> m,
                     reserved |-> BudgetRow(p).reserved, spent |-> BudgetRow(p).spent]
  <2>1. budget' = [budget EXCEPT ![p] = row]
    BY <1>4 DEF WriteSettings
  <2>2. row.reserved = BudgetRow(p).reserved /\ row.spent = BudgetRow(p).spent
    OBVIOUS
  <2> HIDE DEF row
  <2>3. QED
    BY <2>1, <2>2, RowKeepsMoney
<1>5. CASE UNCHANGED budget
  BY <1>5
<1>6. QED
  BY <1>2, <1>3, <1>4, <1>5
  DEF Next, vars, ReadOrder, ReadLines, Fail, ReadSettings, Confirms, Delivers

\* Every step but a confirmation keeps the money committed in every month.
LEMMA OtherStepsKeepMoney ==
  ASSUME TypeOK, NEW x \in Periods, [Next]_vars, ~ Confirms
  PROVE  Committed(x)' = Committed(x)
BY QuietMoney, DeliversToOrder, DeliverMoney DEF Committed

LEMMA CommitmentStep ==
  ASSUME TypeOK, [Next]_vars, NEW x \in Periods
  PROVE  CommitsWithinBudget(x)
<1>1. ASSUME NEW r \in Requests, NEW p \in Periods, Confirm(r, p)
      PROVE  CommitsWithinBudget(x)
  <2>1. Committed(x) \in Nat
    <3>1. budget[x].reserved \in Nat /\ budget[x].spent \in Nat
      BY BudgetRowType
    <3>2. QED
      BY <3>1 DEF Committed
  <2>2. QED
    BY <1>1, <2>1, ConfirmMoney DEF CommitsWithinBudget
<1>2. QED
  BY <1>1, OtherStepsKeepMoney DEF CommitsWithinBudget, Confirms

\* Whatever handlers interleave, and however the settings changed since, a month's
\* reserved and spent money grows only within its budget of that moment.
THEOREM CommitmentsWithinBudget == Spec => CommitmentsStayWithinBudget
<1> DEFINE P == \A p \in Periods : CommitsWithinBudget(p)
<1>1. TypeOK /\ [Next]_vars => P
  BY CommitmentStep
<1>2. P => \A p \in Periods :
             LET before == budget[p].reserved + budget[p].spent
                 after == budget'[p].reserved + budget'[p].spent
             IN after # before => after > before /\ after <= budget'[p].monthly
  BY DEF CommitsWithinBudget, Committed
<1> HIDE DEF P
<1>3. QED
  BY <1>1, <1>2, TypeCorrect, PTL DEF Spec, CommitmentsStayWithinBudget

-----------------------------------------------------------------------------
(* What is spent pays for the stock, in every interleaving. *)

Worth(o) == SumOver(Lines, [l \in Lines |-> stocked[o][l] * UnitCost[l]])
Worths == [o \in Orders |-> Worth(o)]

\* Month x has spent no more than the stock of its orders is worth, and exactly
\* that when quantities are whole units.
Pays(x) ==
  /\ budget[x].spent * Scale <= SumOver(ConfirmedIn(x), Worths)
  /\ Scale = 1 => budget[x].spent = SumOver(ConfirmedIn(x), Worths)

\* Nothing is in stock of an order no month has confirmed.
NothingUnconfirmed ==
  \A o \in Orders : po[o].period = None => \A l \in Lines : stocked[o][l] = 0

LEMMA PaysParts == SpentPaysForStock <=> \A x \in Periods : Pays(x)
BY DEF SpentPaysForStock, Pays, Worths, Worth

LEMMA PaysPartsNext == (\A x \in Periods : Pays(x)') => SpentPaysForStock'
BY DEF SpentPaysForStock, Pays, Worths, Worth

LEMMA ConfirmedFinite ==
  ASSUME NEW x \in Periods
  PROVE  IsFiniteSet(ConfirmedIn(x)) /\ ConfirmedIn(x) \subseteq Orders
BY FS_Subset, ConstantsOK DEF ConfirmedIn

LEMMA WorthNat ==
  ASSUME TypeOK, NEW o \in Orders
  PROVE  /\ \A l \in Lines : stocked[o][l] * UnitCost[l] \in Nat
         /\ Worth(o) \in Nat
<1>1. \A l \in Lines : stocked[o][l] \in Nat /\ UnitCost[l] \in Nat
  BY CostsOK DEF TypeOK
<1>2. \A l \in Lines : stocked[o][l] * UnitCost[l] \in Nat
  BY <1>1
<1>3. QED
  BY <1>2, SumNat, CostsOK DEF Worth

\* What a line costs is at most its worth in quanta, and its worth when whole.
LEMMA CostIsWorth ==
  ASSUME NEW l \in Lines, NEW q \in Nat
  PROVE  /\ q * UnitCost[l] \in Nat
         /\ CostOf(l, q) * Scale <= q * UnitCost[l]
         /\ Scale = 1 => CostOf(l, q) = q * UnitCost[l]
<1>1. q * UnitCost[l] \in Nat /\ Scale \in Nat \ {0}
  BY CostsOK
<1>2. \A n \in Nat, d \in Nat \ {0} : (n \div d) * d <= n
  OBVIOUS
<1>3. \A n \in Nat : n \div 1 = n
  OBVIOUS
<1>4. QED
  BY <1>1, <1>2, <1>3 DEF CostOf

LEMMA CostOfAllIsWorth ==
  ASSUME NEW got, \A l \in Lines : got[l] \in Nat
  PROVE  LET worth == SumOver(Lines, [l \in Lines |-> got[l] * UnitCost[l]])
         IN  /\ worth \in Nat
             /\ CostOfAll(got) * Scale <= worth
             /\ Scale = 1 => CostOfAll(got) = worth
<1> DEFINE w == [l \in Lines |-> got[l] * UnitCost[l]]
           c == Costs(got)
<1>1. \A l \in Lines : /\ c[l] \in Nat /\ w[l] \in Nat
                       /\ c[l] * Scale <= w[l]
                       /\ Scale = 1 => c[l] = w[l]
  BY CostIsWorth, CostNat DEF Costs
<1>2. IsFiniteSet(Lines) /\ Scale \in Nat \ {0}
  BY CostsOK
<1> HIDE DEF w, c
<1>3. SumOver(Lines, w) \in Nat
  BY <1>1, <1>2, SumNat
<1>4. SumOver(Lines, c) * Scale <= SumOver(Lines, w)
  BY <1>1, <1>2, SumScaled
<1>5. Scale = 1 => SumOver(Lines, c) = SumOver(Lines, w)
  BY <1>1, SumSame
<1>6. QED
  BY <1>3, <1>4, <1>5 DEF w, c, CostOfAll

\* Nothing changes for a month whose orders, stock and spending stay.
LEMMA PaysStays ==
  ASSUME NEW x \in Periods, Pays(x), budget'[x].spent = budget[x].spent,
         ConfirmedIn(x)' = ConfirmedIn(x),
         \A o \in ConfirmedIn(x) : stocked'[o] = stocked[o]
  PROVE  Pays(x)'
<1>1. ConfirmedIn(x) \subseteq Orders
  BY ConfirmedFinite
<1>2. \A o \in ConfirmedIn(x) : Worths'[o] = Worths[o]
  BY <1>1 DEF Worths, Worth
<1>3. SumOver(ConfirmedIn(x), Worths') = SumOver(ConfirmedIn(x), Worths)
  BY <1>2, SumSame
<1>4. QED
  BY <1>3 DEF Pays

\* A confirmation lets an unconfirmed order join its month.
LEMMA ConfirmJoins ==
  ASSUME TypeOK, NEW r \in Requests, NEW p \in Periods, Confirm(r, p), NEW x \in Periods
  PROVE  /\ req[r].order \in Orders
         /\ po[req[r].order].period = None
         /\ po'[req[r].order].period = p
         /\ \A o \in Orders : o # req[r].order => po'[o] = po[o]
         /\ ConfirmedIn(x)' =
              IF x = p THEN ConfirmedIn(x) \cup {req[r].order} ELSE ConfirmedIn(x)
         /\ req[r].order \notin ConfirmedIn(x)
<1> DEFINE o == req[r].order
<1>1. o \in Orders /\ po \in [Orders -> Header]
  BY DEF Confirm, Confirmed, TypeOK, OrderOps
<1>2. po[o].status = "draft"
  BY DEF Confirm, Confirmed, ClaimConfirm
<1>3. po[o].period = None
  BY <1>1, <1>2 DEF TypeOK
<1>4. po' = [po EXCEPT ![o] = Confirmed(po[o], TotalOf(req[r].lines), p)]
  BY DEF Confirm
<1>5. Confirmed(po[o], TotalOf(req[r].lines), p).period = p
  BY DEF Confirmed
<1> HIDE DEF o
<1>6. po'[o].period = p /\ \A y \in Orders : y # o => po'[y] = po[y]
  BY <1>1, <1>4, <1>5
<1>7. None # x
  BY ConstantsOK
<1>8. o \notin ConfirmedIn(x)
  BY <1>3, <1>7 DEF ConfirmedIn
<1>9. ConfirmedIn(x)' = IF x = p THEN ConfirmedIn(x) \cup {o} ELSE ConfirmedIn(x)
  BY <1>1, <1>3, <1>6, <1>7 DEF ConfirmedIn
<1>10. QED
  BY <1>1, <1>3, <1>6, <1>8, <1>9 DEF o

\* What a month has spent changes by deliveries only.
LEMMA ConfirmReserves ==
  ASSUME TypeOK, NEW r \in Requests, NEW p \in Periods, Confirm(r, p), NEW x \in Periods
  PROVE  /\ budget'[x].spent = budget[x].spent
         /\ x # p => budget'[x].reserved = budget[x].reserved
         /\ x = p => budget'[x].reserved = budget[x].reserved + TotalOf(req[r].lines)
<1> DEFINE b == BudgetRow(p)
           total == TotalOf(req[r].lines)
<1>1. b.reserved = budget[p].reserved /\ b.spent = budget[p].spent
  BY BudgetRowType
<1>2. budget' = [budget EXCEPT ![p] =
        [open |-> TRUE, monthly |-> b.monthly,
         reserved |-> b.reserved + total, spent |-> b.spent]]
  BY DEF Confirm
<1>3. budget \in [Periods -> Budgets]
  BY DEF TypeOK
<1> HIDE DEF b, total
<1>4. QED
  BY <1>1, <1>2, <1>3 DEF total

\* Every step but a delivery leaves the stock, and all but a confirmation the
\* months the orders are confirmed in.
LEMMA QuietStock ==
  ASSUME TypeOK, [Next]_vars, ~ Delivers
  PROVE  stocked' = stocked
BY DEF Next, vars, CreateOrders, ReadOrder, ReadLines, Fail, Patch, Confirm, ReadSettings,
       WriteSettings, Delivers

LEMMA QuietMonths ==
  ASSUME TypeOK, [Next]_vars, ~ Confirms, NEW o \in Orders
  PROVE  po'[o].period = po[o].period
<1>1. po \in [Orders -> Header]
  BY DEF TypeOK
<1>2. ASSUME NEW os \in SUBSET Orders, NEW p \in Periods,
             NEW q \in [os -> [Lines -> Orderable]], CreateOrders(os, q, p)
      PROVE  po'[o].period = po[o].period
  <2>1. CASE o \in os
    <3>1. po[o].period = None
      BY <1>2, <2>1 DEF CreateOrders, TypeOK
    <3>2. po'[o].period = None
      BY <1>2, <2>1 DEF CreateOrders
    <3>3. QED
      BY <3>1, <3>2
  <2>2. CASE o \notin os
    BY <1>2, <2>2 DEF CreateOrders
  <2>3. QED
    BY <2>1, <2>2
<1>3. ASSUME NEW r \in Requests, NEW up, NEW p, Patch(r, up, p)
      PROVE  po'[o].period = po[o].period
  <2> DEFINE row == Repriced(po[req[r].order], req[r].po, TotalOf(Patched(req[r].lines, up)))
  <2>1. po' = [po EXCEPT ![req[r].order] = row]
    BY <1>3 DEF Patch
  <2>2. row.period = po[req[r].order].period
    BY DEF Repriced
  <2> HIDE DEF row
  <2>3. QED
    BY <1>1, <2>1, <2>2
<1>4. ASSUME Delivers
      PROVE  po'[o].period = po[o].period
  <2>1. PICK d \in Orders : \E version, seen : \E got \in [Lines -> 0 .. MaxQty] :
               Deliver(d, version, seen, got)
    BY <1>4, DeliversToOrder
  <2>2. QED
    BY <1>1, <2>1 DEF Deliver
<1>5. CASE UNCHANGED po
  BY <1>5
<1>6. QED
  BY <1>2, <1>3, <1>4, <1>5
  DEF Next, vars, ReadOrder, ReadLines, Fail, ReadSettings, WriteSettings, Confirms, Delivers

LEMMA QuietConfirmed ==
  ASSUME TypeOK, [Next]_vars, ~ Confirms, NEW x \in Periods
  PROVE  ConfirmedIn(x)' = ConfirmedIn(x)
BY QuietMonths DEF ConfirmedIn

\* A delivery adds the goods' worth to its order's, and at most that to what the
\* month has spent.
LEMMA DeliverPays ==
  ASSUME TypeOK, TypeOK', NEW o \in Orders, NEW version, NEW seen,
         NEW got \in [Lines -> 0 .. MaxQty], Deliver(o, version, seen, got),
         NEW x \in Periods, Pays(x), ConfirmedIn(x)' = ConfirmedIn(x)
  PROVE  Pays(x)'
<1> DEFINE arrived == [l \in Lines |-> got[l] * UnitCost[l]]
<1>1. \A l \in Lines : got[l] \in Nat /\ UnitCost[l] \in Nat /\ stocked[o][l] \in Nat
  BY ConstantsOK, CostsOK DEF TypeOK
<1>2. /\ \A y \in Orders : y # o => stocked'[y] = stocked[y]
      /\ \A l \in Lines : stocked'[o][l] = stocked[o][l] + got[l]
  BY DEF Deliver, TypeOK
<1>3. /\ po[o].period \in Periods
      /\ CostOfAll(got) \in Nat /\ budget[x].spent \in Nat
      /\ x = po[o].period => budget'[x].spent = budget[x].spent + CostOfAll(got)
      /\ x # po[o].period => budget'[x].spent = budget[x].spent
  BY DeliverMoves
<1>4. CASE x # po[o].period
  <2>1. \A y \in ConfirmedIn(x) : stocked'[y] = stocked[y]
    BY <1>2, <1>4 DEF ConfirmedIn
  <2>2. QED
    BY <1>3, <1>4, <2>1, PaysStays
<1>5. CASE x = po[o].period
  <2>1. o \in ConfirmedIn(x)
    BY <1>5 DEF ConfirmedIn
  <2>2. Worth(o)' = Worth(o) + SumOver(Lines, arrived)
    <3> DEFINE f == [l \in Lines |-> stocked[o][l] * UnitCost[l]]
               h == [l \in Lines |-> stocked'[o][l] * UnitCost[l]]
    <3>1. \A l \in Lines : f[l] \in Nat /\ arrived[l] \in Nat /\ h[l] = f[l] + arrived[l]
      BY <1>1, <1>2
    <3> HIDE DEF f, h, arrived
    <3>2. SumOver(Lines, h) = SumOver(Lines, f) + SumOver(Lines, arrived)
      BY <3>1, SumPlus, CostsOK
    <3>3. QED
      BY <3>2 DEF Worth, f, h
  <2>3. /\ SumOver(Lines, arrived) \in Nat
        /\ CostOfAll(got) * Scale <= SumOver(Lines, arrived)
        /\ Scale = 1 => CostOfAll(got) = SumOver(Lines, arrived)
    BY <1>1, CostOfAllIsWorth
  <2>4. SumOver(ConfirmedIn(x), Worths') = SumOver(ConfirmedIn(x), Worths) + SumOver(Lines, arrived)
    <3> DEFINE S == ConfirmedIn(x)
               f == Worths
               g == Worths'
    <3>1. IsFiniteSet(S) /\ S \subseteq Orders
      BY ConfirmedFinite
    <3>2. \A y \in Orders : f[y] \in Nat /\ g[y] \in Nat
      <4>1. \A y \in Orders : Worth(y) \in Nat
        BY WorthNat
      <4>2. ASSUME NEW y \in Orders PROVE Worth(y)' \in Nat
        <5>1. \A l \in Lines : stocked'[y][l] \in Nat /\ UnitCost[l] \in Nat
          BY CostsOK DEF TypeOK
        <5>2. \A l \in Lines : stocked'[y][l] * UnitCost[l] \in Nat
          BY <5>1
        <5>3. QED
          BY <5>2, SumNat, CostsOK DEF Worth
      <4>3. QED
        BY <4>1, <4>2 DEF Worths
    <3>3. \A y \in S \ {o} : f[y] = g[y]
      BY <1>2, <3>1 DEF Worths, Worth
    <3>4. g[o] = f[o] + SumOver(Lines, arrived)
      BY <2>2 DEF Worths
    <3> HIDE DEF S, f, g, arrived
    <3>5. SumOver(S, g) - g[o] = SumOver(S, f) - f[o]
      BY <2>1, <3>1, <3>2, <3>3, SumChange DEF S
    <3>6. SumOver(S, g) \in Nat /\ SumOver(S, f) \in Nat
      BY <3>1, <3>2, SumNat
    <3>7. SumOver(S, g) = SumOver(S, f) + SumOver(Lines, arrived)
      BY <2>3, <3>2, <3>4, <3>5, <3>6
    <3>8. QED
      BY <3>7 DEF S, f, g
  <2>5. SumOver(ConfirmedIn(x), Worths) \in Nat
    BY ConfirmedFinite, WorthNat, SumNat DEF Worths
  <2>6. (budget[x].spent + CostOfAll(got)) * Scale
          = budget[x].spent * Scale + CostOfAll(got) * Scale
    BY <1>3, CostsOK
  <2>7. budget[x].spent * Scale \in Nat /\ CostOfAll(got) * Scale \in Nat
    BY <1>3, CostsOK
  <2> HIDE DEF arrived
  <2>8. /\ budget'[x].spent * Scale <= SumOver(ConfirmedIn(x), Worths')
        /\ Scale = 1 => budget'[x].spent = SumOver(ConfirmedIn(x), Worths')
    BY <1>3, <1>5, <2>3, <2>4, <2>5, <2>6, <2>7 DEF Pays
  <2>9. QED
    BY <2>8 DEF Pays
<1>6. QED
  BY <1>4, <1>5

SInv == TypeOK /\ NothingUnconfirmed /\ SpentPaysForStock

LEMMA StockStep ==
  ASSUME SInv, [Next]_vars
  PROVE  SInv'
<1>1. TypeOK /\ TypeOK'
  BY TypeStep DEF SInv
<1>2. \A x \in Periods : Pays(x)
  BY PaysParts DEF SInv
<1>3. NothingUnconfirmed
  BY DEF SInv
<1>4. ASSUME NEW r \in Requests, NEW p \in Periods, Confirm(r, p)
      PROVE  NothingUnconfirmed' /\ \A x \in Periods : Pays(x)'
  <2> DEFINE o == req[r].order
  <2>1. stocked' = stocked
    BY <1>4 DEF Confirm
  <2>2. /\ o \in Orders /\ po[o].period = None /\ po'[o].period = p
        /\ \A y \in Orders : y # o => po'[y] = po[y]
    BY <1>1, <1>4, ConfirmJoins
  <2>3. NothingUnconfirmed'
    <3>1. p # None
      BY ConstantsOK
    <3>2. QED
      BY <1>3, <2>1, <2>2, <3>1 DEF NothingUnconfirmed
  <2>4. ASSUME NEW x \in Periods
        PROVE  Pays(x)'
    <3>1. budget'[x].spent = budget[x].spent
      BY <1>1, <1>4, ConfirmReserves
    <3>2. CASE x # p
      <4>1. ConfirmedIn(x)' = ConfirmedIn(x)
        BY <1>1, <1>4, <3>2, ConfirmJoins
      <4>2. QED
        BY <1>2, <2>1, <3>1, <4>1, PaysStays
    <3>3. CASE x = p
      <4> DEFINE S == ConfirmedIn(x)
                 f == Worths
      <4>1. ConfirmedIn(x)' = S \cup {o} /\ o \notin S
        BY <1>1, <1>4, <3>3, ConfirmJoins
      <4>2. Worths' = f
        BY <2>1 DEF Worths, Worth
      <4>3. f[o] = 0
        <5> DEFINE z == [l \in Lines |-> stocked[o][l] * UnitCost[l]]
                <5>1. \A l \in Lines : stocked[o][l] = 0 /\ UnitCost[l] \in Nat
          BY <1>3, <2>2, CostsOK DEF NothingUnconfirmed
        <5>2. \A l \in Lines : z[l] = 0
          BY <5>1
        <5> HIDE DEF z
        <5>3. SumOver(Lines, z) = 0
          BY <5>2, SumZero
        <5>4. QED
          BY <2>2, <5>3 DEF Worths, Worth, z
      <4>4. IsFiniteSet(S) /\ \A y \in S : f[y] \in Nat
        BY <1>1, ConfirmedFinite, WorthNat DEF Worths
      <4> HIDE DEF S, f, o
      <4>5. SumOver(S \cup {o}, f) = SumOver(S, f) + f[o]
        <5>1. /\ IsFiniteSet(S) /\ o \notin S /\ f[o] \in Nat
              /\ \A y \in S : f[y] \in Nat /\ f[y] = f[y]
          BY <4>1, <4>3, <4>4
        <5>2. QED
          BY <5>1, SumAdd
      <4>6. SumOver(S, f) \in Nat
        BY <4>4, SumNat
      <4>7. SumOver(ConfirmedIn(x)', Worths') = SumOver(ConfirmedIn(x), Worths)
        BY <4>1, <4>2, <4>3, <4>5, <4>6 DEF S, f
      <4>8. QED
        BY <1>2, <3>1, <4>7 DEF Pays
    <3>4. QED
      BY <3>2, <3>3
  <2>5. QED
    BY <2>3, <2>4
<1>5. ASSUME ~ Confirms, Delivers
      PROVE  NothingUnconfirmed' /\ \A x \in Periods : Pays(x)'
  <2>1. PICK o \in Orders : \E version, seen : \E got \in [Lines -> 0 .. MaxQty] :
               Deliver(o, version, seen, got)
    BY <1>1, <1>5, DeliversToOrder
  <2>2. PICK version, seen : \E got \in [Lines -> 0 .. MaxQty] : Deliver(o, version, seen, got)
    BY <2>1
  <2>3. PICK got \in [Lines -> 0 .. MaxQty] : Deliver(o, version, seen, got)
    BY <2>2
  <2>4. \A x \in Periods : Pays(x)'
    BY <1>1, <1>2, <1>5, <2>3, QuietConfirmed, DeliverPays
  <2>5. po[o].period \in Periods /\ \A y \in Orders : y # o => stocked'[y] = stocked[y]
    <3>1. po[o].period \in Periods
      BY <1>1, <2>3 DEF Deliver, ClaimReceive, TypeOK, Header, OpenStatus
    <3>2. QED
      BY <1>1, <2>3, <3>1 DEF Deliver, TypeOK
  <2>6. \A y \in Orders : po'[y].period = po[y].period
    BY <1>1, <1>5, QuietMonths
  <2>7. NothingUnconfirmed'
    BY <1>3, <2>5, <2>6, ConstantsOK DEF NothingUnconfirmed
  <2>8. QED
    BY <2>4, <2>7
<1>6. ASSUME ~ Confirms, ~ Delivers
      PROVE  NothingUnconfirmed' /\ \A x \in Periods : Pays(x)'
  <2>1. stocked' = stocked
    BY <1>1, <1>6, QuietStock
  <2>2. \A y \in Orders : po'[y].period = po[y].period
    BY <1>1, <1>6, QuietMonths
  <2>3. \A x \in Periods : Pays(x)'
    BY <1>1, <1>2, <1>6, <2>1, QuietMoney, QuietConfirmed, PaysStays
  <2>4. QED
    BY <1>3, <2>1, <2>2, <2>3 DEF NothingUnconfirmed
<1>7. QED
  BY <1>1, <1>4, <1>5, <1>6, PaysPartsNext DEF SInv, Confirms

\* However handlers interleave, patches among them, what a month has spent is
\* what its orders' receipts put in stock, less the fractions of each delivery.
THEOREM SpentIsStocked == Spec => []SpentPaysForStock
<1>1. Init => SInv
  <2> SUFFICES ASSUME Init PROVE SInv
    OBVIOUS
  <2>1. TypeOK
    BY TypeInit
  <2>2. NothingUnconfirmed
    BY DEF Init, NothingUnconfirmed
  <2>3. ASSUME NEW x \in Periods
        PROVE  Pays(x)
    <3>1. ConfirmedIn(x) = {}
      BY ConstantsOK DEF Init, ConfirmedIn, Absent
    <3>2. SumOver(ConfirmedIn(x), Worths) = 0
      BY <3>1, SumEmpty
    <3>3. budget[x].spent = 0
      BY DEF Init, NoBudget
    <3>4. QED
      BY <3>2, <3>3, CostsOK DEF Pays
  <2>4. QED
    BY <2>1, <2>2, <2>3, PaysParts DEF SInv
<1>2. SInv /\ [Next]_vars => SInv'
  BY StockStep
<1>3. SInv => SpentPaysForStock
  BY DEF SInv
<1>4. QED
  BY <1>1, <1>2, <1>3, PTL DEF Spec

-----------------------------------------------------------------------------
(* The inductive invariant, for clients that do not patch an order while   *)
(* another request for it is in flight.                                    *)

\* The rows of an order agree with each other and with the stock.
OrderOK(o) ==
  /\ po[o].status = "absent" => po[o] = Absent /\ line[o] = NoLines
  /\ \A l \in Lines :
       /\ stocked[o][l] = line[o][l].received
       /\ line[o][l].received <= line[o][l].ordered
       /\ po[o].status # "absent" =>
            /\ line[o][l].ordered > 0
            /\ line[o][l].cost = CostOf(l, line[o][l].ordered)
       /\ po[o].status \in {"absent", "draft", "ordered"} => line[o][l].received = 0
       /\ po[o].status = "received" => line[o][l].received = line[o][l].ordered
  /\ po[o].status = "partially_received" =>
       \E l \in Lines : line[o][l].received # line[o][l].ordered
  /\ po[o].status # "absent" => po[o].total = TotalOf(line[o])

\* The snapshot of a handler is of an earlier version, or it is current.
SnapshotOK(h) ==
  h.op \in OrderOps =>
    /\ po[h.order].status # "absent"
    /\ h.po.version <= po[h.order].version
    /\ h.po.version = po[h.order].version =>
         /\ h.po = po[h.order]
         /\ h.stage = "ready" => h.lines = line[h.order]
    /\ h.stage = "ready" =>
         h.po.status \in IF h.op = "receive" THEN OpenStatus ELSE {"draft"}
    /\ h.op = "patch" => h.po.version = po[h.order].version

\* The handler of a patch has its order to itself.
PatchesAreAlone ==
  \A r, s \in Requests :
    req[r].op = "patch" /\ req[s].op \in OrderOps /\ req[s].order = req[r].order => s = r

IInv ==
  /\ PatchAlone
  /\ TypeOK
  /\ \A o \in Orders : OrderOK(o)
  /\ \A r \in Requests : SnapshotOK(req[r])
  /\ PatchesAreAlone
  /\ BudgetIsConserved

LEMMA InvInit == ASSUME PatchAlone PROVE Init => IInv
<1> SUFFICES ASSUME Init PROVE IInv
  OBVIOUS
<1>1. TypeOK
  BY TypeInit
<1>2. \A o \in Orders : OrderOK(o)
  BY DEF Init, OrderOK, Absent, NoLines
<1>3. /\ \A r \in Requests : SnapshotOK(req[r])
      /\ PatchesAreAlone
  BY IdleType DEF Init, SnapshotOK, PatchesAreAlone, OrderOps
<1>4. BudgetIsConserved
  <2> SUFFICES ASSUME NEW p \in Periods
               PROVE  budget[p].reserved + budget[p].spent
                        = SumOver(ConfirmedIn(p), [o \in Orders |-> po[o].total])
    BY DEF BudgetIsConserved
  <2>1. ConfirmedIn(p) = {}
    BY ConstantsOK DEF Init, ConfirmedIn, Absent
  <2>2. SumOver(ConfirmedIn(p), [o \in Orders |-> po[o].total]) = 0
    BY <2>1, SumEmpty
  <2>3. budget[p].reserved = 0 /\ budget[p].spent = 0
    BY DEF Init, NoBudget
  <2>4. QED
    BY <2>2, <2>3
<1>5. QED
  BY <1>1, <1>2, <1>3, <1>4 DEF IInv

-----------------------------------------------------------------------------
(* What a step does to the snapshots of the handlers. *)

\* The order o moved to its next version; everything else stayed.
Advanced(o) ==
  /\ \A x \in Orders \ {o} : po'[x] = po[x] /\ line'[x] = line[x]
  /\ po'[o].version = po[o].version + 1
  /\ po'[o].status # "absent"

\* A handler that is not patching o keeps a snapshot that is old or current.
LEMMA SnapshotSurvives ==
  ASSUME TypeOK, NEW o \in Orders, Advanced(o), NEW s \in Requests, SnapshotOK(req[s]),
         req'[s] = req[s], req[s].order = o => req[s].op # "patch"
  PROVE  SnapshotOK(req[s])'
<1>1. CASE req[s].op \notin OrderOps
  BY <1>1 DEF SnapshotOK
<1>2. CASE req[s].op \in OrderOps /\ req[s].order # o
  <2>1. req[s].order \in Orders \ {o}
    BY <1>2 DEF TypeOK
  <2>2. po'[req[s].order] = po[req[s].order] /\ line'[req[s].order] = line[req[s].order]
    BY <2>1 DEF Advanced
  <2>3. QED
    BY <2>2 DEF SnapshotOK
<1>3. CASE req[s].op \in OrderOps /\ req[s].order = o
  <2>1. req[s].po.version \in Nat /\ po[o].version \in Nat
    BY DEF TypeOK, Handlers, Header
  <2>2. req[s].po.version < po'[o].version
    BY <1>3, <2>1 DEF SnapshotOK, Advanced
  <2>3. QED
    BY <1>3, <2>1, <2>2 DEF SnapshotOK, Advanced
<1>4. QED
  BY <1>1, <1>2, <1>3

\* A handler that ends leaves nothing to check.
LEMMA IdleSnapshot ==
  ASSUME NEW r \in Requests, req'[r] = Idle
  PROVE  SnapshotOK(req[r])'
BY IdleType DEF SnapshotOK, OrderOps

\* Handlers that end leave fewer to overlap.
LEMMA AloneWhenIdle ==
  ASSUME PatchesAreAlone, \A s \in Requests : req'[s] = req[s] \/ req'[s] = Idle
  PROVE  PatchesAreAlone'
BY IdleType DEF PatchesAreAlone, OrderOps

\* With PatchAlone the snapshot of a handler that passes its claim, and that of a
\* patch, are the rows as they are.
LEMMA CurrentSnapshot ==
  ASSUME TypeOK, NEW r \in Requests, SnapshotOK(req[r]), req[r].op \in OrderOps,
         req[r].stage = "ready", req[r].po.version = po[req[r].order].version
  PROVE  /\ req[r].order \in Orders
         /\ req[r].po = po[req[r].order]
         /\ req[r].lines = line[req[r].order]
BY DEF SnapshotOK, TypeOK

-----------------------------------------------------------------------------
(* What a step does to the rows of the orders. *)

LEMMA OrderStays ==
  ASSUME NEW x \in Orders, OrderOK(x),
         po'[x] = po[x], line'[x] = line[x], stocked'[x] = stocked[x]
  PROVE  OrderOK(x)'
BY DEF OrderOK

LEMMA CreateOrderOK ==
  ASSUME TypeOK, NEW os \in SUBSET Orders, NEW p \in Periods,
         NEW q \in [os -> [Lines -> Orderable]], CreateOrders(os, q, p),
         \A o \in Orders : OrderOK(o), NEW x \in Orders
  PROVE  OrderOK(x)'
<1>1. CASE x \notin os
  BY <1>1, OrderStays DEF CreateOrders, TypeOK
<1>2. CASE x \in os
  <2>1. po[x].status = "absent" /\ line[x] = NoLines
    BY <1>2 DEF CreateOrders, OrderOK
  <2>2. \A l \in Lines : stocked'[x][l] = 0
    BY <2>1 DEF CreateOrders, OrderOK, NoLines
  <2>3. \A l \in Lines : q[x][l] \in Orderable
    BY <1>2
  <2>4. \A l \in Lines : q[x][l] \in Nat /\ q[x][l] > 0
    BY <2>3, ConstantsOK DEF Orderable
  <2>5. line'[x] = NewLines(q[x])
    BY <1>2 DEF CreateOrders
  <2>6. \A l \in Lines : /\ line'[x][l].ordered = q[x][l]
                         /\ line'[x][l].received = 0
                         /\ line'[x][l].cost = CostOf(l, q[x][l])
    BY <2>5 DEF NewLines
  <2>7. po'[x].status = "draft" /\ po'[x].total = TotalOf(line'[x])
    BY <1>2, <2>5 DEF CreateOrders
  <2>8. QED
    BY <2>2, <2>4, <2>6, <2>7 DEF OrderOK, CostOf, TotalOf
<1>3. QED
  BY <1>1, <1>2

\* An alone patch rewrites the rows it loaded, which are the order's.
LEMMA PatchRows ==
  ASSUME TypeOK, NEW r \in Requests, NEW up \in [Lines -> Orderable \cup {0}],
         NEW p \in Periods, Patch(r, up, p), SnapshotOK(req[r])
  PROVE  /\ req[r].order \in Orders
         /\ po[req[r].order].status = "draft"
         /\ line' = [line EXCEPT ![req[r].order] = Patched(line[req[r].order], up)]
         /\ po' = [po EXCEPT ![req[r].order] =
              [status |-> "draft", version |-> po[req[r].order].version + 1,
               total |-> TotalOf(Patched(line[req[r].order], up)),
               period |-> po[req[r].order].period]]
<1> DEFINE o == req[r].order
           new == Patched(req[r].lines, up)
<1>1. /\ o \in Orders /\ req[r].po = po[o] /\ req[r].lines = line[o]
      /\ req[r].po.status = "draft"
  <2>1. req[r].op = "patch" /\ req[r].stage = "ready" /\ "patch" \in OrderOps
    BY DEF Patch, Repriced, OrderOps
  <2>2. req[r].po.version = po[o].version /\ req[r].po.status = "draft"
    BY <2>1 DEF SnapshotOK
  <2>3. QED
    BY <2>1, <2>2, CurrentSnapshot
<1>2. Emit(po[o].total, req[r].po.total, TotalOf(new)) = TotalOf(new)
  BY <1>1 DEF Emit
<1>3. [l \in Lines |->
        [ordered  |-> Emit(line[o][l].ordered, req[r].lines[l].ordered, new[l].ordered),
         received |-> line[o][l].received,
         cost     |-> Emit(line[o][l].cost, req[r].lines[l].cost, new[l].cost)]] = new
  <2>1. line[o] \in Rows
    BY <1>1 DEF TypeOK
  <2>2. ASSUME NEW l \in Lines
        PROVE  [ordered  |-> Emit(line[o][l].ordered, req[r].lines[l].ordered, new[l].ordered),
                received |-> line[o][l].received,
                cost     |-> Emit(line[o][l].cost, req[r].lines[l].cost, new[l].cost)] = new[l]
    BY <1>1, <2>1 DEF Emit, Patched, Rows
  <2>3. QED
    BY <2>2 DEF Patched
<1>4. QED
  BY <1>1, <1>2, <1>3 DEF Patch, Repriced

LEMMA PatchAdvances ==
  ASSUME TypeOK, NEW r \in Requests, NEW up \in [Lines -> Orderable \cup {0}],
         NEW p \in Periods, Patch(r, up, p), SnapshotOK(req[r])
  PROVE  Advanced(req[r].order)
<1> DEFINE o == req[r].order
<1>1. po \in [Orders -> Header] /\ line \in [Orders -> Rows]
  BY DEF TypeOK
<1>2. /\ o \in Orders
      /\ line' = [line EXCEPT ![o] = Patched(line[o], up)]
      /\ po' = [po EXCEPT ![o] =
           [status |-> "draft", version |-> po[o].version + 1,
            total |-> TotalOf(Patched(line[o], up)), period |-> po[o].period]]
  BY PatchRows
<1> HIDE DEF o
<1>3. Advanced(o)
  BY <1>1, <1>2 DEF Advanced
<1>4. QED
  BY <1>3 DEF o

LEMMA PatchOrderOK ==
  ASSUME TypeOK, NEW r \in Requests, NEW up \in [Lines -> Orderable \cup {0}],
         NEW p \in Periods, Patch(r, up, p), SnapshotOK(req[r]),
         \A o \in Orders : OrderOK(o), NEW x \in Orders
  PROVE  OrderOK(x)'
<1> DEFINE o == req[r].order
<1>1. stocked' = stocked
  BY DEF Patch, Repriced
<1>2. CASE x # o
  BY <1>1, <1>2, PatchRows, OrderStays DEF TypeOK
<1>3. CASE x = o
  <2>1. /\ po[x].status = "draft"
        /\ line'[x] = Patched(line[x], up)
        /\ po'[x].status = "draft" /\ po'[x].total = TotalOf(line'[x])
    <3>1. po \in [Orders -> Header] /\ line \in [Orders -> Rows]
      BY DEF TypeOK
    <3>2. /\ po[x].status = "draft"
          /\ line' = [line EXCEPT ![x] = Patched(line[x], up)]
          /\ po' = [po EXCEPT ![x] =
               [status |-> "draft", version |-> po[x].version + 1,
                total |-> TotalOf(Patched(line[x], up)), period |-> po[x].period]]
      BY <1>3, PatchRows
    <3>3. QED
      BY <3>1, <3>2
  <2>2. \A l \in Lines : up[l] = 0 \/ (up[l] \in Nat /\ up[l] > 0)
    BY ConstantsOK DEF Orderable
  <2>3. \A l \in Lines : /\ stocked[x][l] = 0 /\ line[x][l].received = 0
                         /\ line[x][l].ordered \in Nat /\ line[x][l].ordered > 0
                         /\ line[x][l].cost = CostOf(l, line[x][l].ordered)
    BY <2>1 DEF OrderOK, TypeOK, Rows
  <2>4. \A l \in Lines : /\ line'[x][l].received = 0
                         /\ line'[x][l].ordered \in Nat /\ line'[x][l].ordered > 0
                         /\ line'[x][l].cost = CostOf(l, line'[x][l].ordered)
    BY <2>1, <2>2, <2>3 DEF Patched
  <2>5. QED
    BY <1>1, <2>1, <2>3, <2>4 DEF OrderOK, CostOf, TotalOf
<1>4. QED
  BY <1>2, <1>3

\* A confirmation that passes its claim confirms the order as it is.
LEMMA ConfirmRows ==
  ASSUME TypeOK, NEW r \in Requests, NEW p \in Periods, Confirm(r, p), SnapshotOK(req[r])
  PROVE  /\ req[r].order \in Orders
         /\ po[req[r].order].status = "draft"
         /\ req[r].lines = line[req[r].order]
         /\ po' = [po EXCEPT ![req[r].order] =
              [status |-> "ordered", version |-> po[req[r].order].version + 1,
               total |-> TotalOf(line[req[r].order]), period |-> p]]
<1>1. req[r].op \in OrderOps /\ req[r].stage = "ready"
  BY DEF Confirm, Confirmed, OrderOps
<1>2. req[r].po.version = po[req[r].order].version /\ po[req[r].order].status = "draft"
  BY DEF Confirm, Confirmed, ClaimConfirm
<1>3. QED
  BY <1>1, <1>2, CurrentSnapshot DEF Confirm, Confirmed

LEMMA ConfirmAdvances ==
  ASSUME TypeOK, NEW r \in Requests, NEW p \in Periods, Confirm(r, p), SnapshotOK(req[r])
  PROVE  Advanced(req[r].order)
<1> DEFINE o == req[r].order
<1>1. po \in [Orders -> Header] /\ line' = line
  BY DEF TypeOK, Confirm, Confirmed
<1>2. /\ o \in Orders
      /\ po' = [po EXCEPT ![o] = [status |-> "ordered", version |-> po[o].version + 1,
                                  total |-> TotalOf(line[o]), period |-> p]]
  BY ConfirmRows
<1> HIDE DEF o
<1>3. Advanced(o)
  BY <1>1, <1>2 DEF Advanced
<1>4. QED
  BY <1>3 DEF o

LEMMA ConfirmOrderOK ==
  ASSUME TypeOK, NEW r \in Requests, NEW p \in Periods, Confirm(r, p), SnapshotOK(req[r]),
         \A o \in Orders : OrderOK(o), NEW x \in Orders
  PROVE  OrderOK(x)'
<1> DEFINE o == req[r].order
<1>1. stocked' = stocked /\ line' = line
  BY DEF Confirm, Confirmed
<1>2. CASE x # o
  BY <1>1, <1>2, ConfirmRows, OrderStays DEF TypeOK
<1>3. CASE x = o
  <2>1. /\ po[x].status = "draft"
        /\ po'[x].status = "ordered" /\ po'[x].total = TotalOf(line[x])
    <3>1. po \in [Orders -> Header]
      BY DEF TypeOK
    <3>2. /\ po[x].status = "draft"
          /\ po' = [po EXCEPT ![x] =
               [status |-> "ordered", version |-> po[x].version + 1,
                total |-> TotalOf(line[x]), period |-> p]]
      BY <1>3, ConfirmRows
    <3>3. QED
      BY <3>1, <3>2
  <2>2. QED
    BY <1>1, <2>1 DEF OrderOK, CostOf, TotalOf
<1>4. QED
  BY <1>2, <1>3

LEMMA DeliverAdvances ==
  ASSUME TypeOK, NEW o \in Orders, NEW version, NEW seen, NEW got, Deliver(o, version, seen, got)
  PROVE  Advanced(o)
BY DEF Advanced, Deliver, TypeOK

\* A delivery computed from the order's own rows keeps them in agreement.
LEMMA DeliverOrderOK ==
  ASSUME TypeOK, NEW o \in Orders, NEW version, NEW got \in [Lines -> 0 .. MaxQty],
         Deliver(o, version, line[o], got),
         \A x \in Orders : OrderOK(x), NEW x \in Orders
  PROVE  OrderOK(x)'
<1>1. CASE x # o
  BY <1>1, OrderStays DEF Deliver, TypeOK
<1>2. CASE x = o
  <2> DEFINE received == [l \in Lines |-> line[o][l].received + got[l]]
             complete == \A l \in Lines : received[l] = line[o][l].ordered
  <2>1. \A l \in Lines : /\ got[l] \in Nat
                         /\ line[o][l].ordered \in Nat /\ line[o][l].received \in Nat
    BY ConstantsOK DEF TypeOK, Rows
  <2>2. po[o].status \in OpenStatus
    BY DEF Deliver, ClaimReceive
  <2>3. /\ po'[o].status = (IF complete THEN "received" ELSE "partially_received")
        /\ po'[o].total = po[o].total
    BY DEF Deliver, TypeOK
  <2>4. \A l \in Lines : /\ line'[o][l].ordered = line[o][l].ordered
                         /\ line'[o][l].cost = line[o][l].cost
                         /\ line'[o][l].received = line[o][l].received + got[l]
                         /\ stocked'[o][l] = stocked[o][l] + got[l]
    BY <2>1 DEF Deliver, TypeOK
  <2>5. TotalOf(line'[o]) = TotalOf(line[o])
    BY <2>4, SumSame DEF TotalOf
  <2>6. \A l \in Lines : got[l] # 0 => line[o][l].received + got[l] <= line[o][l].ordered
    BY DEF Deliver
  <2>7. \A l \in Lines : /\ stocked[o][l] = line[o][l].received
                         /\ line[o][l].received <= line[o][l].ordered
                         /\ line[o][l].ordered > 0
                         /\ line[o][l].cost = CostOf(l, line[o][l].ordered)
    BY <2>2 DEF OrderOK, OpenStatus
  <2>8. po[o].total = TotalOf(line[o])
    BY <2>2 DEF OrderOK, OpenStatus
  <2>9. \A l \in Lines : /\ stocked'[o][l] = line'[o][l].received
                         /\ line'[o][l].received <= line'[o][l].ordered
                         /\ line'[o][l].ordered > 0
                         /\ line'[o][l].cost = CostOf(l, line'[o][l].ordered)
    BY <2>1, <2>4, <2>6, <2>7
  <2>10. /\ po'[o].status = "received" =>
              \A l \in Lines : line'[o][l].received = line'[o][l].ordered
         /\ po'[o].status = "partially_received" =>
              \E l \in Lines : line'[o][l].received # line'[o][l].ordered
         /\ po'[o].status \in {"received", "partially_received"}
    BY <2>3, <2>4
  <2>11. po'[o].total = TotalOf(line'[o])
    BY <2>3, <2>5, <2>8
  <2>12. QED
    BY <1>2, <2>9, <2>10, <2>11 DEF OrderOK, CostOf, TotalOf
<1>3. QED
  BY <1>1, <1>2

-----------------------------------------------------------------------------
(* What a step does to the sums of the budget. *)

Totals == [o \in Orders |-> po[o].total]
Conserved(x) == Committed(x) = SumOver(ConfirmedIn(x), Totals)

LEMMA BudgetParts == BudgetIsConserved <=> \A x \in Periods : Conserved(x)
BY DEF BudgetIsConserved, Conserved, Committed, Totals

LEMMA BudgetPartsNext == (\A x \in Periods : Conserved(x)') => BudgetIsConserved'
BY DEF BudgetIsConserved, Conserved, Committed, Totals

LEMMA TotalsNat ==
  ASSUME TypeOK
  PROVE  \A o \in Orders : Totals[o] \in Nat
BY DEF Totals, TypeOK, Header

\* Nothing changes for a month whose orders and money stay.
LEMMA ConservedStays ==
  ASSUME NEW x \in Periods, Conserved(x), Committed(x)' = Committed(x),
         \A o \in Orders : po'[o].period = x <=> po[o].period = x,
         \A o \in Orders : po[o].period = x => po'[o].total = po[o].total
  PROVE  Conserved(x)'
<1>1. ConfirmedIn(x)' = ConfirmedIn(x)
  BY DEF ConfirmedIn
<1>2. \A o \in ConfirmedIn(x) : Totals'[o] = Totals[o]
  BY DEF ConfirmedIn, Totals
<1>3. SumOver(ConfirmedIn(x), Totals') = SumOver(ConfirmedIn(x), Totals)
  BY <1>2, SumSame
<1>4. QED
  BY <1>1, <1>3 DEF Conserved

\* Confirming an order adds its total on both sides.
LEMMA ConfirmConserves ==
  ASSUME TypeOK, TypeOK', NEW r \in Requests, NEW p \in Periods, Confirm(r, p),
         SnapshotOK(req[r]), NEW x \in Periods, Conserved(x)
  PROVE  Conserved(x)'
<1> DEFINE o == req[r].order
           total == TotalOf(line[o])
<1>1. /\ o \in Orders /\ po[o].status = "draft" /\ req[r].lines = line[o]
      /\ po' = [po EXCEPT ![o] = [status |-> "ordered", version |-> po[o].version + 1,
                                  total |-> total, period |-> p]]
  BY ConfirmRows
<1>2. po \in [Orders -> Header] /\ po[o].period = None
  BY <1>1 DEF TypeOK
<1>3. /\ po'[o].period = p /\ po'[o].total = total
      /\ \A y \in Orders \ {o} : po'[y] = po[y]
  BY <1>1, <1>2
<1>4. None # x
  BY ConstantsOK
<1>5. CASE x # p
  <2>1. Committed(x)' = Committed(x)
    BY <1>5, ConfirmMoney
  <2>2. QED
    BY <1>2, <1>3, <1>4, <1>5, <2>1, ConservedStays
<1>6. CASE x = p
  <2>1. Committed(x)' = Committed(x) + total
    BY <1>1, <1>6, ConfirmMoney
  <2>2. ConfirmedIn(x)' = ConfirmedIn(x) \cup {o} /\ o \notin ConfirmedIn(x)
    BY <1>1, <1>2, <1>3, <1>4, <1>6 DEF ConfirmedIn
  <2>3. \A y \in ConfirmedIn(x) : Totals[y] \in Nat /\ Totals[y] = Totals'[y]
    <3>1. \A y \in ConfirmedIn(x) : y \in Orders \ {o}
      BY <2>2, ConfirmedFinite
    <3>2. QED
      BY <1>3, <3>1, TotalsNat DEF Totals
  <2>4. Totals'[o] = total /\ Totals'[o] \in Nat
    BY <1>1, <1>3 DEF Totals, TypeOK, Header
  <2>5. SumOver(ConfirmedIn(x) \cup {o}, Totals') = SumOver(ConfirmedIn(x), Totals) + Totals'[o]
    <3> DEFINE S == ConfirmedIn(x)
               f == Totals
               g == Totals'
    <3>1. IsFiniteSet(S)
      BY ConfirmedFinite
    <3>2. o \notin S /\ (\A y \in S : f[y] \in Nat /\ f[y] = g[y]) /\ g[o] \in Nat
      BY <2>2, <2>3, <2>4
    <3> HIDE DEF S, f, g, o
    <3>3. SumOver(S \cup {o}, g) = SumOver(S, f) + g[o]
      BY <3>1, <3>2, SumAdd
    <3>4. QED
      BY <3>3 DEF S, f, g, o
  <2>6. QED
    BY <2>1, <2>2, <2>4, <2>5 DEF Conserved
<1>7. QED
  BY <1>5, <1>6

-----------------------------------------------------------------------------
(* Every action preserves the invariant. *)

LEMMA CreateInv ==
  ASSUME IInv, TypeOK', NEW os \in SUBSET Orders, NEW p \in Periods,
         NEW q \in [os -> [Lines -> Orderable]], CreateOrders(os, q, p)
  PROVE  IInv'
<1>1. \A x \in Orders : OrderOK(x)'
  BY CreateOrderOK DEF IInv
<1>2. \A x \in Orders : po[x].status # "absent" => po'[x] = po[x] /\ line'[x] = line[x]
  BY DEF CreateOrders
<1>3. ASSUME NEW s \in Requests
      PROVE  SnapshotOK(req[s])'
  <2>1. req'[s] = req[s] /\ SnapshotOK(req[s]) /\ TypeOK
    BY DEF IInv, CreateOrders
  <2>2. CASE req[s].op \in OrderOps
    <3>1. req[s].order \in Orders
      BY <2>1, <2>2 DEF TypeOK
    <3>2. po[req[s].order].status # "absent"
      BY <2>1, <2>2 DEF SnapshotOK
    <3>3. po'[req[s].order] = po[req[s].order] /\ line'[req[s].order] = line[req[s].order]
      BY <1>2, <3>1, <3>2
    <3>4. QED
      BY <2>1, <3>3 DEF SnapshotOK
  <2>3. CASE req[s].op \notin OrderOps
    BY <2>1, <2>3 DEF SnapshotOK
  <2>4. QED
    BY <2>2, <2>3
<1>4. PatchesAreAlone'
  BY DEF IInv, CreateOrders, PatchesAreAlone
<1>5. \A x \in Periods : Conserved(x)'
  <2> SUFFICES ASSUME NEW x \in Periods PROVE Conserved(x)'
    OBVIOUS
  <2>1. TypeOK /\ Conserved(x)
    BY BudgetParts DEF IInv
  <2>2. Committed(x)' = Committed(x)
    <3>1. budget' = [budget EXCEPT ![p] = BudgetRow(p)]
      BY DEF CreateOrders
    <3>2. QED
      BY <2>1, <3>1, RowKeepsMoney DEF Committed
  <2>3. None # x
    BY ConstantsOK
  <2>4. \A o \in os : po[o].period = None /\ po'[o].period = None
    BY <2>1 DEF TypeOK, CreateOrders
  <2>5. \A o \in Orders \ os : po'[o] = po[o]
    BY DEF CreateOrders
  <2>6. QED
    BY <2>1, <2>2, <2>3, <2>4, <2>5, ConservedStays
<1>6. QED
  BY <1>1, <1>3, <1>4, <1>5, BudgetPartsNext DEF IInv

\* The steps that only move a handler.
LEMMA RowsStay ==
  ASSUME IInv, TypeOK', UNCHANGED <<po, line, stocked, budget>>,
         \A s \in Requests : SnapshotOK(req[s])', PatchesAreAlone'
  PROVE  IInv'
<1>1. \A x \in Orders : OrderOK(x)'
  BY DEF IInv, OrderOK
<1>2. BudgetIsConserved'
  BY DEF IInv, BudgetIsConserved, ConfirmedIn
<1>3. QED
  BY <1>1, <1>2 DEF IInv

LEMMA ReadOrderInv ==
  ASSUME IInv, TypeOK', NEW r \in Requests, NEW op \in OrderOps, NEW o \in Orders,
         ReadOrder(r, op, o)
  PROVE  IInv'
<1> DEFINE h == Handler("order", op, o, po[o], NoLines, 0)
<1>1. /\ h.op = op /\ h.order = o /\ h.po = po[o] /\ h.stage = "order"
  BY DEF Handler
<1>2. req' = [req EXCEPT ![r] = h] /\ req \in [Requests -> Handlers]
  BY DEF ReadOrder, IInv, TypeOK
<1>3. po' = po /\ line' = line /\ po[o].version \in Nat /\ po[o].status # "absent"
  BY DEF ReadOrder, IInv, TypeOK, Header
<1> HIDE DEF h
<1>4. ASSUME NEW s \in Requests
      PROVE  SnapshotOK(req[s])'
  <2>1. CASE s = r
    BY <1>1, <1>2, <1>3, <2>1 DEF SnapshotOK
  <2>2. CASE s # r
    BY <1>2, <1>3, <2>2 DEF SnapshotOK, IInv
  <2>3. QED
    BY <2>1, <2>2
<1>5. PatchesAreAlone'
  <2>1. \A s \in Requests : req[s].op \in OrderOps /\ req[s].order = o =>
                              op # "patch" /\ req[s].op # "patch"
    BY DEF ReadOrder, MayStart, IInv
  <2>2. SUFFICES ASSUME NEW a \in Requests, NEW b \in Requests, req'[a].op = "patch",
                        req'[b].op \in OrderOps, req'[b].order = req'[a].order
                 PROVE  b = a
    BY DEF PatchesAreAlone
  <2>3. CASE a # r /\ b # r
    BY <1>2, <2>2, <2>3 DEF IInv, PatchesAreAlone
  <2>4. CASE a = r /\ b # r
    <3>1. op = "patch" /\ req[b].op \in OrderOps /\ req[b].order = o
      BY <1>1, <1>2, <2>2, <2>4
    <3>2. QED
      BY <2>1, <3>1
  <2>5. CASE a # r /\ b = r
    <3>1. req[a].op = "patch" /\ req[a].order = o
      BY <1>1, <1>2, <2>2, <2>5
    <3>2. QED
      BY <2>1, <3>1 DEF OrderOps
  <2>6. QED
    BY <2>3, <2>4, <2>5
<1>6. QED
  BY <1>4, <1>5, RowsStay DEF ReadOrder

LEMMA ReadLinesInv ==
  ASSUME IInv, TypeOK', NEW r \in Requests, ReadLines(r)
  PROVE  IInv'
<1> DEFINE h == Handler("ready", req[r].op, req[r].order, req[r].po, line[req[r].order], 0)
<1>1. /\ h.op = req[r].op /\ h.order = req[r].order /\ h.po = req[r].po
      /\ h.stage = "ready" /\ h.lines = line[req[r].order]
  BY DEF Handler
<1>2. req' = [req EXCEPT ![r] = h] /\ req \in [Requests -> Handlers]
  BY DEF ReadLines, Admitted, IInv, TypeOK
<1>3. po' = po /\ line' = line
  BY DEF ReadLines, Admitted
<1> HIDE DEF h
<1>4. ASSUME NEW s \in Requests
      PROVE  SnapshotOK(req[s])'
  <2>1. CASE s = r
    <3>1. SnapshotOK(req[r]) /\ req'[r] = h
      BY <1>2 DEF IInv
    <3>2. req[r].po.status \in IF req[r].op = "receive" THEN OpenStatus ELSE {"draft"}
      BY DEF ReadLines, Admitted
    <3>3. QED
      BY <1>1, <1>3, <2>1, <3>1, <3>2 DEF SnapshotOK
  <2>2. CASE s # r
    BY <1>2, <1>3, <2>2 DEF SnapshotOK, IInv
  <2>3. QED
    BY <2>1, <2>2
<1>5. PatchesAreAlone'
  <2>1. \A s \in Requests : req'[s].op = req[s].op /\ req'[s].order = req[s].order
    BY <1>1, <1>2
  <2>2. QED
    BY <2>1 DEF IInv, PatchesAreAlone
<1>6. QED
  BY <1>4, <1>5, RowsStay DEF ReadLines, Admitted

\* The steps that end a handler without touching the orders.
LEMMA EndInv ==
  ASSUME IInv, TypeOK', UNCHANGED <<po, line, stocked>>, NEW r \in Requests,
         req' = [req EXCEPT ![r] = Idle],
         \A x \in Periods : Committed(x)' = Committed(x)
  PROVE  IInv'
<1>1. \A x \in Orders : OrderOK(x)'
  BY DEF IInv, OrderOK
<1>2. ASSUME NEW s \in Requests
      PROVE  SnapshotOK(req[s])'
  <2>1. CASE s = r
    BY <2>1, IdleSnapshot DEF IInv, TypeOK
  <2>2. CASE s # r
    BY <2>2 DEF IInv, TypeOK, SnapshotOK
  <2>3. QED
    BY <2>1, <2>2
<1>3. PatchesAreAlone'
  BY AloneWhenIdle DEF IInv, TypeOK
<1>4. \A x \in Periods : Conserved(x)'
  BY BudgetParts, ConservedStays DEF IInv
<1>5. QED
  BY <1>1, <1>2, <1>3, <1>4, BudgetPartsNext DEF IInv

\* The steps that advance one order while no other handler patches it: what is
\* left to show is that its rows agree and the budget is conserved.
LEMMA AdvanceInv ==
  ASSUME IInv, TypeOK', NEW o \in Orders, Advanced(o),
         \A s \in Requests : req'[s] = Idle
                          \/ (req'[s] = req[s] /\ (req[s].order = o => req[s].op # "patch")),
         \A x \in Orders : OrderOK(x)', \A x \in Periods : Conserved(x)'
  PROVE  IInv'
<1>1. ASSUME NEW s \in Requests
      PROVE  SnapshotOK(req[s])'
  BY SnapshotSurvives, IdleSnapshot DEF IInv
<1>2. PatchesAreAlone'
  BY AloneWhenIdle DEF IInv
<1>3. QED
  BY <1>1, <1>2, BudgetPartsNext DEF IInv

LEMMA PatchInv ==
  ASSUME IInv, TypeOK', NEW r \in Requests, NEW up \in [Lines -> Orderable \cup {0}],
         NEW p \in Periods, Patch(r, up, p)
  PROVE  IInv'
<1> DEFINE o == req[r].order
<1>1. TypeOK /\ SnapshotOK(req[r]) /\ \A x \in Orders : OrderOK(x)
  BY DEF IInv
<1>2. /\ o \in Orders
      /\ po[o].status = "draft"
      /\ line' = [line EXCEPT ![o] = Patched(line[o], up)]
      /\ po' = [po EXCEPT ![o] =
           [status |-> "draft", version |-> po[o].version + 1,
            total |-> TotalOf(Patched(line[o], up)), period |-> po[o].period]]
  BY <1>1, PatchRows
<1>3. Advanced(o)
  BY <1>1, PatchAdvances
<1>4. \A s \in Requests : req'[s] = Idle
        \/ (req'[s] = req[s] /\ (req[s].order = o => req[s].op # "patch"))
  BY <1>1 DEF Patch, Repriced, IInv, TypeOK, PatchesAreAlone, OrderOps
<1>5. \A x \in Orders : OrderOK(x)'
  BY <1>1, PatchOrderOK
<1>6. ASSUME NEW x \in Periods
      PROVE  Conserved(x)'
  <2>1. Conserved(x)
    BY BudgetParts DEF IInv
  <2>2. Committed(x)' = Committed(x)
    <3>1. budget' = [budget EXCEPT ![p] = BudgetRow(p)]
      BY DEF Patch, Repriced
    <3>2. QED
      BY <1>1, <3>1, RowKeepsMoney DEF Committed
  <2>3. None # x /\ po[o].period = None
    BY <1>1, <1>2, ConstantsOK DEF TypeOK
  <2>4. po \in [Orders -> Header]
    BY <1>1 DEF TypeOK
  <2>5. po'[o].period = None /\ \A y \in Orders \ {o} : po'[y] = po[y]
    BY <1>2, <2>3, <2>4
  <2>6. QED
    BY <2>1, <2>2, <2>3, <2>5, ConservedStays
<1>7. QED
  BY <1>2, <1>3, <1>4, <1>5, <1>6, AdvanceInv

LEMMA ConfirmInv ==
  ASSUME IInv, TypeOK', NEW r \in Requests, NEW p \in Periods, Confirm(r, p)
  PROVE  IInv'
<1> DEFINE o == req[r].order
<1>1. TypeOK /\ SnapshotOK(req[r]) /\ \A x \in Orders : OrderOK(x)
  BY DEF IInv
<1>2. /\ o \in Orders
      /\ po' = [po EXCEPT ![o] = [status |-> "ordered", version |-> po[o].version + 1,
                                  total |-> TotalOf(line[o]), period |-> p]]
      /\ line' = line
  BY <1>1, ConfirmRows DEF Confirm, Confirmed
<1>3. Advanced(o)
  BY <1>1, ConfirmAdvances
<1>4. \A s \in Requests : req'[s] = Idle
        \/ (req'[s] = req[s] /\ (req[s].order = o => req[s].op # "patch"))
  BY <1>1 DEF Confirm, Confirmed, IInv, TypeOK, PatchesAreAlone, OrderOps
<1>5. \A x \in Orders : OrderOK(x)'
  BY <1>1, ConfirmOrderOK
<1>6. \A x \in Periods : Conserved(x)'
  BY <1>1, ConfirmConserves, BudgetParts DEF IInv
<1>7. QED
  BY <1>2, <1>3, <1>4, <1>5, <1>6, AdvanceInv

\* A delivery computed from the order's own rows, whoever makes it.
LEMMA DeliverInv ==
  ASSUME IInv, TypeOK', NEW o \in Orders, NEW version, NEW got \in [Lines -> 0 .. MaxQty],
         Deliver(o, version, line[o], got),
         \A s \in Requests : req'[s] = Idle
                          \/ (req'[s] = req[s] /\ (req[s].order = o => req[s].op # "patch"))
  PROVE  IInv'
<1>1. TypeOK /\ \A x \in Orders : OrderOK(x)
  BY DEF IInv
<1>2. Advanced(o)
  BY <1>1, DeliverAdvances
<1>3. \A x \in Orders : OrderOK(x)'
  BY <1>1, DeliverOrderOK
<1>4. ASSUME NEW x \in Periods
      PROVE  Conserved(x)'
  <2>1. Conserved(x)
    BY BudgetParts DEF IInv
  <2>2. Committed(x)' = Committed(x)
    BY <1>1, DeliverMoney
  <2>3. \A y \in Orders : po'[y].period = po[y].period /\ po'[y].total = po[y].total
    BY <1>1 DEF Deliver, TypeOK
  <2>4. QED
    BY <2>1, <2>2, <2>3, ConservedStays
<1>5. QED
  BY <1>2, <1>3, <1>4, AdvanceInv

LEMMA ReceiveInv ==
  ASSUME IInv, TypeOK', NEW r \in Requests, NEW got \in [Lines -> 0 .. MaxQty],
         Receive(r, got)
  PROVE  IInv'
<1> DEFINE o == req[r].order
<1>1. TypeOK /\ SnapshotOK(req[r])
  BY DEF IInv
<1>2. req[r].op = "receive" /\ req[r].stage = "ready" /\ req[r].op \in OrderOps
  BY DEF Receive, OrderOps
<1>3. po[o].version = req[r].po.version
  BY DEF Receive, Deliver, ClaimReceive
<1>4. o \in Orders /\ req[r].lines = line[o]
  BY <1>1, <1>2, <1>3, CurrentSnapshot
<1>5. Deliver(o, req[r].po.version, line[o], got)
  BY <1>4 DEF Receive
<1>6. \A s \in Requests : req'[s] = Idle
        \/ (req'[s] = req[s] /\ (req[s].order = o => req[s].op # "patch"))
  BY <1>1, <1>2 DEF Receive, IInv, TypeOK, PatchesAreAlone, OrderOps
<1>7. QED
  BY <1>4, <1>5, <1>6, DeliverInv

LEMMA KeyedReceiveInv ==
  ASSUME IInv, TypeOK', NEW o \in Orders, NEW got \in [Lines -> 0 .. MaxQty],
         KeyedReceive(o, got)
  PROVE  IInv'
<1>1. \A s \in Requests : req'[s] = req[s] /\ (req[s].order = o => req[s].op # "patch")
  BY DEF KeyedReceive, MayStart, IInv, TypeOK, OrderOps
<1>2. Deliver(o, po[o].version, line[o], got)
  BY DEF KeyedReceive
<1>3. QED
  BY <1>1, <1>2, DeliverInv

LEMMA WriteSettingsInv ==
  ASSUME IInv, TypeOK', NEW r \in Requests, NEW m \in Monthlies, NEW p \in Periods,
         WriteSettings(r, m, p)
  PROVE  IInv'
<1> DEFINE row == [open |-> TRUE, monthly |-> m,
                   reserved |-> BudgetRow(p).reserved, spent |-> BudgetRow(p).spent]
<1>1. budget' = [budget EXCEPT ![p] = row]
  BY DEF WriteSettings
<1>2. row.reserved = BudgetRow(p).reserved /\ row.spent = BudgetRow(p).spent
  OBVIOUS
<1> HIDE DEF row
<1>3. \A x \in Periods : Committed(x)' = Committed(x)
  BY <1>1, <1>2, RowKeepsMoney DEF Committed, IInv
<1>4. QED
  BY <1>3, EndInv DEF WriteSettings

LEMMA ReadSettingsInv ==
  ASSUME IInv, TypeOK', NEW r \in Requests, ReadSettings(r)
  PROVE  IInv'
<1> DEFINE h == Handler("ready", "settings", None, Absent, NoLines, storeMonthly)
<1>1. h.op = "settings"
  BY DEF Handler
<1>2. req' = [req EXCEPT ![r] = h] /\ req \in [Requests -> Handlers]
  BY DEF ReadSettings, IInv, TypeOK
<1> HIDE DEF h
<1>3. \A s \in Requests : SnapshotOK(req[s])'
  BY <1>1, <1>2 DEF ReadSettings, SnapshotOK, IInv, OrderOps
<1>4. PatchesAreAlone'
  BY <1>1, <1>2 DEF IInv, PatchesAreAlone, OrderOps
<1>5. QED
  BY <1>3, <1>4, RowsStay DEF ReadSettings

LEMMA InvStep == IInv /\ [Next]_vars => IInv'
<1> SUFFICES ASSUME IInv, [Next]_vars PROVE IInv'
  OBVIOUS
<1>1. TypeOK'
  BY TypeStep DEF IInv
<1>2. ASSUME NEW r \in Requests, Fail(r)
      PROVE  IInv'
  BY <1>1, <1>2, EndInv DEF Fail, Committed
<1>3. CASE UNCHANGED vars
  BY <1>3 DEF vars, IInv, TypeOK, OrderOK, SnapshotOK, PatchesAreAlone, BudgetIsConserved,
             ConfirmedIn
<1>4. QED
  BY <1>1, <1>2, <1>3, CreateInv, ReadOrderInv, ReadLinesInv, PatchInv, ConfirmInv,
     ReceiveInv, KeyedReceiveInv, ReadSettingsInv, WriteSettingsInv DEF Next

-----------------------------------------------------------------------------
(* The theorems. *)

LEMMA Invariant == PatchAlone => (Spec => []IInv)
<1> SUFFICES ASSUME PatchAlone PROVE Spec => []IInv
  OBVIOUS
<1>1. Init => IInv
  BY InvInit
<1>2. QED
  BY <1>1, InvStep, PTL DEF Spec

\* Optimistic locking works: when clients do not patch an order while another
\* request for it is in flight, a handler that would still pass its claim has
\* loaded the order as it is.
THEOREM SnapshotsAreSafe == PatchAlone => (Spec => []SnapshotsOfCurrentVersionAreCurrent)
<1>1. IInv => SnapshotsOfCurrentVersionAreCurrent
  BY DEF IInv, SnapshotOK, SnapshotsOfCurrentVersionAreCurrent
<1>2. QED
  BY <1>1, Invariant, PTL

\* Under the same discipline stock, received quantities and status agree, and
\* nothing beyond the ordered quantities is ever received.
THEOREM DeliveriesAreSafe == PatchAlone => (Spec => []DeliveriesMatchOrder)
<1>1. IInv => DeliveriesMatchOrder
  <2> SUFFICES ASSUME IInv, NEW o \in Orders
               PROVE  /\ stocked[o] = [l \in Lines |-> line[o][l].received]
                      /\ \A l \in Lines : line[o][l].received <= line[o][l].ordered
                      /\ po[o].status \in {"absent", "draft", "ordered"} =>
                           \A l \in Lines : line[o][l].received = 0
                      /\ po[o].status = "received" <=>
                           /\ po[o].status # "absent"
                           /\ po[o].period # None
                           /\ \A l \in Lines : line[o][l].received = line[o][l].ordered
    BY DEF DeliveriesMatchOrder
  <2>1. OrderOK(o) /\ TypeOK
    BY DEF IInv
  <2>2. stocked[o] = [l \in Lines |-> line[o][l].received]
    BY <2>1 DEF OrderOK, TypeOK
  <2>3. po[o].period = None <=> po[o].status \in {"absent", "draft"}
    BY <2>1 DEF TypeOK
  <2>4. po[o].status \in {"absent", "draft", "received", "ordered", "partially_received"}
    BY <2>1 DEF TypeOK, Header, OpenStatus
  <2>5. ASSUME po[o].status = "ordered"
        PROVE  \E l \in Lines : line[o][l].received # line[o][l].ordered
    <3>1. PICK l \in Lines : TRUE
      BY CostsOK
    <3>2. line[o][l].received = 0 /\ line[o][l].ordered > 0
      BY <2>1, <2>5 DEF OrderOK
    <3>3. QED
      BY <3>2
  <2>6. QED
    BY <2>1, <2>2, <2>3, <2>4, <2>5 DEF OrderOK
<1>2. QED
  BY <1>1, Invariant, PTL

\* Under the same discipline every unit of a confirmed total is reserved or spent.
THEOREM BudgetIsSafe == PatchAlone => (Spec => []BudgetIsConserved)
<1>1. IInv => BudgetIsConserved
  BY DEF IInv
<1>2. QED
  BY <1>1, Invariant, PTL

LEMMA VersionStep ==
  ASSUME IInv, [Next]_vars, NEW o \in Orders, po'[o] # po[o] \/ line'[o] # line[o]
  PROVE  po'[o].version = po[o].version + 1
<1>0. TypeOK /\ OrderOK(o) /\ \A r \in Requests : SnapshotOK(req[r])
  BY DEF IInv
<1>1. ASSUME NEW x \in Orders, Advanced(x)
      PROVE  po'[o].version = po[o].version + 1
  BY <1>1 DEF Advanced
<1>2. ASSUME NEW os \in SUBSET Orders, NEW p \in Periods,
             NEW q \in [os -> [Lines -> Orderable]], CreateOrders(os, q, p)
      PROVE  po'[o].version = po[o].version + 1
  <2>1. o \in os
    BY <1>2 DEF CreateOrders
  <2>2. po[o] = Absent /\ po'[o].version = 1
    BY <1>0, <1>2, <2>1 DEF CreateOrders, OrderOK
  <2>3. QED
    BY <2>2 DEF Absent
<1>3. ASSUME NEW r \in Requests, NEW up \in [Lines -> Orderable \cup {0}],
             NEW p \in Periods, Patch(r, up, p)
      PROVE  po'[o].version = po[o].version + 1
  BY <1>0, <1>1, <1>3, PatchRows, PatchAdvances
<1>4. ASSUME NEW r \in Requests, NEW p \in Periods, Confirm(r, p)
      PROVE  po'[o].version = po[o].version + 1
  BY <1>0, <1>1, <1>4, ConfirmRows, ConfirmAdvances
<1>5. ASSUME NEW r \in Requests, NEW got \in [Lines -> 0 .. MaxQty], Receive(r, got)
      PROVE  po'[o].version = po[o].version + 1
  <2>1. req[r].order \in Orders
    BY <1>0, <1>5 DEF Receive, TypeOK, OrderOps
  <2>2. QED
    BY <1>0, <1>1, <1>5, <2>1, DeliverAdvances DEF Receive
<1>6. ASSUME NEW x \in Orders, NEW got \in [Lines -> 0 .. MaxQty], KeyedReceive(x, got)
      PROVE  po'[o].version = po[o].version + 1
  BY <1>0, <1>1, <1>6, DeliverAdvances DEF KeyedReceive
<1>7. CASE UNCHANGED <<po, line>>
  BY <1>7
<1>8. QED
  BY <1>2, <1>3, <1>4, <1>5, <1>6, <1>7
  DEF Next, vars, ReadOrder, ReadLines, Fail, ReadSettings, WriteSettings

\* One winner per version: under the same discipline every change of an order or
\* of its lines moves its version to the next one.
THEOREM VersionsCount == PatchAlone => (Spec => VersionCountsChanges)
<1> DEFINE P == \A o \in Orders :
              po'[o] # po[o] \/ line'[o] # line[o] => po'[o].version = po[o].version + 1
<1>1. IInv /\ [Next]_vars => P
  BY VersionStep
<1> HIDE DEF P
<1>2. PatchAlone => (Spec => [][P]_vars)
  BY <1>1, Invariant, PTL DEF Spec
<1>3. QED
  BY <1>2 DEF P, VersionCountsChanges
LEMMA RankValues ==
  /\ Rank("absent") = 0 /\ Rank("draft") = 1 /\ Rank("ordered") = 2
  /\ Rank("partially_received") = 3 /\ Rank("received") = 4
BY DEF Rank

LEMMA RankStep ==
  ASSUME TypeOK, [Next]_vars, NEW o \in Orders
  PROVE  Rank(po[o].status) <= Rank(po'[o].status)
<1>0. /\ po \in [Orders -> Header]
      /\ po[o].status \in {"absent", "draft", "ordered", "partially_received", "received"}
  BY DEF TypeOK, Header, OpenStatus
<1>1. CASE po'[o].status = po[o].status
  BY <1>0, <1>1, RankValues
<1>2. ASSUME NEW os \in SUBSET Orders, NEW p \in Periods,
             NEW q \in [os -> [Lines -> Orderable]], CreateOrders(os, q, p)
      PROVE  Rank(po[o].status) <= Rank(po'[o].status)
  <2>1. po'[o].status = po[o].status \/ (po[o].status = "absent" /\ po'[o].status = "draft")
    BY <1>2 DEF CreateOrders
  <2>2. QED
    BY <1>1, <2>1, RankValues
<1>3. ASSUME NEW r \in Requests, NEW up \in [Lines -> Orderable \cup {0}],
             NEW p \in Periods, Patch(r, up, p)
      PROVE  po'[o].status = po[o].status
  <2>1. po' = [po EXCEPT ![req[r].order] =
                 Repriced(po[req[r].order], req[r].po, TotalOf(Patched(req[r].lines, up)))]
    BY <1>3 DEF Patch
  <2>2. QED
    BY <1>0, <2>1 DEF Repriced
<1>4. ASSUME NEW r \in Requests, NEW p \in Periods, Confirm(r, p)
      PROVE  Rank(po[o].status) <= Rank(po'[o].status)
  <2>1. po'[o].status = po[o].status \/ (po[o].status = "draft" /\ po'[o].status = "ordered")
    BY <1>0, <1>4 DEF Confirm, ClaimConfirm, Confirmed
  <2>2. QED
    BY <1>1, <2>1, RankValues
<1>5. ASSUME NEW x, NEW version, NEW seen, NEW got, Deliver(x, version, seen, got)
      PROVE  Rank(po[o].status) <= Rank(po'[o].status)
  <2>1. \/ po'[o].status = po[o].status
        \/ /\ po[o].status \in {"ordered", "partially_received"}
           /\ po'[o].status \in {"partially_received", "received"}
    BY <1>0, <1>5 DEF Deliver, ClaimReceive, OpenStatus
  <2>2. QED
    BY <1>1, <2>1, RankValues
<1>6. QED
  BY <1>1, <1>2, <1>3, <1>4, <1>5
  DEF Next, vars, ReadOrder, ReadLines, Fail, Receive, KeyedReceive, ReadSettings, WriteSettings

\* In every interleaving, patches that race with other requests included, an
\* order only moves forward through draft, ordered, partially_received, received.
THEOREM StatusMovesForward == Spec => StatusNeverGoesBack
<1> DEFINE P == \A o \in Orders : Rank(po[o].status) <= Rank(po'[o].status)
<1>1. TypeOK /\ [Next]_vars => P
  BY RankStep
<1> HIDE DEF P
<1>2. Spec => [][P]_vars
  BY <1>1, TypeCorrect, PTL DEF Spec
<1>3. QED
  BY <1>2 DEF P, StatusNeverGoesBack

LEMMA RewriteStep ==
  ASSUME IInv, [Next]_vars, NEW o \in Orders, po[o].status \notin {"absent", "draft"},
         NEW l \in Lines
  PROVE  line'[o][l].ordered = line[o][l].ordered
<1>0. TypeOK /\ \A r \in Requests : SnapshotOK(req[r])
  BY DEF IInv
<1>1. ASSUME NEW os \in SUBSET Orders, NEW p \in Periods,
             NEW q \in [os -> [Lines -> Orderable]], CreateOrders(os, q, p)
      PROVE  line'[o][l].ordered = line[o][l].ordered
  BY <1>1 DEF CreateOrders
<1>2. ASSUME NEW r \in Requests, NEW up \in [Lines -> Orderable \cup {0}],
             NEW p \in Periods, Patch(r, up, p)
      PROVE  line'[o][l].ordered = line[o][l].ordered
  <2>1. po[req[r].order].status = "draft"
    BY <1>0, <1>2, PatchRows
  <2>2. \E rows : line' = [line EXCEPT ![req[r].order] = rows]
    BY <1>2 DEF Patch
  <2>3. QED
    BY <1>0, <2>1, <2>2 DEF TypeOK
<1>3. ASSUME NEW x, NEW version, NEW seen, NEW got, Deliver(x, version, seen, got)
      PROVE  line'[o][l].ordered = line[o][l].ordered
  BY <1>0, <1>3 DEF Deliver, TypeOK
<1>4. QED
  BY <1>1, <1>2, <1>3
  DEF Next, vars, ReadOrder, ReadLines, Fail, Confirm, Confirmed, Receive, KeyedReceive,
      ReadSettings, WriteSettings

\* When clients do not patch an order while another request for it is in
\* flight, the quantities of an order change only while it is a draft.
THEOREM DraftsOnlyAreRewritten == PatchAlone => (Spec => OnlyDraftsAreRewritten)
<1> DEFINE P == \A o \in Orders : po[o].status \notin {"absent", "draft"} =>
                  \A l \in Lines : line'[o][l].ordered = line[o][l].ordered
<1>1. IInv /\ [Next]_vars => P
  BY RewriteStep
<1> HIDE DEF P
<1>2. PatchAlone => (Spec => [][P]_vars)
  BY <1>1, Invariant, PTL DEF Spec
<1>3. QED
  BY <1>2 DEF P, OnlyDraftsAreRewritten

-----------------------------------------------------------------------------
(* The reservation of a month covers what its orders have still to receive. *)

Outstandings == [o \in Orders |-> Outstanding(o)]
Covers(x) == SumOver(ConfirmedIn(x), Outstandings) <= budget[x].reserved

LEMMA CoversParts == ReservationCoversOutstanding <=> \A x \in Periods : Covers(x)
BY DEF ReservationCoversOutstanding, Covers, Outstandings

LEMMA CoversPartsNext == (\A x \in Periods : Covers(x)') => ReservationCoversOutstanding'
BY DEF ReservationCoversOutstanding, Covers, Outstandings

\* The fractions dropped of two parts are at least those dropped of the whole.
LEMMA CostSplit ==
  ASSUME NEW l \in Lines, NEW a \in Nat, NEW b \in Nat
  PROVE  CostOf(l, a) + CostOf(l, b) <= CostOf(l, a + b)
<1>1. UnitCost[l] \in Nat /\ Scale \in Nat \ {0}
  BY CostsOK
<1>2. a * UnitCost[l] \in Nat /\ b * UnitCost[l] \in Nat
  BY <1>1
<1>3. (a + b) * UnitCost[l] = a * UnitCost[l] + b * UnitCost[l]
  BY <1>1
<1>4. \A m, n \in Nat, d \in Nat \ {0} : (m \div d) + (n \div d) <= (m + n) \div d
  OBVIOUS
<1>5. QED
  BY <1>1, <1>2, <1>3, <1>4 DEF CostOf

\* What is still to come of an order, and what a delivery takes of it.
LEMMA OutstandingNat ==
  ASSUME TypeOK, NEW o \in Orders, OrderOK(o)
  PROVE  Outstanding(o) \in Nat
<1>1. \A l \in Lines : line[o][l].ordered - line[o][l].received \in Nat
  BY DEF OrderOK, TypeOK, Rows
<1>2. QED
  BY <1>1, CostOfAllNat DEF Outstanding

LEMMA DeliveryOutstanding ==
  ASSUME TypeOK, NEW o \in Orders, OrderOK(o), NEW version,
         NEW got \in [Lines -> 0 .. MaxQty], Deliver(o, version, line[o], got)
  PROVE  Outstanding(o)' + CostOfAll(got) <= Outstanding(o)
<1> DEFINE due == [l \in Lines |-> line[o][l].ordered - line[o][l].received]
           left == [l \in Lines |-> line'[o][l].ordered - line'[o][l].received]
           f == Costs(left)
           g == Costs(got)
           h == Costs(due)
           sum == [l \in Lines |-> f[l] + g[l]]
<1>1. \A l \in Lines : /\ got[l] \in Nat
                       /\ line[o][l].ordered \in Nat /\ line[o][l].received \in Nat
                       /\ line[o][l].received <= line[o][l].ordered
  BY ConstantsOK DEF TypeOK, Rows, OrderOK
<1>2. \A l \in Lines : /\ line'[o][l].ordered = line[o][l].ordered
                       /\ line'[o][l].received = line[o][l].received + got[l]
  BY <1>1 DEF Deliver, TypeOK
<1>3. \A l \in Lines : got[l] # 0 => line[o][l].received + got[l] <= line[o][l].ordered
  BY DEF Deliver
<1>4. \A l \in Lines : left[l] \in Nat /\ due[l] = left[l] + got[l]
  BY <1>1, <1>2, <1>3
<1>5. \A l \in Lines : /\ f[l] \in Nat /\ g[l] \in Nat /\ h[l] \in Nat
                       /\ f[l] + g[l] <= h[l]
  <2> SUFFICES ASSUME NEW l \in Lines
               PROVE  /\ CostOf(l, left[l]) \in Nat /\ CostOf(l, got[l]) \in Nat
                      /\ CostOf(l, due[l]) \in Nat
                      /\ CostOf(l, left[l]) + CostOf(l, got[l]) <= CostOf(l, due[l])
    BY DEF Costs
  <2>1. left[l] \in Nat /\ got[l] \in Nat /\ due[l] = left[l] + got[l] /\ due[l] \in Nat
    BY <1>1, <1>4
  <2> HIDE DEF left, due
  <2>2. QED
    BY <2>1, CostSplit, CostNat
<1> HIDE DEF left, due, f, g, h
<1>6. \A l \in Lines : sum[l] \in Nat /\ sum[l] = f[l] + g[l] /\ sum[l] <= h[l]
  BY <1>5
<1> HIDE DEF sum
<1>7. SumOver(Lines, sum) = SumOver(Lines, f) + SumOver(Lines, g)
  BY <1>5, <1>6, SumPlus, CostsOK
<1>8. SumOver(Lines, sum) <= SumOver(Lines, h)
  BY <1>5, <1>6, SumGrows, CostsOK
<1>9. SumOver(Lines, f) + SumOver(Lines, g) <= SumOver(Lines, h)
  BY <1>7, <1>8
<1>10. QED
  BY <1>9 DEF f, g, h, left, due, Outstanding, CostOfAll

\* Nothing changes for a month whose orders, rows and reservation stay.
LEMMA CoversStays ==
  ASSUME NEW x \in Periods, Covers(x), budget'[x].reserved = budget[x].reserved,
         ConfirmedIn(x)' = ConfirmedIn(x),
         \A o \in ConfirmedIn(x) : \A l \in Lines :
           /\ line'[o][l].ordered = line[o][l].ordered
           /\ line'[o][l].received = line[o][l].received
  PROVE  Covers(x)'
<1>1. ConfirmedIn(x) \subseteq Orders
  BY ConfirmedFinite
<1>2. ASSUME NEW o \in ConfirmedIn(x)
      PROVE  Outstandings'[o] = Outstandings[o]
  <2>1. [l \in Lines |-> line'[o][l].ordered - line'[o][l].received]
          = [l \in Lines |-> line[o][l].ordered - line[o][l].received]
    OBVIOUS
  <2>2. Outstanding(o)' = Outstanding(o)
    BY <2>1 DEF Outstanding
  <2>3. QED
    BY <1>1, <2>2 DEF Outstandings
<1>3. SumOver(ConfirmedIn(x), Outstandings') = SumOver(ConfirmedIn(x), Outstandings)
  BY <1>2, SumSame
<1>4. QED
  BY <1>3 DEF Covers

\* A confirmation reserves exactly what the order has still to receive.
LEMMA ConfirmCovers ==
  ASSUME IInv, NEW r \in Requests, NEW p \in Periods, Confirm(r, p),
         NEW x \in Periods, Covers(x)
  PROVE  Covers(x)'
<1> DEFINE o == req[r].order
           S == ConfirmedIn(x)
           f == Outstandings
           g == Outstandings'
<1>1. /\ TypeOK /\ SnapshotOK(req[r]) /\ (\A y \in Orders : OrderOK(y))
      /\ line' = line
  BY DEF IInv, Confirm
<1>2. o \in Orders /\ po[o].status = "draft" /\ req[r].lines = line[o]
  BY <1>1, ConfirmRows
<1>3. /\ x # p => budget'[x].reserved = budget[x].reserved
      /\ x = p => budget'[x].reserved = budget[x].reserved + TotalOf(line[o])
  BY <1>1, <1>2, ConfirmReserves
<1>4. ConfirmedIn(x)' = (IF x = p THEN S \cup {o} ELSE S) /\ o \notin S
  BY <1>1, ConfirmJoins
<1>5. CASE x # p
  BY <1>1, <1>3, <1>4, <1>5, CoversStays
<1>6. CASE x = p
  <2>1. Outstanding(o) = TotalOf(line[o])
    <3> DEFINE due == [l \in Lines |-> line[o][l].ordered - line[o][l].received]
               c == [l \in Lines |-> line[o][l].cost]
    <3>1. \A l \in Lines : /\ line[o][l].received = 0 /\ line[o][l].ordered \in Nat
                           /\ line[o][l].cost = CostOf(l, line[o][l].ordered)
      BY <1>1, <1>2 DEF OrderOK, TypeOK, Rows
    <3>2. \A l \in Lines : Costs(due)[l] = c[l]
      BY <3>1 DEF Costs
    <3>3. SumOver(Lines, Costs(due)) = SumOver(Lines, c)
      BY <3>2, SumSame
    <3>4. QED
      BY <3>3 DEF Outstanding, CostOfAll, TotalOf
  <2>2. g = f
    BY <1>1 DEF Outstandings, Outstanding
  <2>3. f[o] = TotalOf(line[o]) /\ \A y \in Orders : f[y] \in Nat
    BY <1>1, <1>2, <2>1, OutstandingNat DEF Outstandings
  <2>4. IsFiniteSet(S) /\ S \subseteq Orders /\ budget[x].reserved \in Nat
    BY <1>1, ConfirmedFinite, BudgetRowType
  <2> HIDE DEF S, f, g, o
  <2>5. SumOver(S \cup {o}, f) = SumOver(S, f) + f[o]
    <3>1. /\ IsFiniteSet(S) /\ o \notin S /\ f[o] \in Nat
          /\ \A y \in S : f[y] \in Nat /\ f[y] = f[y]
      BY <1>2, <1>4, <2>3, <2>4
    <3>2. QED
      BY <3>1, SumAdd
  <2>6. SumOver(S, f) \in Nat
    BY <2>3, <2>4, SumNat
  <2>7. SumOver(S, f) <= budget[x].reserved
    BY DEF Covers, S, f
  <2>8. SumOver(S \cup {o}, g) <= budget'[x].reserved
    BY <1>2, <1>3, <1>6, <2>2, <2>3, <2>4, <2>5, <2>6, <2>7
  <2>9. QED
    BY <1>4, <1>6, <2>8 DEF Covers, S, g
<1>7. QED
  BY <1>5, <1>6

\* A delivery releases no more of the reservation than it took off the order.
LEMMA DeliverCovers ==
  ASSUME IInv, IInv', NEW o \in Orders, NEW version, NEW got \in [Lines -> 0 .. MaxQty],
         Deliver(o, version, line[o], got),
         NEW x \in Periods, Covers(x), ConfirmedIn(x)' = ConfirmedIn(x)
  PROVE  Covers(x)'
<1> DEFINE S == ConfirmedIn(x)
           f == Outstandings
           g == Outstandings'
<1>1. TypeOK /\ TypeOK' /\ (\A y \in Orders : OrderOK(y)) /\ (\A y \in Orders : OrderOK(y)')
  BY DEF IInv
<1>2. \A y \in Orders : y # o => line'[y] = line[y]
  BY <1>1 DEF Deliver, TypeOK
<1>3. /\ po[o].period \in Periods
      /\ CostOfAll(got) \in Nat /\ budget[x].reserved \in Nat
      /\ x = po[o].period => budget'[x].reserved = budget[x].reserved - CostOfAll(got)
      /\ x # po[o].period => budget'[x].reserved = budget[x].reserved
  BY <1>1, DeliverMoves
<1>4. IsFiniteSet(S) /\ S \subseteq Orders
  BY ConfirmedFinite
<1>5. CASE x # po[o].period
  <2>1. \A y \in S : line'[y] = line[y]
    BY <1>2, <1>5 DEF ConfirmedIn
  <2>2. QED
    BY <1>3, <1>5, <2>1, CoversStays
<1>6. CASE x = po[o].period
  <2>1. o \in S
    BY <1>6 DEF ConfirmedIn
  <2>2. g[o] + CostOfAll(got) <= f[o]
    BY <1>1, DeliveryOutstanding DEF Outstandings
  <2>3. \A y \in Orders : f[y] \in Nat /\ g[y] \in Nat
    <3>1. \A y \in Orders : Outstanding(y) \in Nat
      BY <1>1, OutstandingNat
    <3>2. ASSUME NEW y \in Orders PROVE Outstanding(y)' \in Nat
      <4>1. \A l \in Lines : line'[y][l].ordered - line'[y][l].received \in Nat
        BY <1>1 DEF OrderOK, TypeOK, Rows
      <4>2. QED
        BY <4>1, CostOfAllNat DEF Outstanding
    <3>3. QED
      BY <3>1, <3>2 DEF Outstandings
  <2>4. \A y \in S \ {o} : f[y] = g[y]
    BY <1>2, <1>4 DEF Outstandings, Outstanding
  <2> HIDE DEF S, f, g
  <2>5. SumOver(S, g) - g[o] = SumOver(S, f) - f[o]
    BY <1>4, <2>1, <2>3, <2>4, SumChange
  <2>6. SumOver(S, f) \in Nat /\ SumOver(S, g) \in Nat
    BY <1>4, <2>3, SumNat
  <2>7. SumOver(S, f) <= budget[x].reserved
    BY DEF Covers, S, f
  <2>8. SumOver(S, g) <= budget'[x].reserved
    BY <1>3, <1>6, <2>2, <2>3, <2>5, <2>6, <2>7
  <2>9. QED
    BY <2>8 DEF Covers, S, g
<1>7. QED
  BY <1>5, <1>6

\* Every other step leaves the quantities of the confirmed orders.
LEMMA QuietLines ==
  ASSUME IInv, [Next]_vars, ~ Delivers, NEW x \in Periods, NEW o \in ConfirmedIn(x),
         NEW l \in Lines
  PROVE  line'[o][l].ordered = line[o][l].ordered /\ line'[o][l].received = line[o][l].received
<1>1. TypeOK /\ (\A r \in Requests : SnapshotOK(req[r]))
  BY DEF IInv
<1>2. o \in Orders /\ po[o].status \notin {"absent", "draft"}
  <2>1. o \in Orders /\ po[o].period # None
    BY ConfirmedFinite, ConstantsOK DEF ConfirmedIn
  <2>2. QED
    BY <1>1, <2>1 DEF TypeOK
<1>3. ASSUME NEW os \in SUBSET Orders, NEW p \in Periods,
             NEW q \in [os -> [Lines -> Orderable]], CreateOrders(os, q, p)
      PROVE  line'[o] = line[o]
  BY <1>2, <1>3 DEF CreateOrders
<1>4. ASSUME NEW r \in Requests, NEW up \in [Lines -> Orderable \cup {0}],
             NEW p \in Periods, Patch(r, up, p)
      PROVE  line'[o] = line[o]
  <2> DEFINE d == req[r].order
  <2>1. /\ d \in Orders /\ po[d].status = "draft"
        /\ line' = [line EXCEPT ![d] = Patched(line[d], up)]
    BY <1>1, <1>4, PatchRows
  <2>2. o # d
    BY <1>2, <2>1
  <2> HIDE DEF d
  <2>3. QED
    BY <1>1, <1>2, <2>1, <2>2 DEF TypeOK
<1>5. CASE UNCHANGED line
  BY <1>5
<1>6. QED
  BY <1>3, <1>4, <1>5
  DEF Next, vars, ReadOrder, ReadLines, Fail, Confirm, ReadSettings, WriteSettings, Delivers

LEMMA CoversStep ==
  ASSUME IInv, IInv', ReservationCoversOutstanding, [Next]_vars
  PROVE  ReservationCoversOutstanding'
<1>1. TypeOK /\ (\A r \in Requests : SnapshotOK(req[r]))
  BY DEF IInv
<1> SUFFICES ASSUME NEW x \in Periods PROVE Covers(x)'
  BY CoversPartsNext
<1>2. Covers(x)
  BY CoversParts
<1>3. CASE Confirms
  BY <1>2, <1>3, ConfirmCovers DEF Confirms
<1>4. CASE ~ Confirms /\ Delivers
  <2>1. ConfirmedIn(x)' = ConfirmedIn(x)
    BY <1>1, <1>4, QuietConfirmed
  <2>2. ASSUME NEW r \in Requests, NEW got \in [Lines -> 0 .. MaxQty], Receive(r, got)
        PROVE  Covers(x)'
    <3>1. /\ req[r].op \in OrderOps /\ req[r].stage = "ready"
          /\ req[r].po.version = po[req[r].order].version
      BY <2>2 DEF Receive, Deliver, ClaimReceive, OrderOps
    <3>2. req[r].order \in Orders /\ req[r].lines = line[req[r].order]
      BY <1>1, <3>1, CurrentSnapshot
    <3>3. Deliver(req[r].order, req[r].po.version, line[req[r].order], got)
      BY <2>2, <3>2 DEF Receive
    <3>4. QED
      BY <1>2, <2>1, <3>2, <3>3, DeliverCovers
  <2>3. ASSUME NEW o \in Orders, NEW got \in [Lines -> 0 .. MaxQty], KeyedReceive(o, got)
        PROVE  Covers(x)'
    BY <1>2, <2>1, <2>3, DeliverCovers DEF KeyedReceive
  <2>4. QED
    BY <1>4, <2>2, <2>3 DEF Delivers
<1>5. CASE ~ Confirms /\ ~ Delivers
  <2>1. ConfirmedIn(x)' = ConfirmedIn(x)
    BY <1>1, <1>5, QuietConfirmed
  <2>2. budget'[x].reserved = budget[x].reserved
    BY <1>1, <1>5, QuietMoney
  <2>3. QED
    BY <1>2, <1>5, <2>1, <2>2, QuietLines, CoversStays
<1>6. QED
  BY <1>3, <1>4, <1>5

\* Under the same discipline a month's reservation covers the goods its orders
\* have still to receive, so no delivery of ordered goods is refused for want of
\* budget (the check `Budget reservation khong du').
THEOREM ReservationSuffices == PatchAlone => (Spec => []ReservationCoversOutstanding)
<1> SUFFICES ASSUME PatchAlone PROVE Spec => []ReservationCoversOutstanding
  OBVIOUS
<1>1. Init => ReservationCoversOutstanding
  <2> SUFFICES ASSUME Init, NEW x \in Periods PROVE Covers(x)
    BY CoversParts
  <2>1. ConfirmedIn(x) = {}
    BY ConstantsOK DEF Init, ConfirmedIn, Absent
  <2>2. SumOver(ConfirmedIn(x), Outstandings) = 0
    BY <2>1, SumEmpty
  <2>3. budget[x].reserved = 0
    BY DEF Init, NoBudget
  <2>4. QED
    BY <2>2, <2>3 DEF Covers
<1>2. Spec => []IInv
  BY Invariant
<1>3. IInv /\ IInv' /\ ReservationCoversOutstanding /\ [Next]_vars => ReservationCoversOutstanding'
  BY CoversStep
<1>4. QED
  BY <1>1, <1>2, <1>3, PTL DEF Spec

-----------------------------------------------------------------------------
(* The ledger's variables, as ImplementsLedger maps them. *)

\* An order's cost in the ledger is the total of its rows.
LEMMA LedgerCost ==
  ASSUME TypeOK, NEW o \in Orders, OrderOK(o), po[o].status # "absent"
  PROVE  CostOfAll(ShownOrders[o].ordered) = TotalOf(line[o])
<1> DEFINE q == [l \in Lines |-> line[o][l].ordered]
           f == [l \in Lines |-> line[o][l].cost]
<1>1. ShownOrders[o].ordered = q
  BY DEF ShownOrders, Shown
<1>2. \A l \in Lines : Costs(q)[l] = f[l]
  BY DEF OrderOK, Costs
<1>3. SumOver(Lines, Costs(q)) = SumOver(Lines, f)
  BY <1>2, SumSame
<1>4. QED
  BY <1>1, <1>3 DEF CostOfAll, TotalOf

\* Writing a month's row changes no month's budget when it keeps this one's.
LEMMA MonthlyStays ==
  ASSUME TypeOK, NEW p \in Periods, NEW row, row.open = TRUE,
         row.monthly = BudgetRow(p).monthly,
         budget' = [budget EXCEPT ![p] = row], UNCHANGED storeMonthly
  PROVE  UNCHANGED ShownMonthly
<1>1. budget \in [Periods -> Budgets]
  BY DEF TypeOK
<1>2. ASSUME NEW x \in Periods
      PROVE  BudgetRow(x)'.monthly = BudgetRow(x).monthly
  <2>1. CASE x = p
    <3>1. budget'[x] = row
      BY <1>1, <2>1
    <3>2. QED
      BY <2>1, <3>1 DEF BudgetRow
  <2>2. CASE x # p
    <3>1. budget'[x] = budget[x]
      BY <1>1, <2>2
    <3>2. QED
      BY <3>1 DEF BudgetRow, NewBudgetRow
  <2>3. QED
    BY <2>1, <2>2
<1>3. QED
  BY <1>2 DEF ShownMonthly

\* Opening a month's row shows nothing new.
LEMMA OpeningShowsNothing ==
  ASSUME TypeOK, NEW p \in Periods, budget' = [budget EXCEPT ![p] = BudgetRow(p)],
         UNCHANGED storeMonthly
  PROVE  UNCHANGED <<ShownMonthly, ShownReserved, ShownSpent>>
<1>1. \A x \in Periods : /\ budget'[x].reserved = budget[x].reserved
                         /\ budget'[x].spent = budget[x].spent
  BY RowKeepsMoney
<1>2. BudgetRow(p).open = TRUE
  BY BudgetRowType DEF OpenBudgets
<1>3. UNCHANGED ShownMonthly
  BY <1>2, MonthlyStays
<1>4. QED
  BY <1>1, <1>3 DEF ShownReserved, ShownSpent

\* A step that keeps the rows keeps the orders shown.
LEMMA SameOrders ==
  ASSUME UNCHANGED <<po, line>>
  PROVE  UNCHANGED ShownOrders
BY DEF ShownOrders

-----------------------------------------------------------------------------
(* Every operation of the handlers is one of the ledger. *)

LEMMA CreateDrafts ==
  ASSUME IInv, NEW os \in SUBSET Orders, NEW p \in Periods,
         NEW q \in [os -> [Lines -> Orderable]], CreateOrders(os, q, p)
  PROVE  Ledger!Draft
<1>1. TypeOK /\ \A o \in Orders : OrderOK(o)
  BY DEF IInv
<1>2. UNCHANGED <<ShownMonthly, ShownReserved, ShownSpent>>
  BY <1>1, OpeningShowsNothing DEF CreateOrders
<1>3. ASSUME NEW o \in Orders, ShownOrders'[o] # ShownOrders[o]
      PROVE  /\ ShownOrders[o].status = "absent"
             /\ ShownOrders'[o].ordered \in [Lines -> Nat]
             /\ ShownOrders'[o] = Ledger!Order("draft", ShownOrders'[o].ordered,
                                              Ledger!Nothing, None)
  <2>1. o \in os
    BY <1>3 DEF ShownOrders, CreateOrders
  <2>2. po[o] = Absent /\ line[o] = NoLines
    BY <1>1, <2>1 DEF CreateOrders, OrderOK
  <2>3. /\ po'[o].status = "draft" /\ po'[o].period = None
        /\ line'[o] = NewLines(q[o])
    BY <2>1 DEF CreateOrders
  <2>4. \A l \in Lines : line'[o][l].ordered = q[o][l] /\ line'[o][l].received = 0
    BY <2>3 DEF NewLines
  <2>5. \A l \in Lines : q[o][l] \in Nat
    BY <2>1, OrderableNat
  <2>6. ShownOrders[o] = [status |-> "absent", ordered |-> [l \in Lines |-> 0],
                          received |-> [l \in Lines |-> 0], period |-> None]
    BY <2>2 DEF ShownOrders, Shown, Absent, NoLines
  <2>7. ShownOrders'[o] = [status |-> "draft", ordered |-> [l \in Lines |-> q[o][l]],
                           received |-> [l \in Lines |-> 0], period |-> None]
    BY <2>3, <2>4 DEF ShownOrders, Shown
  <2>8. ShownOrders'[o].ordered \in [Lines -> Nat]
    BY <2>5, <2>7
  <2>9. ShownOrders[o].status = "absent"
    BY <2>6
  <2>10. ShownOrders'[o] = Ledger!Order("draft", ShownOrders'[o].ordered,
                                        Ledger!Nothing, None)
    BY <2>7 DEF Ledger!Order, Ledger!Nothing
  <2>11. QED
    BY <2>8, <2>9, <2>10
<1>4. ShownOrders' = [o \in Orders |-> ShownOrders'[o]]
  BY DEF ShownOrders
<1>5. QED
  BY <1>2, <1>3, <1>4
  DEF Ledger!Draft, Ledger!Quantities
\* A step that touches one order's rows changes nothing else shown of the orders.
LEMMA OneOrderShown ==
  ASSUME NEW o \in Orders, \A x \in Orders \ {o} : po'[x] = po[x] /\ line'[x] = line[x]
  PROVE  ShownOrders' = [ShownOrders EXCEPT ![o] = Shown(po'[o], line'[o])]
<1>1. \A x \in Orders : x # o => ShownOrders'[x] = ShownOrders[x]
  BY DEF ShownOrders, Shown
<1>2. ShownOrders'[o] = Shown(po'[o], line'[o])
  BY DEF ShownOrders, Shown
<1>3. /\ ShownOrders = [x \in Orders |-> ShownOrders[x]]
      /\ ShownOrders' = [x \in Orders |-> ShownOrders'[x]]
  BY DEF ShownOrders
<1>4. QED
  BY <1>1, <1>2, <1>3

LEMMA PatchRedrafts ==
  ASSUME IInv, NEW r \in Requests, NEW up \in [Lines -> Orderable \cup {0}],
         NEW p \in Periods, Patch(r, up, p)
  PROVE  \E o \in Orders : Ledger!Redraft(o)
<1>0. PICK o \in Orders : o = req[r].order
  BY PatchRows DEF IInv
<1>1. TypeOK /\ SnapshotOK(req[r]) /\ \A x \in Orders : OrderOK(x)
  BY DEF IInv
<1>2. UNCHANGED <<ShownMonthly, ShownReserved, ShownSpent>>
  BY <1>1, OpeningShowsNothing DEF Patch, Repriced
<1>3. /\ po[o].status = "draft"
      /\ po'[o].status = "draft" /\ po'[o].period = po[o].period
      /\ line'[o] = Patched(line[o], up)
      /\ \A x \in Orders \ {o} : po'[x] = po[x] /\ line'[x] = line[x]
  <2>1. po \in [Orders -> Header] /\ line \in [Orders -> Rows]
    BY <1>1 DEF TypeOK
  <2>2. /\ po[o].status = "draft"
        /\ line' = [line EXCEPT ![o] = Patched(line[o], up)]
        /\ po' = [po EXCEPT ![o] =
             [status |-> "draft", version |-> po[o].version + 1,
              total |-> TotalOf(Patched(line[o], up)), period |-> po[o].period]]
    BY <1>0, <1>1, PatchRows
  <2>3. QED
    BY <2>1, <2>2
<1>4. /\ \A l \in Lines : line'[o][l].received = line[o][l].received
      /\ \A l \in Lines : line'[o][l].ordered \in Nat
  <2>1. line[o] \in Rows
    BY <1>1, <1>3 DEF TypeOK
  <2>2. Patched(line[o], up) \in Rows
    BY <2>1, PatchedType
  <2>3. \A l \in Lines : Patched(line[o], up)[l].received = line[o][l].received
    BY <2>1 DEF Patched, Rows
  <2>4. QED
    BY <1>3, <2>2, <2>3 DEF Rows
<1>5. ShownOrders' = [ShownOrders EXCEPT ![o] = Shown(po'[o], line'[o])]
  BY <1>3, OneOrderShown
<1>6. /\ ShownOrders'[o].ordered = [l \in Lines |-> line'[o][l].ordered]
      /\ ShownOrders[o].received = [l \in Lines |-> line[o][l].received]
      /\ ShownOrders[o].period = po[o].period
      /\ ShownOrders[o].status = "draft"
  BY <1>3 DEF ShownOrders, Shown
<1>7. Shown(po'[o], line'[o])
        = Ledger!Order("draft", ShownOrders'[o].ordered, ShownOrders[o].received,
                       ShownOrders[o].period)
  BY <1>3, <1>4, <1>6 DEF Shown, Ledger!Order
<1>8. ShownOrders'[o].ordered \in [Lines -> Nat]
  BY <1>4, <1>6
<1>9. Ledger!Redraft(o)
  BY <1>2, <1>5, <1>6, <1>7, <1>8
  DEF Ledger!Redraft, Ledger!Quantities
<1>10. QED
  BY <1>9
LEMMA ConfirmCommits ==
  ASSUME IInv, NEW r \in Requests, NEW p \in Periods, Confirm(r, p)
  PROVE  \E o \in Orders : Ledger!Commit(o, p)
<1>0. PICK o \in Orders : o = req[r].order
  BY ConfirmRows DEF IInv
<1> DEFINE total == TotalOf(line[o])
           b == BudgetRow(p)
           row == [open |-> TRUE, monthly |-> b.monthly,
                   reserved |-> b.reserved + total, spent |-> b.spent]
<1>1. TypeOK /\ SnapshotOK(req[r]) /\ OrderOK(o)
  BY DEF IInv
<1>2. /\ po[o].status = "draft" /\ req[r].lines = line[o]
      /\ po' = [po EXCEPT ![o] = [status |-> "ordered", version |-> po[o].version + 1,
                                  total |-> total, period |-> p]]
  BY <1>0, <1>1, ConfirmRows
<1>3. /\ line' = line /\ storeMonthly' = storeMonthly
      /\ total <= b.monthly - b.reserved - b.spent
      /\ budget' = [budget EXCEPT ![p] = row]
  BY <1>2 DEF Confirm, Confirmed, Remaining
<1>4. /\ po'[o].status = "ordered" /\ po'[o].period = p
      /\ \A x \in Orders \ {o} : po'[x] = po[x] /\ line'[x] = line[x]
  BY <1>1, <1>2, <1>3 DEF TypeOK
<1>5. UNCHANGED ShownMonthly
  <2>1. row.open = TRUE /\ row.monthly = BudgetRow(p).monthly
    OBVIOUS
  <2> HIDE DEF row
  <2>2. QED
    BY <1>1, <1>3, <2>1, MonthlyStays
<1>6. /\ ShownReserved' = [ShownReserved EXCEPT ![p] = @ + total]
      /\ UNCHANGED ShownSpent
  <2>1. b.reserved = budget[p].reserved /\ b.spent = budget[p].spent
    BY <1>1, BudgetRowType
  <2>2. row.reserved = budget[p].reserved + total /\ row.spent = budget[p].spent
    BY <2>1
  <2> HIDE DEF row
  <2>3. \A x \in Periods : budget'[x] = IF x = p THEN row ELSE budget[x]
    BY <1>1, <1>3 DEF TypeOK
  <2>4. QED
    BY <2>2, <2>3 DEF ShownReserved, ShownSpent
<1>7. CostOfAll(ShownOrders[o].ordered) = total
  BY <1>1, <1>2, LedgerCost
<1>8. total <= ShownMonthly[p] - ShownReserved[p] - ShownSpent[p]
  <2>1. b.reserved = budget[p].reserved /\ b.spent = budget[p].spent
    BY <1>1, BudgetRowType
  <2>2. QED
    BY <1>3, <2>1 DEF ShownMonthly, ShownReserved, ShownSpent
<1>9. ShownOrders' = [ShownOrders EXCEPT ![o] =
         Ledger!Order("ordered", ShownOrders[o].ordered, ShownOrders[o].received, p)]
  <2>1. ShownOrders' = [ShownOrders EXCEPT ![o] = Shown(po'[o], line'[o])]
    BY <1>4, OneOrderShown
  <2>2. Shown(po'[o], line'[o])
          = Ledger!Order("ordered", ShownOrders[o].ordered, ShownOrders[o].received, p)
    BY <1>3, <1>4 DEF ShownOrders, Shown, Ledger!Order
  <2>3. QED
    BY <2>1, <2>2
<1>10. ShownOrders[o].status = "draft"
  BY <1>2 DEF ShownOrders, Shown
<1>11. Ledger!Commit(o, p)
  BY <1>5, <1>6, <1>7, <1>8, <1>9, <1>10
  DEF Ledger!Commit
<1>12. QED
  BY <1>11

LEMMA DeliverSettles ==
  ASSUME IInv, NEW o \in Orders, NEW version, NEW got \in [Lines -> 0 .. MaxQty],
         Deliver(o, version, line[o], got)
  PROVE  Ledger!Settle(o, Ledger!Arrived(o))
<1> DEFINE p == po[o].period
           b == BudgetRow(p)
           cost == CostOfAll(got)
           row == [open |-> TRUE, monthly |-> b.monthly,
                   reserved |-> b.reserved - cost, spent |-> b.spent + cost]
           received == [l \in Lines |-> line[o][l].received + got[l]]
           complete == \A l \in Lines : received[l] = line[o][l].ordered
<1>1. TypeOK /\ OrderOK(o)
  BY DEF IInv
<1>2. /\ po[o].status \in OpenStatus
      /\ storeMonthly' = storeMonthly
      /\ budget' = [budget EXCEPT ![p] = row]
  BY DEF Deliver, ClaimReceive
<1>3. p \in Periods
  BY <1>1, <1>2 DEF TypeOK, Header, OpenStatus
<1>4. \A l \in Lines : /\ got[l] \in Nat
                       /\ line[o][l].received \in Nat /\ line[o][l].ordered \in Nat
  BY <1>1, ConstantsOK DEF TypeOK, Rows
<1>5. /\ po'[o].status = IF complete THEN "received" ELSE "partially_received"
      /\ po'[o].period = p
      /\ \A x \in Orders \ {o} : po'[x] = po[x] /\ line'[x] = line[x]
  BY <1>1 DEF Deliver, TypeOK
<1>6. /\ \A l \in Lines : line'[o][l].ordered = line[o][l].ordered
      /\ \A l \in Lines : line'[o][l].received = received[l]
  BY <1>1, <1>4 DEF Deliver, TypeOK
<1>7. \A l \in Lines : received[l] <= line[o][l].ordered
  BY <1>1, <1>4 DEF Deliver, OrderOK
<1>8. UNCHANGED ShownMonthly
  <2>1. row.open = TRUE /\ row.monthly = BudgetRow(p).monthly
    OBVIOUS
  <2> HIDE DEF row, p
  <2>2. QED
    BY <1>1, <1>2, <1>3, <2>1, MonthlyStays
<1>9. /\ ShownReserved' = [ShownReserved EXCEPT ![p] = @ - cost]
      /\ ShownSpent' = [ShownSpent EXCEPT ![p] = @ + cost]
  <2>1. b.reserved = budget[p].reserved /\ b.spent = budget[p].spent
    BY <1>1, <1>3, BudgetRowType
  <2>2. row.reserved = budget[p].reserved - cost /\ row.spent = budget[p].spent + cost
    BY <2>1
  <2> HIDE DEF row
  <2>3. \A x \in Periods : budget'[x] = IF x = p THEN row ELSE budget[x]
    BY <1>1, <1>2 DEF TypeOK
  <2>4. QED
    BY <2>2, <2>3 DEF ShownReserved, ShownSpent
<1>10. /\ ShownOrders[o].status = po[o].status
       /\ ShownOrders[o].period = p
       /\ ShownOrders[o].ordered = [l \in Lines |-> line[o][l].ordered]
       /\ ShownOrders[o].received = [l \in Lines |-> line[o][l].received]
       /\ ShownOrders'[o].received = received
  BY <1>6 DEF ShownOrders, Shown
<1>11. Ledger!Arrived(o) = got
  <2>1. \A l \in Lines : received[l] - line[o][l].received = got[l]
    BY <1>4
  <2>2. Ledger!Arrived(o)
          = [l \in Lines |-> ShownOrders'[o].received[l] - ShownOrders[o].received[l]]
    BY DEF Ledger!Arrived
  <2>3. QED
    BY <1>10, <2>1, <2>2
<1>12. ShownOrders' = [ShownOrders EXCEPT ![o] =
          Ledger!Order(IF received = ShownOrders[o].ordered
                       THEN "received" ELSE "partially_received",
                       ShownOrders[o].ordered, received, p)]
  <2>1. ShownOrders' = [ShownOrders EXCEPT ![o] = Shown(po'[o], line'[o])]
    BY <1>5, OneOrderShown
  <2>2. complete <=> received = ShownOrders[o].ordered
    BY <1>10
  <2>3. Shown(po'[o], line'[o])
          = Ledger!Order(IF received = ShownOrders[o].ordered
                         THEN "received" ELSE "partially_received",
                         ShownOrders[o].ordered, received, p)
    BY <1>5, <1>6, <1>10, <2>2 DEF Shown, Ledger!Order
  <2>4. QED
    BY <2>1, <2>3
<1>13. [l \in Lines |-> ShownOrders[o].received[l] + got[l]] = received
  BY <1>10
<1>14. QED
  BY <1>2, <1>7, <1>8, <1>9, <1>10, <1>11, <1>12, <1>13
  DEF Ledger!Settle, OpenStatus
LEMMA SettingsRebudget ==
  ASSUME IInv, NEW r \in Requests, NEW m \in Monthlies, NEW p \in Periods,
         WriteSettings(r, m, p)
  PROVE  Ledger!Rebudget
<1> DEFINE row == [open |-> TRUE, monthly |-> m,
                   reserved |-> BudgetRow(p).reserved, spent |-> BudgetRow(p).spent]
<1>1. TypeOK /\ TypeOK'
  BY TypeStep DEF IInv, Next
<1>2. budget' = [budget EXCEPT ![p] = row] /\ UNCHANGED <<po, line>>
  BY DEF WriteSettings
<1>3. row.reserved = BudgetRow(p).reserved /\ row.spent = BudgetRow(p).spent
  OBVIOUS
<1> HIDE DEF row
<1>4. UNCHANGED <<ShownReserved, ShownSpent>>
  BY <1>1, <1>2, <1>3, RowKeepsMoney DEF ShownReserved, ShownSpent
<1>5. \A x \in Periods : BudgetRow(x)'.monthly \in Nat
  <2>1. storeMonthly' \in Nat /\ budget' \in [Periods -> Budgets]
    BY <1>1 DEF TypeOK
  <2>2. ASSUME NEW x \in Periods
        PROVE  budget'[x].monthly \in Nat
    <3>1. budget'[x] \in OpenBudgets \/ budget'[x] = NoBudget
      BY <2>1 DEF Budgets
    <3>2. \A b : b \in OpenBudgets => b.monthly \in Nat
      BY DEF OpenBudgets
    <3>3. NoBudget.monthly \in Nat
      BY DEF NoBudget
    <3>4. QED
      BY <3>1, <3>2, <3>3
  <2>3. QED
    BY <2>1, <2>2 DEF BudgetRow, NewBudgetRow
<1>6. ShownMonthly' \in [Periods -> Nat]
  BY <1>5 DEF ShownMonthly
<1>7. QED
  BY <1>2, <1>4, <1>6, SameOrders DEF Ledger!Rebudget

\* A handler that only reads shows nothing.
LEMMA ReadingShowsNothing ==
  ASSUME UNCHANGED <<po, line, budget, storeMonthly>>
  PROVE  UNCHANGED Ledger!ledger
<1>1. \A p \in Periods : BudgetRow(p)' = BudgetRow(p)
  BY DEF BudgetRow, NewBudgetRow
<1>2. UNCHANGED <<ShownMonthly, ShownReserved, ShownSpent>>
  BY <1>1 DEF ShownMonthly, ShownReserved, ShownSpent
<1>3. QED
  BY <1>2, SameOrders DEF Ledger!ledger

-----------------------------------------------------------------------------
(* The theorem. *)

LEMMA LedgerInit == Init => Ledger!Init
<1> SUFFICES ASSUME Init PROVE Ledger!Init
  OBVIOUS
<1>1. ShownOrders = [o \in Orders |->
                       Ledger!Order("absent", Ledger!Nothing, Ledger!Nothing, None)]
  BY DEF Init, ShownOrders, Shown, Absent, NoLines, Ledger!Order, Ledger!Nothing
<1>2. ShownMonthly \in [Periods -> Nat]
  <2>1. storeMonthly \in Nat
    BY ConstantsOK DEF Init
  <2>2. \A p \in Periods : BudgetRow(p).monthly = storeMonthly
    BY DEF Init, BudgetRow, NewBudgetRow, NoBudget
  <2>3. QED
    BY <2>1, <2>2 DEF ShownMonthly
<1>3. /\ ShownReserved = [p \in Periods |-> 0]
      /\ ShownSpent = [p \in Periods |-> 0]
  BY DEF Init, NoBudget, ShownReserved, ShownSpent
<1>4. QED
  BY <1>1, <1>2, <1>3 DEF Ledger!Init

LEMMA LedgerStep == IInv /\ [Next]_vars => [Ledger!Next]_(Ledger!ledger)
<1> SUFFICES ASSUME IInv, [Next]_vars PROVE [Ledger!Next]_(Ledger!ledger)
  OBVIOUS
<1>1. ASSUME NEW r \in Requests, NEW got \in [Lines -> 0 .. MaxQty], Receive(r, got)
      PROVE  \E o \in Orders : Ledger!Settle(o, Ledger!Arrived(o))
  <2>1. /\ req[r].op \in OrderOps /\ req[r].stage = "ready"
        /\ Deliver(req[r].order, req[r].po.version, req[r].lines, got)
    BY <1>1 DEF Receive, OrderOps
  <2>2. req[r].order \in Orders /\ req[r].lines = line[req[r].order]
    BY <2>1, CurrentSnapshot DEF IInv, Deliver, ClaimReceive
  <2>3. PICK o \in Orders : o = req[r].order
    BY <2>2
  <2>4. Deliver(o, req[r].po.version, line[o], got)
    BY <2>1, <2>2, <2>3
  <2>5. QED
    BY <2>4, DeliverSettles
<1>2. ASSUME NEW o \in Orders, NEW got \in [Lines -> 0 .. MaxQty], KeyedReceive(o, got)
      PROVE  Ledger!Settle(o, Ledger!Arrived(o))
  BY <1>2, DeliverSettles DEF KeyedReceive
<1>3. CASE UNCHANGED <<po, line, budget, storeMonthly>>
  BY <1>3, ReadingShowsNothing
<1>4. QED
  BY <1>1, <1>2, <1>3, CreateDrafts, PatchRedrafts, ConfirmCommits, SettingsRebudget
  DEF Next, vars, ReadOrder, ReadLines, Fail, ReadSettings, Ledger!Next

\* The concurrent handlers do what the ledger says, one operation at a time:
\* when clients do not patch an order while another request for it is in
\* flight, every step of a handler is one operation of the ledger or a stutter.
THEOREM HandlersImplementLedger == PatchAlone => (Spec => ImplementsLedger)
<1>1. PatchAlone => (Spec => Ledger!Spec)
  BY LedgerInit, LedgerStep, Invariant, PTL DEF Spec, Ledger!Spec
<1>2. QED
  BY <1>1 DEF ImplementsLedger
=============================================================================
