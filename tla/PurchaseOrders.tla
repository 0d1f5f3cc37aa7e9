--------------------------- MODULE PurchaseOrders ---------------------------
(***************************************************************************)
(* Purchase orders and the monthly budget of one store: the method `po' of *)
(* CompletionService and its settings write, as concurrent HTTP handlers   *)
(* over one SQLite database.                                               *)
(*                                                                         *)
(* A handler reads first and writes later.  Its SELECTs each see the state *)
(* committed at that moment; its first UPDATE takes the database's only    *)
(* write lock, and from there to the commit nobody else writes and nobody  *)
(* sees what it wrote.  So a handler is: read the order's row, read its    *)
(* lines, then one step that locks, checks, writes and commits, or rolls   *)
(* everything back.  What it read is its snapshot (`req'), and the writes  *)
(* are computed from the snapshot, not from the row's current values.      *)
(*                                                                         *)
(* Quantities are whole quanta, Scale of them to one unit, so that the     *)
(* truncation int(quantity * unit_cost) of fractional quantities shows.    *)
(* Lots, audit rows and response bodies are left to other modules.         *)
(***************************************************************************)
EXTENDS PurchaseCosts

CONSTANTS
  Orders,      \* purchase orders that may be created
  Requests,    \* handlers that may be in flight at the same time
  Periods,     \* calendar months of budget_periods
  None,        \* no month (order not confirmed), no order (handler idle)
  MaxQty,      \* largest quantity a client sends, in quanta
  Moq, Pack,   \* minimum quantity and pack size of a line, in quanta
  Monthlies,   \* values clients put in monthly_budget
  MaxVersion,  \* bound on the version a patch may write
  PatchAlone   \* TRUE when no client patches an order while another
               \* request for that order is in flight

ASSUME ConstantsOK ==
  /\ IsFiniteSet(Orders)
  /\ None \notin Periods \cup Orders
  /\ MaxQty \in Nat /\ Moq \in Nat /\ Pack \in Nat \ {0}
  /\ Monthlies \subseteq Nat /\ MaxVersion \in Nat
  /\ PatchAlone \in BOOLEAN

VARIABLES
  po,            \* purchase_orders: status, version, total, month confirmed in
  line,          \* purchase_order_lines of each order
  stocked,       \* per line, sum of the receipt movements it put in stock
  budget,        \* budget_periods: open is FALSE while the row does not exist
  storeMonthly,  \* store_settings.monthly_budget
  req            \* the handlers in flight and their snapshots

vars == <<po, line, stocked, budget, storeMonthly, req>>

OrderOps == {"patch", "confirm", "receive"}
OpenStatus == {"ordered", "partially_received"}

\* The quantities a line may be ordered in, and the total of an order's rows.
Orderable == {q \in 1 .. MaxQty : q >= Moq /\ q % Pack = 0}
TotalOf(rows) == SumOver(Lines, [l \in Lines |-> rows[l].cost])

NoLines == [l \in Lines |-> [ordered |-> 0, received |-> 0, cost |-> 0]]
NewLines(q) ==
  [l \in Lines |-> [ordered |-> q[l], received |-> 0, cost |-> CostOf(l, q[l])]]

Absent == [status |-> "absent", version |-> 0, total |-> 0, period |-> None]

\* A handler: how far it got, what it is for, and what it has loaded so far.
Handler(stage, op, o, header, rows, monthly) ==
  [stage |-> stage, op |-> op, order |-> o,
   po |-> header, lines |-> rows, monthly |-> monthly]
Idle == Handler("idle", "none", None, Absent, NoLines, 0)

\* An UPDATE sets only the columns that differ from what the session loaded.
Emit(stored, loaded, new) == IF new = loaded THEN stored ELSE new

NoBudget == [open |-> FALSE, monthly |-> 0, reserved |-> 0, spent |-> 0]

NewBudgetRow(p) == [open |-> TRUE, monthly |-> storeMonthly, reserved |-> 0, spent |-> 0]

\* The budget row of month p, created from the store's settings if missing.
BudgetRowOfSettings(p) ==
  IF budget[p].open /\ budget[p].monthly = storeMonthly THEN budget[p]
  ELSE NewBudgetRow(p)
BudgetRow(p) ==
  IF budget[p].open THEN budget[p]
  ELSE NewBudgetRow(p)

RemainingOfMonthly(b) == b.monthly - b.reserved
RemainingOfSettings(b) == storeMonthly - b.reserved - b.spent
Remaining(b) == b.monthly - b.reserved - b.spent

\* With PatchAlone, a patch of o and any other request for o do not overlap.
MayStart(op, o) ==
  PatchAlone => \A s \in Requests :
    req[s].op \in OrderOps /\ req[s].order = o => op # "patch" /\ req[s].op # "patch"

Init ==
  /\ po = [o \in Orders |-> Absent]
  /\ line = [o \in Orders |-> NoLines]
  /\ stocked = [o \in Orders |-> [l \in Lines |-> 0]]
  /\ budget = [p \in Periods |-> NoBudget]
  /\ storeMonthly \in Monthlies
  /\ req = [r \in Requests |-> Idle]

-----------------------------------------------------------------------------
\* One request creates an order per supplier of its lines.  The budget is only
\* quoted (budget_after), never checked: p is today's month.
CreateOrders(os, q, p) ==
  /\ os # {}
  /\ \A o \in os : po[o].status = "absent"
  /\ po' = [o \in Orders |->
              IF o \in os
              THEN [status |-> "draft", version |-> 1,
                    total |-> TotalOf(NewLines(q[o])), period |-> None]
              ELSE po[o]]
  /\ line' = [o \in Orders |-> IF o \in os THEN NewLines(q[o]) ELSE line[o]]
  /\ budget' = [budget EXCEPT ![p] = BudgetRow(p)]
  /\ UNCHANGED <<stocked, storeMonthly, req>>

\* The handler loads the order's row and finds the version the client sent.
ReadOrder(r, op, o) ==
  /\ req[r].stage = "idle"
  /\ po[o].status # "absent"
  /\ MayStart(op, o)
  /\ req' = [req EXCEPT ![r] = Handler("order", op, o, po[o], NoLines, 0)]
  /\ UNCHANGED <<po, line, stocked, budget, storeMonthly>>

\* The status each operation asks for.
Admitted(op) == IF op = "receive" THEN OpenStatus ELSE {"draft"}

\* The handler loads the lines, then checks the status of the row it loaded.
ReadLines(r) ==
  LET o == req[r].order IN
  /\ req[r].stage = "order"
  /\ req[r].po.status \in Admitted(req[r].op)
  /\ req' = [req EXCEPT ![r] = Handler("ready", req[r].op, o, req[r].po, line[o], 0)]
  /\ UNCHANGED <<po, line, stocked, budget, storeMonthly>>

\* Any refusal, lost claim, lock timeout or crash: everything is rolled back.
Fail(r) ==
  /\ req[r].stage # "idle"
  /\ req' = [req EXCEPT ![r] = Idle]
  /\ UNCHANGED <<po, line, stocked, budget, storeMonthly>>

\* The rows a patch leaves in the session: up[l] = 0 for a line it does not name.
PatchedKeepsCost(rows, up) ==
  [l \in Lines |-> [rows[l] EXCEPT !.ordered = IF up[l] = 0 THEN @ ELSE up[l]]]
Patched(rows, up) ==
  [l \in Lines |-> IF up[l] = 0 THEN rows[l]
                   ELSE [ordered |-> up[l], received |-> rows[l].received,
                         cost |-> CostOf(l, up[l])]]

\* The order's row after a patch of the loaded row `seen'.
Repriced(stored, seen, total) ==
  [status |-> stored.status, version |-> seen.version + 1,
   total |-> Emit(stored.total, seen.total, total), period |-> stored.period]

\* Patch writes by primary key alone: nothing compares the version again.
Patch(r, up, p) ==
  LET o == req[r].order
      seen == req[r].lines
      new == Patched(seen, up)
  IN
  /\ req[r].stage = "ready" /\ req[r].op = "patch"
  /\ \E l \in Lines : up[l] # 0
  /\ req[r].po.version < MaxVersion
  /\ line' = [line EXCEPT ![o] = [l \in Lines |->
       [ordered  |-> Emit(line[o][l].ordered, seen[l].ordered, new[l].ordered),
        received |-> line[o][l].received,
        cost     |-> Emit(line[o][l].cost, seen[l].cost, new[l].cost)]]]
  /\ po' = [po EXCEPT ![o] = Repriced(po[o], req[r].po, TotalOf(new))]
  /\ budget' = [budget EXCEPT ![p] = BudgetRow(p)]
  /\ req' = [req EXCEPT ![r] = Idle]
  /\ UNCHANGED <<stocked, storeMonthly>>

\* The conditional UPDATE: one row matches the expected version and status.
ClaimUnconditionally(o, version) == po[o].status # "absent"
ClaimStatusOnly(o, version) == po[o].status \in OpenStatus
ClaimConfirm(o, version) == po[o].version = version /\ po[o].status = "draft"
ClaimReceive(o, version) == po[o].version = version /\ po[o].status \in OpenStatus

\* The order's row once confirmed.
ConfirmedNoBump(stored, total, p) ==
  [status |-> "ordered", version |-> stored.version, total |-> total, period |-> p]
Confirmed(stored, total, p) ==
  [status |-> "ordered", version |-> stored.version + 1, total |-> total, period |-> p]

\* p is the month of the client's confirmed_at.
Confirm(r, p) ==
  LET o == req[r].order
      total == TotalOf(req[r].lines)
      b == BudgetRow(p)
  IN
  /\ req[r].stage = "ready" /\ req[r].op = "confirm"
  /\ ClaimConfirm(o, req[r].po.version)
  /\ total <= Remaining(b)
  /\ po' = [po EXCEPT ![o] = Confirmed(po[o], total, p)]
  /\ budget' = [budget EXCEPT ![p] =
       [open |-> TRUE, monthly |-> b.monthly,
        reserved |-> b.reserved + total, spent |-> b.spent]]
  /\ req' = [req EXCEPT ![r] = Idle]
  /\ UNCHANGED <<line, stocked, storeMonthly>>

\* A delivery of got[l] quanta of each line, computed from the loaded rows.
Deliver(o, version, seen, got) ==
  LET p == po[o].period
      b == BudgetRow(p)
      cost == CostOfAll(got)
      received == [l \in Lines |-> seen[l].received + got[l]]
      complete == \A l \in Lines : received[l] = seen[l].ordered
  IN
  /\ ClaimReceive(o, version)
  /\ \E l \in Lines : got[l] # 0
  /\ \A l \in Lines : got[l] # 0 => received[l] <= seen[l].ordered
  /\ cost <= b.reserved
  /\ line' = [line EXCEPT ![o] = [l \in Lines |->
       [ordered  |-> line[o][l].ordered,
        received |-> IF got[l] = 0 THEN line[o][l].received ELSE received[l],
        cost     |-> line[o][l].cost]]]
  /\ stocked' = [stocked EXCEPT ![o] = [l \in Lines |-> stocked[o][l] + got[l]]]
  /\ budget' = [budget EXCEPT ![p] =
       [open |-> TRUE, monthly |-> b.monthly,
        reserved |-> b.reserved - cost, spent |-> b.spent + cost]]
  /\ po' = [po EXCEPT ![o] =
       [status  |-> IF complete THEN "received" ELSE "partially_received",
        version |-> po[o].version + 1, total |-> po[o].total, period |-> p]]
  /\ UNCHANGED storeMonthly

Receive(r, got) ==
  /\ req[r].stage = "ready" /\ req[r].op = "receive"
  /\ Deliver(req[r].order, req[r].po.version, req[r].lines, got)
  /\ req' = [req EXCEPT ![r] = Idle]

\* With an Idempotency-Key the handler's first statement is the INSERT of the
\* key, so it reads and writes under the lock.  A replayed key changes nothing.
KeyedReceive(o, got) ==
  /\ MayStart("receive", o)
  /\ Deliver(o, po[o].version, line[o], got)
  /\ UNCHANGED req

\* PUT settings: read the row, later set it and this month's budget.
ReadSettings(r) ==
  /\ req[r].stage = "idle"
  /\ req' = [req EXCEPT ![r] =
                Handler("ready", "settings", None, Absent, NoLines, storeMonthly)]
  /\ UNCHANGED <<po, line, stocked, budget, storeMonthly>>

WriteSettings(r, m, p) ==
  /\ req[r].stage = "ready" /\ req[r].op = "settings"
  /\ storeMonthly' = Emit(storeMonthly, req[r].monthly, m)
  /\ budget' = [budget EXCEPT ![p] =
       [open |-> TRUE, monthly |-> m,
        reserved |-> BudgetRow(p).reserved, spent |-> BudgetRow(p).spent]]
  /\ req' = [req EXCEPT ![r] = Idle]
  /\ UNCHANGED <<po, line, stocked>>

Next ==
  \/ \E os \in SUBSET Orders, p \in Periods :
       \E q \in [os -> [Lines -> Orderable]] : CreateOrders(os, q, p)
  \/ \E r \in Requests :
       \/ \E op \in OrderOps, o \in Orders : ReadOrder(r, op, o)
       \/ ReadLines(r)
       \/ Fail(r)
       \/ \E up \in [Lines -> Orderable \cup {0}], p \in Periods : Patch(r, up, p)
       \/ \E p \in Periods : Confirm(r, p)
       \/ \E got \in [Lines -> 0 .. MaxQty] : Receive(r, got)
       \/ ReadSettings(r)
       \/ \E m \in Monthlies, p \in Periods : WriteSettings(r, m, p)
  \/ \E o \in Orders : \E got \in [Lines -> 0 .. MaxQty] : KeyedReceive(o, got)

Spec == Init /\ [][Next]_vars

-----------------------------------------------------------------------------
Header == [status : {"absent", "draft", "received"} \cup OpenStatus, version : Nat,
           total : Nat, period : Periods \cup {None}]
Rows == [Lines -> [ordered : Nat, received : Nat, cost : Nat]]
OpenBudgets == [open : {TRUE}, monthly : Nat, reserved : Nat, spent : Nat]
Budgets == OpenBudgets \cup {NoBudget}
Handlers ==
  [stage : {"idle", "order", "ready"}, op : OrderOps \cup {"none", "settings"},
   order : Orders \cup {None}, po : Header, lines : Rows, monthly : Nat]

TypeOK ==
  /\ po \in [Orders -> Header]
  /\ \A o \in Orders : po[o].period = None <=> po[o].status \in {"absent", "draft"}
  /\ line \in [Orders -> Rows]
  /\ stocked \in [Orders -> [Lines -> Nat]]
  /\ budget \in [Periods -> Budgets]
  /\ storeMonthly \in Nat
  /\ req \in [Requests -> Handlers]
  /\ \A r \in Requests :
       /\ req[r].op \in OrderOps <=> req[r].order \in Orders
       /\ req[r].stage = "order" => req[r].op \in OrderOps
       /\ req[r].stage = "idle" <=> req[r].op = "none"

\* A handler that would still pass its claim computes from the rows as they are:
\* if the order's version is the one it loaded, so is everything else it loaded.
\* (the version check of _claim_confirm_version and _claim_receive_version)
SnapshotsOfCurrentVersionAreCurrent ==
  \A r \in Requests : LET o == req[r].order IN
    req[r].op \in OrderOps /\ req[r].po.version = po[o].version =>
      /\ req[r].po = po[o]
      /\ req[r].stage = "ready" => req[r].lines = line[o]

\* Deliveries: what receipts put in stock is what the lines count as received,
\* never more than ordered, and the order's status says how much is missing.
DeliveriesMatchOrder ==
  \A o \in Orders :
    /\ stocked[o] = [l \in Lines |-> line[o][l].received]
    /\ \A l \in Lines : line[o][l].received <= line[o][l].ordered
    /\ po[o].status \in {"absent", "draft", "ordered"} =>
         \A l \in Lines : line[o][l].received = 0
    /\ po[o].status = "received" <=>
         /\ po[o].status # "absent"
         /\ po[o].period # None
         /\ \A l \in Lines : line[o][l].received = line[o][l].ordered

ConfirmedIn(p) == {o \in Orders : po[o].period = p}

\* Every unit of a confirmed order's total is either reserved or spent, in the
\* month the order was confirmed in, whatever happened to the settings since.
BudgetIsConserved ==
  \A p \in Periods :
    budget[p].reserved + budget[p].spent
      = SumOver(ConfirmedIn(p), [o \in Orders |-> po[o].total])

\* The cost of the goods of order o that are still to come.
Outstanding(o) ==
  CostOfAll([l \in Lines |-> line[o][l].ordered - line[o][l].received])

\* The reservation always covers what is still to come, so that no delivery
\* within the ordered quantities is refused with `Budget reservation khong du'.
ReservationCoversOutstanding ==
  \A p \in Periods :
    SumOver(ConfirmedIn(p), [o \in Orders |-> Outstanding(o)]) <= budget[p].reserved

\* Reserved is exactly the cost of the goods still to come: once everything is
\* received nothing stays reserved (tests/test_completion_behavior.py:233).
ReservedIsOutstanding ==
  \A p \in Periods :
    budget[p].reserved = SumOver(ConfirmedIn(p), [o \in Orders |-> Outstanding(o)])

\* Money spent is the cost of what receipts put in stock, for the orders of the
\* month, in every interleaving; fractions are dropped in the store's favour.
SpentPaysForStock ==
  \A p \in Periods :
    LET worth == SumOver(ConfirmedIn(p), [o \in Orders |->
                   SumOver(Lines, [l \in Lines |-> stocked[o][l] * UnitCost[l]])])
    IN budget[p].spent * Scale <= worth /\ (Scale = 1 => budget[p].spent = worth)

\* A step that commits more of a month's budget stays within its monthly budget
\* as it is then, however the settings changed since the order was drafted.
CommitmentsStayWithinBudget ==
  [][\A p \in Periods :
       LET before == budget[p].reserved + budget[p].spent
           after == budget'[p].reserved + budget'[p].spent
       IN after # before => after > before /\ after <= budget'[p].monthly]_vars

\* Optimistic locking: whoever changes an order or its lines moves the version
\* to the next one, so of two requests for one version at most one wins.
VersionCountsChanges ==
  [][\A o \in Orders :
       po'[o] # po[o] \/ line'[o] # line[o] => po'[o].version = po[o].version + 1]_vars

\* docs/CURRENT_STATE.md:245: a patch changes an order only while it is a draft.
OnlyDraftsAreRewritten ==
  [][\A o \in Orders : po[o].status \notin {"absent", "draft"} =>
       \A l \in Lines : line'[o][l].ordered = line[o][l].ordered]_vars

\* An order never goes back in draft -> ordered -> partially_received -> received.
Rank(status) == CASE status = "absent" -> 0
                  [] status = "draft" -> 1
                  [] status = "ordered" -> 2
                  [] status = "partially_received" -> 3
                  [] status = "received" -> 4
StatusNeverGoesBack ==
  [][\A o \in Orders : Rank(po[o].status) <= Rank(po'[o].status)]_vars

\* What the ledger shows of an order's rows and of the months' budgets.
Shown(header, rows) == [status |-> header.status,
                        ordered |-> [l \in Lines |-> rows[l].ordered],
                        received |-> [l \in Lines |-> rows[l].received],
                        period |-> header.period]
ShownOrders == [o \in Orders |-> Shown(po[o], line[o])]
ShownMonthly == [p \in Periods |-> BudgetRow(p).monthly]
ShownReserved == [p \in Periods |-> budget[p].reserved]
ShownSpent == [p \in Periods |-> budget[p].spent]

\* The handlers implement the ledger: every step is one of its operations, on
\* the rows as they are then, or changes nothing it shows.
Ledger == INSTANCE PurchaseLedger WITH
  order <- ShownOrders, monthly <- ShownMonthly,
  reserved <- ShownReserved, spent <- ShownSpent, Cost <- CostOfAll
ImplementsLedger == Ledger!Spec
=============================================================================
