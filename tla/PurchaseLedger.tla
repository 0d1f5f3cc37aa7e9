--------------------------- MODULE PurchaseLedger ---------------------------
(***************************************************************************)
(* What purchasing promises, without handlers, versions or snapshots: one  *)
(* operation at a time drafts, redrafts, confirms or receives an order,    *)
(* and the month's budget follows.  PurchaseOrders implements it when      *)
(* clients do not patch an order while another request for it is in        *)
(* flight.                                                                 *)
(***************************************************************************)
EXTENDS Integers

CONSTANTS
  Orders, Lines, Periods, None,
  Cost(_)    \* what quantities of the lines cost

VARIABLES
  order,     \* status, quantities ordered and received, month confirmed in
  monthly,   \* budget of each month
  reserved,  \* cost of the confirmed goods of each month not received yet
  spent      \* cost of the goods received

ledger == <<order, monthly, reserved, spent>>
Quantities == [Lines -> Nat]
Nothing == [l \in Lines |-> 0]
Order(status, ordered, received, period) ==
  [status |-> status, ordered |-> ordered, received |-> received, period |-> period]

Init ==
  /\ order = [o \in Orders |-> Order("absent", Nothing, Nothing, None)]
  /\ monthly \in [Periods -> Nat]
  /\ reserved = [p \in Periods |-> 0]
  /\ spent = [p \in Periods |-> 0]

\* Orders appear as drafts.
Draft ==
  /\ order' = [o \in Orders |-> order'[o]]
  /\ \A o \in Orders : order'[o] # order[o] =>
       /\ order[o].status = "absent"
       /\ order'[o].ordered \in Quantities
       /\ order'[o] = Order("draft", order'[o].ordered, Nothing, None)
  /\ UNCHANGED <<monthly, reserved, spent>>

\* A draft's quantities change.
Redraft(o) ==
  /\ order[o].status = "draft"
  /\ order'[o].ordered \in Quantities
  /\ order' = [order EXCEPT ![o] =
       Order("draft", order'[o].ordered, order[o].received, order[o].period)]
  /\ UNCHANGED <<monthly, reserved, spent>>

\* A draft becomes an order when the month can still pay for it.
Commit(o, p) ==
  LET cost == Cost(order[o].ordered) IN
  /\ order[o].status = "draft"
  /\ cost <= monthly[p] - reserved[p] - spent[p]
  /\ order' = [order EXCEPT ![o] =
       Order("ordered", order[o].ordered, order[o].received, p)]
  /\ reserved' = [reserved EXCEPT ![p] = @ + cost]
  /\ UNCHANGED <<monthly, spent>>

\* Goods arrive, at most what was ordered; their cost moves to spent.
Settle(o, got) ==
  LET p == order[o].period
      received == [l \in Lines |-> order[o].received[l] + got[l]]
  IN
  /\ order[o].status \in {"ordered", "partially_received"}
  /\ \A l \in Lines : received[l] <= order[o].ordered[l]
  /\ order' = [order EXCEPT ![o] =
       Order(IF received = order[o].ordered THEN "received" ELSE "partially_received",
             order[o].ordered, received, p)]
  /\ reserved' = [reserved EXCEPT ![p] = @ - Cost(got)]
  /\ spent' = [spent EXCEPT ![p] = @ + Cost(got)]
  /\ UNCHANGED monthly

\* The manager changes budgets, even below what is already committed.
Rebudget == monthly' \in [Periods -> Nat] /\ UNCHANGED <<order, reserved, spent>>

\* What arrived in a step: the increase of the received quantities.
Arrived(o) == [l \in Lines |-> order'[o].received[l] - order[o].received[l]]

Next ==
  \/ Draft
  \/ \E o \in Orders :
       \/ Redraft(o)
       \/ \E p \in Periods : Commit(o, p)
       \/ Settle(o, Arrived(o))
  \/ Rebudget

Spec == Init /\ [][Next]_ledger
=============================================================================
