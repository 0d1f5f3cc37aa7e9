SPECIFICATION Spec
CONSTANTS
  Orders = {o1, o2}
  Lines = {l1}
  Requests = {r1, r2}
  Periods = {m1}
  None = None
  UnitCost <- MCUnitCost
  Scale = 2
  MaxQty = 2
  Moq = 1
  Pack = 1
  Monthlies = {1, 2}
  MaxVersion = 3
  PatchAlone = TRUE
SYMMETRY MCSymmetry
INVARIANTS SnapshotsOfCurrentVersionAreCurrent DeliveriesMatchOrder BudgetIsConserved ReservationCoversOutstanding
PROPERTIES ImplementsLedger
