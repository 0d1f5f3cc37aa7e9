SPECIFICATION Spec
CONSTANTS
  Orders = {o1}
  Lines = {l1}
  Requests = {r1, r2}
  Periods = {m1, m2}
  None = None
  UnitCost <- MCUnitCost
  Scale = 1
  MaxQty = 2
  Moq = 1
  Pack = 1
  Monthlies = {1, 3}
  MaxVersion = 3
  PatchAlone = FALSE
SYMMETRY MCSymmetry
INVARIANTS SpentPaysForStock
PROPERTIES CommitmentsStayWithinBudget
