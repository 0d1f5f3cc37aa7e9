SPECIFICATION Spec
CONSTANTS
  Lots = {l1}
  Writers = {w1, w2}
  Imports = {i1, i2}
  LastDay = 1
  MaxQty = 1
  MaxOnHand = 1
  MaxVersion = 4
SYMMETRY MCInventorySymmetry
INVARIANTS OnHandNeverNegative VersionCoversApiMoves OverdraftIsBounded
