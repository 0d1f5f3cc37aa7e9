SPECIFICATION Spec
CONSTANTS
  Lots = {1, 2}
  LastDay = 2
  MaxQuantity = 2
  MaxDemand = 2
  MaxEvents = 1
INVARIANTS AccountsBalance NothingExpiredIsUsed SpoilageIsUnavoidable EveryUnitIsTraced
CHECK_DEADLOCK FALSE
