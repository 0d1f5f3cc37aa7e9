SPECIFICATION ConstraintSpec
CONSTANTS
  Clients = {c1}
  LastDay = 3
  MaxVersions = 4
INVARIANTS DatesFollowVersions OverlapsComeFromDeactivations
