SPECIFICATION Spec
CONSTANTS
  Demands = {d1, d2}
  Plans = {p1, p2}
  Legacies = {l1, l2, l3}
  Decisions = {s1, s2}
  Keyed = {d1, p1, p2, l1, l2, s1, s2}
  Loads = {{d1, d2, l1}, {d1, p1, l1}, {p1, p2, s1}, {l1, l2, s1}, {l1, l3}, {d2, l1, s1}, {s1, s2, d1}}
  MaxEdits = 2
  MaxFaults = 1
CHECK_DEADLOCK FALSE
INVARIANTS DemandIsWhole DecisionsAreFresh KeysNameOneRun LinkedRunsArePlanned
PROPERTIES RunsEnd
