SPECIFICATION Spec
CONSTANTS
  Versions = {v1, v2}
  Trainers = {t1, t2}
  Callers = {c1, c2}
  Keyed = {c1, c2}
  MaxBuilds = 2
  MaxRuns = 2
  MaxFaults = 1
  MaxCrashes = 1
INVARIANTS ActiveModelHasFiles KeyMakesOneRun
PROPERTIES ImplementsForecastLedger ForecastsEnd
