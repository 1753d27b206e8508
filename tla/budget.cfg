SPECIFICATION Spec
CONSTANTS
  r1 = r1
  r2 = r2
  Requests = {r1, r2}
  SampleEvery = 2
  DayBudget = 4
  PausePercent = 90
  MaxSamples = 2
  MaxStraddle = 1
  MaxCrashes = 1
INVARIANT PauseIsEarned
PROPERTIES PauseEnds StoreIsMap
