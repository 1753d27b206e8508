CONSTANTS
  c1 = c1
  c2 = c2
  r1 = r1
  r2 = r2
  r3 = r3
  Channels = {c1}
  Requests = {r1, r2}
  Crons = {k1, k2}
  NoChannel = NoChannel
  Serves <- ServesAll
  Undecryptable = {}
  Replies <- NoClientErrors
  MaxRetries = 1
  MinRequests = 1
  ThresholdNum = 1
  ThresholdDen = 2
  DeactivateCount = 2
  DecayAbove = 100
  BatchSize = 1
  MaxDbErrors = 1
SPECIFICATION Spec
SYMMETRY Symmetry
INVARIANTS
  RetiredGetsNoTraffic
  MarksBounded
  SuccessesMatchLogs
PROPERTIES
  TrafficOnlyShrinksPool
  MarksOnlyCleared
