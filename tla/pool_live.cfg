CONSTANTS
  c1 = c1
  c2 = c2
  r1 = r1
  r2 = r2
  r3 = r3
  Channels = {c1, c2}
  Requests = {r1}
  Crons = {k1}
  NoChannel = NoChannel
  Serves <- ServesAll
  Undecryptable = {c2}
  Replies <- Statuses
  MaxRetries = 1
  MinRequests = 1
  ThresholdNum = 1
  ThresholdDen = 2
  DeactivateCount = 2
  DecayAbove = 1
  BatchSize = 2
  MaxDbErrors = 1
SPECIFICATION FairSpec
PROPERTIES
  CallsAnswered
  CircuitsEnd
  ImplementsLifecycle
INVARIANTS
  StatsConsistent
  RetriesOnlyAfterFailure
