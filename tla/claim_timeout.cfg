CONSTANTS
  c1 = c1
  c2 = c2
  r1 = r1
  r2 = r2
  r3 = r3
  Channels = {c1}
  Requests = {r1}
  Crons = {k1}
  NoChannel = NoChannel
  Serves <- ServesAll
  Undecryptable = {}
  Replies <- Statuses
  MaxRetries = 0
  MinRequests = 1
  ThresholdNum = 1
  ThresholdDen = 2
  DeactivateCount = 2
  DecayAbove = 100
  BatchSize = 1
  MaxDbErrors = 0
SPECIFICATION GatewaySpec
PROPERTY CallsAnswered
