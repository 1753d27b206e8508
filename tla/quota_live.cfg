CONSTANTS
  u1 = u1
  u2 = u2
  r1 = r1
  r2 = r2
  r3 = r3
  r4 = r4
  Users = {u1}
  Requests = {r1, r2, r3}
  Crons = {k1}
  UserOf <- UserOfU1
  Submits = {r3}
  RepMax = 2
  Limit <- LimitU1
  BaseCalls <- ScaledBase
  Penalty <- ScaledPenalty
  TokenUse = {}
  Daily = 1
  GoodBonus = 2
  GoodRep = 1
  GoodDays = 1
  KeepDays = 1
  InitRep = 0
  MaxDay = 1
  MaxAborts = 1
SPECIFICATION FairSpec
PROPERTY ReputationRecovers
