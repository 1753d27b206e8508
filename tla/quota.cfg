CONSTANTS
  u1 = u1
  u2 = u2
  r1 = r1
  r2 = r2
  r3 = r3
  r4 = r4
  Users = {u1, u2}
  Requests = {r1, r2, r3, r4}
  Crons = {k1}
  UserOf <- UserOfBoth
  Submits = {}
  RepMax = 2
  Limit <- ScaledLimit
  BaseCalls <- ScaledBase
  Penalty <- ScaledPenalty
  TokenUse = {3}
  Daily = 1
  GoodBonus = 2
  GoodRep = 1
  GoodDays = 1
  KeepDays = 1
  InitRep = 2
  MaxDay = 2
  MaxAborts = 1
SPECIFICATION Spec
SYMMETRY RequestSymmetry
INVARIANTS
  TypeOK
  CallsMatchCharges
  RefusedOnlyWhenSpent
PROPERTIES
  OnlyPenaltiesCost
  ImplementsGuard
