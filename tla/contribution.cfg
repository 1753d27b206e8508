SPECIFICATION Spec
CONSTANTS
  u1 = u1
  u2 = u2
  c1 = c1
  c2 = c2
  k1 = k1
  Users = {u1, u2}
  Channels = {c1, c2}
  Crons = {k1}
  Owner <- OwnerOf
  Serves <- ServesOne
  Models = {"m", "x"}
  Weight <- WeightOf
  Rates = {0, 2}
  WeekDays = 2
  KeepDays = 2
  Threshold <- SmallThresholds
  MaxRows = 2
  MaxAborts = 1
INVARIANTS TierEarned DrawProportional
PROPERTIES ContributorsKeepTier BonusFades
