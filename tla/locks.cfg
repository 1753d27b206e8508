SPECIFICATION Spec
SYMMETRY Symmetry
CONSTANTS
  u1 = u1
  u2 = u2
  r1 = r1
  r2 = r2
  r3 = r3
  s1 = s1
  s2 = s2
  p1 = p1
  Users = {u1}
  Requests = {r1, r2}
  Sids = {s1, s2}
  Challenges = {p1}
  Counters = {"ip", "name", "badex"}
  TokenCounters = {"badex"}
  Keys <- TwoKeys
  MaxRegisters = 1
  MaxFails = 2
  MaxVersion = 1
  NoSid = NoSid
INVARIANTS LocksAreEarned
