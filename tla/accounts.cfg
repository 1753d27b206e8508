SPECIFICATION Spec
SYMMETRY Symmetry
CONSTANTS
  u1 = u1
  u2 = u2
  r1 = r1
  r2 = r2
  r3 = r3
  s1 = s1
  s2 = s2
  p1 = p1
  Users = {u1, u2}
  Requests = {r1, r2}
  Sids = {s1, s2}
  Challenges = {p1}
  Counters = {"ip"}
  TokenCounters = {}
  Keys <- SharedKey
  MaxRegisters = 1
  MaxFails = 1
  MaxVersion = 3
  NoSid = NoSid
INVARIANTS LimitHolds OldPasswordsOut EndedStaysEnded
PROPERTY SpentIsSpent
