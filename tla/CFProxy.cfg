SPECIFICATION FairSpec
CONSTANTS
  d1 = d1  d2 = d2  w1 = w1  m1 = m1
  s1 = s1  s2 = s2  None = None
  CFDomains = {d1, d2}
  WorkerDomains = {w1}
  DCs = {m1}
  KnownDCs = {{}, {m1}}
  Callers = {s1, s2}
  MaxDials = 1
  MaxAttempts = 2
  MinValid = 1
INVARIANTS Reservations ActiveListed
PROPERTIES LimitsDials Answered
CHECK_DEADLOCK FALSE
