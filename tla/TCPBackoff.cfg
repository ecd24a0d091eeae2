SPECIFICATION FairSpec
CONSTANTS
  a1 = a1  a2 = a2  s1 = s1  s2 = s2  s3 = s3
  Addrs = {a1, a2}
  Sessions = {s1, s2, s3}
  BackoffMin = 2
  BackoffMax = 7
  MaxFails = 3
INVARIANTS OneAttempt DelayTracksFailures CleanHandover
PROPERTIES Freed
CHECK_DEADLOCK FALSE
