SPECIFICATION FairSpec
CONSTANTS
  s1 = s1  s2 = s2  t1 = t1  NoConn = NoConn
  Sessions = {s1, s2}
  MaxConns = 1
  Confs <- AllConfs
  Tasks = {t1}
  BackoffMin = 1
  BackoffMax = 3
INVARIANTS SlotsCounted CleanExit RoutesExhausted
PROPERTIES Exits
CHECK_DEADLOCK FALSE
