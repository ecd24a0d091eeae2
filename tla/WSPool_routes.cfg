SPECIFICATION Spec
CONSTANTS
  k1 = k1  k2 = k2  x1 = x1  x2 = x2  s1 = s1  s2 = s2
  c1 = c1  c2 = c2  c3 = c3  c4 = c4  c5 = c5
  Keys = {k1, k2}
  Media = {k1}
  Targets <- TwoTargets
  Conns = {c1, c2}
  Clients = {x1}
  Slots = {s1}
  Rotator = Rotator
  Closer = Closer
  PoolSize = 1
  BackoffMin = 2
  BackoffMax = 2
SYMMETRY Symmetry
INVARIANTS RouteMatch BackoffQuiet AllModesTried
PROPERTIES ImplementsConnPool
