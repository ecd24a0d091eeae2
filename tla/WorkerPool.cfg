SPECIFICATION FairSpec
CONSTANTS
  k1 = k1  x1 = x1  x2 = x2  g1 = g1  g2 = g2
  c1 = c1  c2 = c2  c3 = c3  Closer = Closer  NoKey = NoKey
  Keys = {k1}
  WarmKeys = {k1}
  Conns = {c1, c2, c3}
  Clients = {x1, x2}
  Slots = {g1, g2}
  Enabled = TRUE
INVARIANTS Ownership
PROPERTIES ImplementsConnPool CloseReturns
