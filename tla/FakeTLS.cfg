SPECIFICATION Spec
CONSTANTS
  MaxSession = 1
  MLKEMShare = 2
  Tolerance = 120
  Hellos <- AllHellos
  Profiles <- AllProfiles
  RandomSizes = {64, 160}
  MaxRecord = 16384
  Chunks = 2
  None = None
INVARIANTS InBounds Agreed Transparent
PROPERTY Ends
CHECK_DEADLOCK FALSE
