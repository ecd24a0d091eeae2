SPECIFICATION FairSpec
CONSTANTS
  Kinds = {"pooled"}
  Verbose = {TRUE}
  MaxBytes = 1
  FlushBytes = 2
PROPERTIES Returns IdleEnds
CHECK_DEADLOCK FALSE
