SPECIFICATION Spec
CONSTANTS
  Kinds = {"pooled", "worker", "tcp"}
  Verbose = {TRUE, FALSE}
  MaxBytes = 2
  FlushBytes = 2
INVARIANTS AllGone Delivered
CHECK_DEADLOCK FALSE
