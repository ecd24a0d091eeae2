SPECIFICATION Spec
CONSTANTS
  MaxPacket = 12
  MaxRecord = 2
  skipLen = 1
  prekeyLen = 2
  ivLen = 1
  Reserved <- AllReserved
  Sessions <- AllSessions
  Randoms <- AllRandoms
  Secret = "secret"
  BufLen = 5
INVARIANTS EndToEnd Framed
CHECK_DEADLOCK FALSE
