SPECIFICATION Spec
CONSTANTS
  Call = {u1, u2}
  Vid <- UniqueVids
  MaxConns = 3
  ConnectNumber = 1
  MaxVirConns = 1
  MaxIdle = 1
  QueueSize = 1
  DropFull = FALSE
  MaxReconnect = 1
  MaxBreak = 0
  DialMayFail = TRUE
  SlowDial = FALSE
  Streams = {TRUE}
INVARIANT MuxSafe
SYMMETRY CallSymmetry
CHECK_DEADLOCK FALSE
