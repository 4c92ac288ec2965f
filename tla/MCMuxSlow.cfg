SPECIFICATION FairSpec
CONSTANTS
  Call = {u1, u2}
  Vid <- UniqueVids
  MaxConns = 1
  ConnectNumber = 1
  MaxVirConns = 0
  MaxIdle = 0
  QueueSize = 1
  DropFull = FALSE
  MaxReconnect = 1
  MaxBreak = 1
  DialMayFail = FALSE
  SlowDial = TRUE
  Streams = {TRUE}
PROPERTIES CallsReturn
CHECK_DEADLOCK FALSE
