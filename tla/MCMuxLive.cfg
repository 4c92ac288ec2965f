SPECIFICATION FairSpec
CONSTANTS
  Call = {u1, u2}
  Vid <- UniqueVids
  MaxConns = 2
  ConnectNumber = 1
  MaxVirConns = 0
  MaxIdle = 0
  QueueSize = 1
  DropFull = FALSE
  MaxReconnect = 1
  MaxBreak = 1
  DialMayFail = TRUE
  SlowDial = FALSE
  Streams = {TRUE, FALSE}
 
PROPERTY CallersServed
CHECK_DEADLOCK FALSE
