CONSTANTS
  Msg <- MCMsg
  WireSize <- MCWireSize
  RecvSize <- MCWireSize
  Window = 8
  MaxSent = 20
  MaxFrames = 3
  User = {u1, u2}
  Conn = {c1, c2}
  NoConn = NoConn
  MinIdle = 0
  MaxIdle = 1
  MaxActive = 1
  Wait = TRUE
  ForceClose = FALSE
  PushToTail = FALSE
  MaxUsed = 2
SPECIFICATION WaitingSpec
INVARIANTS IInv NoLostSignal
PROPERTIES SenderProceeds PoolServes
CHECK_DEADLOCK FALSE
