CONSTANTS
  User = {u1, u2}
  Conn = {c1, c2, c3, c4}
  NoConn = NoConn
  MinIdle = 1
  MaxIdle = 1
  MaxActive = 1
  Wait = FALSE
  ForceClose = FALSE
  PushToTail = FALSE
  MaxUsed = 3
SPECIFICATION Spec
SYMMETRY Symmetry
INVARIANTS IInv ConnectionsOwned ClosedListsNothing
CHECK_DEADLOCK FALSE
