CONSTANTS
  Parts = {"message", "frame", "streamFrame", "naming", "options", "registry", "deadline", "roundTrip", "idle", "tnetTrip", "tnetBoot", "tnet"}
  Msgs = {m1, m2}
  MaxCalls = 2
  FrameHeadLen = 2
  MaxHeader = 3
  MaxFrameSize = 9
  Word = 16
  Attempts = {1, 2}
  StreamIDs = {1, 2}
  InitWindow = 2
  MaxWindow = 5
  Callers = {g1, g2}
  DefaultWeight = 3
  Interval = 1
  Replicas = 2
  Calls = {"c1", "c2"}
  MaxConfigured = 2
  Keys = {"a", "b", "*"}
  Services = {"s", "t"}
  MaxRegistrations = 3
  Hops = 2
  Millisecond = 2
  MaxClock = 5
  Conns = {k1, k2}
  Refresh = 2
  IdleTimeouts = {1, 2, 3, 4}
  MaxIdleClock = 12
  TnetCalls = {t1, t2}
  MaxHosts = 2
  MaxDials = 2
  maxConcurrentVirConns = 1
  Uint = 8
SPECIFICATION Spec
SYMMETRY Exchange
INVARIANTS MessagesOwn FramesArrive NodesChosenWell OptionsOwn TimeoutsBlamedRight  TnetSafe
CHECK_DEADLOCK FALSE
