CONSTANTS
  Parts = {"server", "keepOrder", "health", "precool", "queue", "detached", "startup", "httpServer", "config",
           "listeners", "admin", "service", "goer", "reuse"}
  Services = {a}
  Procs = {1, 2}
  Adders = {c1, c2}
  JobsEach = 2
  MaxElements = 1
  GroupFaults = {{}, {"idle"}, {"stop"}}
  Names = {n1, n2}
  Putters = {p1, p2}
  Value = {a, b}
  MaxLen = 3
  Requests = {r1, r2, r3}
  limitedCases = 3
  incomingChanSize = 1
  Conns = {c1, c2}
  MaxWrites = 2
  MaxReloads = 1
  Calm = TRUE
  Generations = 2
  Cores = 2
  FirstDelay = 5
  MaxDelay = 20
  Closers = {k1, k2}
  DefaultNum = 2
  Tasks = {t1, t2}
  Fds = {1, 2, 3}
SPECIFICATION FairSpec
INVARIANTS  OrderKept HealthExact NoLostWakeUp ContextsTracked StartSound
PROPERTIES StepsAllowed ImplementsFIFO ServingEnds WatchedStaysCurrent
CHECK_DEADLOCK FALSE
