CONSTANTS
  Parts = {"rpcz"}
  Spans = {s1, s2, s3, s4}
  MaxSpans = 5
  Capacity = 2
  ChildrenEndFirst = FALSE
  MaxLines = 4
  MaxSize = 2
  MaxBackups = 1
  WriteLogSize = 2
  LogQueueSize = 2
  MaxTicks = 1
  Contexts = {x1, x2}
  MaxSteps = 5
  minMallocSize = 2
  Sizes = {1, 3}
  MaxBytes = 5
  MaxBlocks = 3
  Goroutines = {g1, g2}
  HistSinks = {"remote"}
  Safe = FALSE
  Routines = 1
  MaxPackets = 2
  Parallelism = 2
SYMMETRY SpanSymmetry
SPECIFICATION Spec
INVARIANT EndFindsParent
CHECK_DEADLOCK FALSE
