CONSTANTS
  Streams = {s1}
  MaxMsgs = 1
  FaultSets = {{"break"}, {"cancel"}}
SPECIFICATION FairSpec
INVARIANTS  ClosedConnStopsHandlers EndedIsForgotten
 
CHECK_DEADLOCK FALSE
