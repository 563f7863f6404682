SPECIFICATION FairSpec
CONSTANTS
  a1 = a1
  k1 = k1
  MaxPrompts = 2
  Aborts = {a1}
  Dispose = Dispose
  Tools = {k1}
  MaxDeltas = 1
  None = None
INVARIANTS
  NothingWaitsForADeadWorker
  ReplyIsComplete
PROPERTIES
  NoOrphanTool
  DisposeEnds
CHECK_DEADLOCK FALSE
