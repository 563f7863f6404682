SPECIFICATION FairWorkspaceSpec
CONSTANTS
  None = None
  p1 = p1
  p2 = p2
  p3 = p3
  t1 = t1
  t2 = t2
  c1 = c1
  c2 = c2
  Path = {p1, p2, p3}
  Job = {t1, t2, c1, c2}
  Calls = {c1, c2}
  Items <- MCItems
  InitialFiles <- MCInitialFiles
  MaxTotalBytes = 4
  MaxFiles = 2
  MaxWriteBytes = 3
  Writable = TRUE
  MaxItems = 2
  MaxBytesPerItem = 2
  MaxTurnBytes = 3
INVARIANT PromptIsTrue
PROPERTIES
  QuotaKept
  WritesEnd
CHECK_DEADLOCK FALSE
