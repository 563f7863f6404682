SPECIFICATION LarkSpec
CONSTANTS
  a1 = a1
  a2 = a2
  e1 = e1
  e2 = e2
  m1 = m1
  start = start
  k1 = k1
  k2 = k2
  k3 = k3
  App = {a1, a2}
  Call = {start, k1, k2, k3}
  Executable = {e1, e2}
  Command = {m1}
  Nothing = Nothing
  AppOf <- MCAppOf
  ExecutableOf <- MCExecutableOf
  Operations <- MCOperations
  WantedBy <- MCWantedBy
  Signalled = {k1}
  Risk <- MCRisk
INVARIANTS
  RunsBoundAndReading
  NoFailureStays
CHECK_DEADLOCK FALSE
