SPECIFICATION FairSpec
CONSTANTS
  h1 = h1
  h2 = h2
  a1 = a1
  a2 = a2
  b1 = b1
  Host = {h1, h2}
  Lease = {a1, a2, b1}
  OwnerOf <- MCOwnerOf
  None = None
  Ttl = 2
PROPERTIES
  HandoverIsClean
  StaleHostStops
  Failover
CHECK_DEADLOCK FALSE
