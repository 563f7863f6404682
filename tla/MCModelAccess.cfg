SPECIFICATION FairSpec
CONSTANTS
  x1 = x1
  r1 = r1
  r2 = r2
  r3 = r3
  Session = {x1}
  Request = {r1, r2, r3}
  OwnerOf <- MCOwnerOf
  InScope = {r1, r2}
  Ttl = 2
  MaxLifetime = 3
  IdleTtl = 3
  MaxTime = 6
INVARIANTS
  NoOrphanCapability
PROPERTIES
  ForwardedInTime
  RequestsEnd
CHECK_DEADLOCK FALSE
