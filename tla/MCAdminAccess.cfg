SPECIFICATION FairAccessSpec
CONSTANTS
  u1 = u1
  u2 = u2
  s1 = s1
  s2 = s2
  b1 = b1
  b2 = b2
  b3 = b3
  b4 = b4
  k1 = k1
  k2 = k2
  x1 = x1
  r1 = r1
  User = {u1, u2}
  Nobody = Nobody
  Sso = Sso
  State = {s1, s2}
  PurposeOf <- MCPurposeOf
  Callback = {b1, b2, b3, b4}
  StateOf <- MCStateOf
  DoorOf <- MCDoorOf
  AccountOf <- MCAccountOf
  Named = {b1, b2, b4}
  Caller = {k1, k2}
  UserOf <- MCUserOf
  MaxGen = 1
  Client = {c}
  Session = {x1}
  Request = {r1}
  CookieOf <- MCCookieOf
  Allowlist = {u2}
  MaxAttempts = 1
INVARIANTS
  GrantsAreOwn
  OneRefreshAtATime
  SessionsAreBacked
PROPERTIES
  CallersServed
CHECK_DEADLOCK FALSE
