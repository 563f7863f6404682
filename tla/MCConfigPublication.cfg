SPECIFICATION FairSpec
CONSTANTS
  app1 = app1
  cred1 = cred1
  m1 = m1
  m2 = m2
  v1 = v1
  v2 = v2
  App = {app1}
  Credential = {cred1}
  CredentialOf <- MCCredentialOf
  Value = {v1, v2}
  Admin = {m1, m2}
  Status = {"absent", "enabled"}
  None = None
  Unchecked = Unchecked
  MaxRevisions = 3
INVARIANTS
  RunsActive
  NoStaleRuntime
PROPERTIES
  RequestEnds
CHECK_DEADLOCK FALSE
