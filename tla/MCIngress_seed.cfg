SPECIFICATION Spec
CONSTANTS
  Unset = Unset
  short = short
  long = long
  other = other
  m1 = m1
  c1 = c1
  Word = {"/task", "list"}
  Place = {"c1", "u1", "t1"}
  Name = {"id", "key"}
  Value <- MCValue
  LongEnough = {long, other}
  Escaped <- MCEscaped
  Yaml <- Seeds
  Published = {}
  Environment <- MCEnvironment
  OperatorSets = {}
  Host <- MCHost
  App = "app"
  Message = {m1}
  Card = {c1}
  Content <- MCContent
  Ttl = 1
  MaxEntries = 1
  MaxTime = 1
  MaxDeliveries = 1
PROPERTIES
  SeedLoads
CHECK_DEADLOCK FALSE
