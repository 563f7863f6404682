SPECIFICATION Spec
CONSTANTS
  Unset = Unset
  short = short
  long = long
  other = other
  m1 = m1
  c1 = c1
  Word = {"/task", "list"}
  Place = {"c1", "u1", "t1"}
  Name = {"id", "key"}
  Value <- MCValue
  LongEnough = {long, other}
  Escaped <- MCEscaped
  Yaml <- Files
  Published <- Edits
  Environment <- MCEnvironment
  OperatorSets <- MCOperatorSets
  Host <- MCHost
  App = "app"
  Message = {m1}
  Card = {c1}
  Content <- MCContent
  Ttl = 2
  MaxEntries = 1
  MaxTime = 3
  MaxDeliveries = 2
INVARIANTS
  PlatformIsReadOnly
  IngressReachesItsApp
  NeverAmbiguous
  NothingSwallowed
PROPERTIES
  EffectOnce
CHECK_DEADLOCK FALSE
