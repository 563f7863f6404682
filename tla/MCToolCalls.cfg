SPECIFICATION FairSpec
CONSTANTS
  c1 = c1
  c2 = c2
  c3 = c3
  sender = sender
  admin = admin
  console = console
  Turn <- MCTurn
  Call = {c1, c2, c3}
  Person = {sender, admin, console}
  Admins = {admin}
  Operators = {console}
  None = None
  MaxDeadlines = 1
  TurnOf <- MCTurnOf
  GrantOf <- MCGrantOf
  SenderOf <- MCSenderOf
INVARIANTS
  StartedAsApproved
  RunsInItsTurn
PROPERTIES
  OneVerdict
  EveryCallEnds
CHECK_DEADLOCK FALSE
