SPECIFICATION FairSpec
CONSTANTS
  t1 = t1
  t2 = t2
  t3 = t3
  c1 = c1
  c2 = c2
  e1 = e1
  e2 = e2
  e3 = e3
  Turn = {t1, t2, t3}
  Conversation = {c1, c2}
  ConversationOf <- MCConversationOf
  Entry = {e1, e2, e3}
  None = None
  Limits = {1, 2}
  Capacity = 1
  MaxUpsets = 1
INVARIANTS
  ResidentBound
  ReservationsExact
PROPERTIES
  UsedRuntimeKept
  HandlerEnds
CHECK_DEADLOCK FALSE
