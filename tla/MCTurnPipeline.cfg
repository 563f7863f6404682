SPECIFICATION FairSpec
CONSTANTS
  x = x
  y = y
  cx1 = cx1
  cx2 = cx2
  cy = cy
  m1 = m1
  m2 = m2
  m3 = m3
  r1 = r1
  Turn = {m1, m2, m3, r1}
  ResetTask = {r1}
  Conversation = {cx1, cx2, cy}
  Binding = {x, y}
  ConversationOf <- MCConversationOf
  BindingOf <- MCBindingOf
  GlobalCapacity = 2
  BindingCapacity <- MCBindingCapacity
  MaxPending <- MCMaxPending
INVARIANTS
  SlotsAccounted
  NoLostGrant
  NoHandlerOutlivesStop
PROPERTIES
  QueuedTaskSettles
  StopTerminates
CHECK_DEADLOCK FALSE
