SPECIFICATION Spec
CONSTANTS
  c1 = c1
  c2 = c2
  NoClient = NoClient
  Clients = {c1, c2}
  NMESG = 2
  MaxLoop = 5
  MaxShown = 2
  Arguments <- Shares
INVARIANTS
  EachSentOrCounted
PROPERTIES
  Drains
  PrintsInOrder
  OverflowsShown
CHECK_DEADLOCK FALSE
