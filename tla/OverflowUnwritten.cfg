SPECIFICATION Spec
CONSTANTS
  c1 = c1
  c2 = c2
  NoClient = NoClient
  Clients = {c1, c2}
  NMESG = 2
  MaxLoop = 4
  MaxShown = 1
  Arguments <- Shares
INVARIANTS
  PrintsMessages
CHECK_DEADLOCK FALSE
