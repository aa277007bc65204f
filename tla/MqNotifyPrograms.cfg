SPECIFICATION NotifySpec
CONSTANTS
  MaxMsg = 4
  nmsgs = 10
  Before = {0, 1, 2}
INVARIANTS
  NeverRegistersTwice
  NeverBlocks
  NoneStranded
PROPERTIES
  StaysStranded
  AllReceived
CHECK_DEADLOCK FALSE
