\* Three clients, one of which may ask for a file that does not exist.
SPECIFICATION ServersSpec
CONSTANTS
  Clients = {c1, c2, c3}
  MayMiss = {c2}
  Chunks = 2
INVARIANTS
  WholeAnswer
  NeverReadsEnd
  SenderIsThere
  NothingLost
PROPERTIES
  ClientsEnd
CHECK_DEADLOCK FALSE
