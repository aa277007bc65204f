\* Two clients, each of which asks for a file that exists.
SPECIFICATION Spec
CONSTANTS
  Clients = {c1, c2}
  MayMiss = {}
  Chunks = 2
PROPERTIES
  ReadOfNothingExits
CHECK_DEADLOCK FALSE
