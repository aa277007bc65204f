SPECIFICATION NumbersSpec
CONSTANTS
  p1 = p1
  p2 = p2
  p3 = p3
  None = None
  Procs = {p1, p2, p3}
  Forked = {p1, p2}
  Runs = 2
  nloop = 2
  loops <- Loops
  Crashes = 2
INVARIANTS
  NumbersTakenOnce
  CountedOnce
PROPERTIES
  EachEnds
  StaysLocked
