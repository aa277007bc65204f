SPECIFICATION ProgramsSpec
CONSTANTS
  Threads = {a, b, c, d}
  ReaderThreads = {a, b}
  main = a
  thread1 = b
  thread2 = c
  Nobody = Nobody
  Uses <- AnyUse
  WaitErrors = {}
  nloop = 2
INVARIANTS
  ChecksPass
  CancelledWriter
  CounterExact
PROPERTY
  ProgramsEnd
CHECK_DEADLOCK FALSE
