SPECIFICATION CancelSpec
CONSTANTS
  main = main
  thread1 = thread1
  thread2 = thread2
  Threads = {main, thread1, thread2}
  LongSleeps = TRUE
  Nobody = Nobody
  Uses <- CancelUses
  WaitErrors <- NoErrors
PROPERTY
  DestroyReturnsEBUSY
CHECK_DEADLOCK FALSE
