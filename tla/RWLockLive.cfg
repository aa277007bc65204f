SPECIFICATION LiveSpec
CONSTANTS
  t1 = t1
  t2 = t2
  t3 = t3
  t4 = t4
  Threads = {t1, t2, t3, t4}
  Nobody = Nobody
  Uses <- BlockingUses
  WaitErrors <- NoErrors
PROPERTIES
  WaitingWriterGetsIn
  SleepingReaderIsWoken
CHECK_DEADLOCK FALSE
