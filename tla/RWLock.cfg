SPECIFICATION Spec
CONSTANTS
  t1 = t1
  t2 = t2
  t3 = t3
  t4 = t4
  Threads = {t1, t2, t3}
  Nobody = Nobody
  Uses <- AnyUses
  WaitErrors = {22}
INVARIANTS
  TypeOK
  RefcountTellsHolders
  CountersCountWaiters
  NoLostWakeup
  NeverExits
  DestroySeesWhoStays
PROPERTIES
  ImplementsRWLockSpec
