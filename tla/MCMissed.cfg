\* A cycle that is found and not reported.
SPECIFICATION Spec
CONSTANTS
  t1 = t1
  t2 = t2
  t3 = t3
  a = a
  b = b
  none = none
  Thread <- MCThread2
  Mutex <- MCMutex2
  NoThread = none
  NoMutex = none
  Capacity = 2
INVARIANTS
  CycleIsReported
