\* Three threads, two mutexes, all arc orders, all ways to share two buckets.
SPECIFICATION Spec
CONSTANTS
  t1 = t1
  t2 = t2
  t3 = t3
  a = a
  b = b
  none = none
  Thread <- MCThread3
  Mutex <- MCMutex2
  NoThread = none
  NoMutex = none
  Capacity = 2
SYMMETRY Alike3
INVARIANTS
  TypeOK
  SearchIsExact
  ReportIsTheCycle
  CycleIsMissedOnce
PROPERTIES
  FollowsProtocol
