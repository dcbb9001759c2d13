\* An error-checking and a recursive mutex, trylock and condition waits, a
\* filter that is created, extended and destroyed.
SPECIFICATION Spec
CONSTANTS
  t1 = t1
  t2 = t2
  t3 = t3
  a = a
  b = b
  none = none
  Thread <- MCThread2
  Mutex <- MCMutex2
  NoThread = none
  NoMutex = none
  QueueSize = 1
  MaxEventQueue = 2
  ErrorCheck <- MCMutexA
  Filtered = {}
  MaxThreadVertex = 2
  MaxMutexVertex = 2
  MaxArc = 4
  Recursive <- MCMutexB
  TryLocked <- MCMutexB
  Awaited <- MCMutexA
  FilterList <- MCMutexA
  MaxDepth = 2
INVARIANTS
  TypeOK
  Isolation
  NoFalseAlarm
PROPERTIES
  OnlyCulpritsAbort
CHECK_DEADLOCK FALSE
