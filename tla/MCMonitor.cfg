\* Two threads, two default mutexes: nested, crossed and repeated locking.
SPECIFICATION MonitorSpec
CONSTANTS
  t1 = t1
  t2 = t2
  t3 = t3
  a = a
  b = b
  none = none
  Thread <- MCThread2
  Mutex <- MCMutex2
  NoThread = none
  NoMutex = none
  QueueSize = 2
  MaxEventQueue = 2
  ErrorCheck = {}
  Filtered = {}
  MaxThreadVertex = 2
  MaxMutexVertex = 2
  MaxArc = 4
INVARIANTS
  TypeOK
  GraphLagsByQueue
  EndedOnlyByLimits
  ExactAtRest
  SharedOwnerOnlyByLag
  FoundIsDeadlock
PROPERTIES
  FollowsProtocol
  CircleIsMissedOnce
  FollowsCheckedGraph
  DeadlockFound
CHECK_DEADLOCK FALSE
