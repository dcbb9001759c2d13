\* Two threads and an error-checking mutex, whose native functions may fail.
SPECIFICATION MonitorSpec
CONSTANTS
  t1 = t1
  t2 = t2
  t3 = t3
  a = a
  b = b
  none = none
  Thread <- MCThread2
  Mutex <- MCMutex1
  NoThread = none
  NoMutex = none
  QueueSize = 2
  MaxEventQueue = 2
  ErrorCheck <- MCMutex1
  Filtered = {}
  MaxThreadVertex = 2
  MaxMutexVertex = 2
  MaxArc = 4
PROPERTIES
  OnlySuccessIsAnnounced
CHECK_DEADLOCK FALSE
