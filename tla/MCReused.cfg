\* New entries may be blocks of the heap that were used before.
SPECIFICATION Spec
CONSTANTS
  t1 = t1
  t2 = t2
  t3 = t3
  none = none
  one = one
  Thread <- MCThread2
  Mutex = {}
  NoThread = none
  NoMutex = none
  Tid <- MCTid
  Capacity = 2
  Garbage = one
  FreshEntry <- MCFresh
INVARIANTS
  QueueOrNull
CHECK_DEADLOCK FALSE
