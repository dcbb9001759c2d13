\* Three threads register while the checker iterates; entries start cleared.
SPECIFICATION FairSpec
CONSTANTS
  t1 = t1
  t2 = t2
  t3 = t3
  none = none
  one = one
  Thread <- MCThread3
  Mutex = {}
  NoThread = none
  NoMutex = none
  Tid <- MCTid
  Capacity = 2
  Garbage = one
  FreshEntry <- Cleared
INVARIANTS
  TypeOK
  NoEntryLost
  PassIsComplete
  RefusedOnlyOnReuse
PROPERTIES
  EveryQueueServed
CHECK_DEADLOCK FALSE
