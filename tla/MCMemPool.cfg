\* Three threads that take and give back the blocks of a pool of three.
SPECIFICATION Spec
CONSTANTS
  Thread = {t1, t2, t3}
  Mutex = {}
  NoThread = none
  NoMutex = none
  total_blocks = 3
INVARIANTS
  TypeOK
  BlocksDisjoint
  ListIsWhole
  AssertsHold
PROPERTIES
  RefusesOnlyIfEmpty
CHECK_DEADLOCK FALSE
