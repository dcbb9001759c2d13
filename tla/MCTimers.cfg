\* The first collection of ended threads.
SPECIFICATION Spec
CONSTANTS
  Thread = {}
  Mutex = {}
  NoThread = none
  NoMutex = none
  Period = 1
  GcPeriod = 3
  Indeterminate = {0, 1, 5}
  MaxTime = 5
INVARIANTS
  TimersNeverAbort
CHECK_DEADLOCK FALSE
