\* Up to five blocks; requests below, at and above the smallest size.
SPECIFICATION Spec
CONSTANTS
  Thread = {}
  Mutex = {}
  NoThread = none
  NoMutex = none
  Header = 4
  MinSize = 2
  Size = 28
  Request = {1, 2, 3, 7}
INVARIANTS
  TypeOK
  LiveDisjoint
  ListConsistent
  LowestFree
  FailsOnlyIfFull
  EmptyIsOneBlock
  AssertsHold
CHECK_DEADLOCK FALSE
