\* A queue asked for five slots, batches of up to three, counters that wrap.
SPECIFICATION Spec
CONSTANTS
  x = x
  y = y
  NoData = NoData
  Data <- MCData
  Requested = 5
  Word = 8
  MaxBatch = 3
INVARIANTS
  TypeOK
  SlotsDisjoint
  NoOverrun
PROPERTIES
  IsFifo
