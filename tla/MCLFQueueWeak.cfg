\* The same queue on a processor that loads slots ahead of the counters.
SPECIFICATION WeakSpec
CONSTANTS
  x = x
  y = y
  NoData = NoData
  Data <- MCData
  Requested = 5
  Word = 8
  MaxBatch = 3
PROPERTIES
  IsFifo
