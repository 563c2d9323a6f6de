SPECIFICATION Spec
CONSTANTS
  WordSize = 64
  HeapStart = 8
  HeapEnd = 40
  BlockSize = 16
  MinSmall = 4
  LastIndex = 1
  Request <- MCRequest
  CallocRequest <- MCCallocRequest
  MaxLive = 3
  KdbReturns = TRUE
INVARIANT
  InsideHeap
CHECK_DEADLOCK FALSE
