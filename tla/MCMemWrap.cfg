SPECIFICATION MemSpec
CONSTANTS
  WORD = 64
  HEAP_START = 16
  HEAP_SIZE = 14
  Requests <- MCAnyRequest
INVARIANT BlocksInHeap
CHECK_DEADLOCK FALSE
