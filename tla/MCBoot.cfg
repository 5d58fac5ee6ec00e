SPECIFICATION BootSpec
CONSTANTS
  WORD = 64
  HEAP_START = 16
  HEAP_SIZE = 14
  Requests <- MCRequests
  NAME_LEN = 3
  BASE = 16
  Names <- MCNames
  Contents <- MCContents
  MaxFiles = 2
INVARIANTS MemInv GetsThePackedFile WalkStaysInImage LongNamesAreNotFound
CHECK_DEADLOCK FALSE
