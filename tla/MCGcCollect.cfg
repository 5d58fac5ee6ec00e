SPECIFICATION CollectSpec
CONSTANTS
  BLOCKS_PER_ATB = 3
  ATB_LEN = 2
  WORDS_PER_BLOCK = 2
  MICROPY_ALLOC_GC_STACK_SIZE = 1
  NROOTS = 1
  Stored = {}
INVARIANTS MarksAreTraced
PROPERTIES CollectionIsExact CollectionEnds
CHECK_DEADLOCK FALSE
