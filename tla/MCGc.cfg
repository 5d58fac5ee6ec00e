SPECIFICATION MCSpec
CONSTANTS
  BLOCKS_PER_ATB = 2
  ATB_LEN = 2
  WORDS_PER_BLOCK = 1
  MICROPY_ALLOC_GC_STACK_SIZE = 1
  NROOTS = 1
  Stored = {2, 4}
INVARIANTS GcInv MarkInv ChainsAreWhole NoFreeBlockBeforeIndex SweepCoversHeap
PROPERTIES HeapSpec
