SPECIFICATION BumpSpec
CONSTANTS
  HeapThreads = {t1}
  HEAP_START = 16
  HEAP_SIZE = 64
  HEAP_ALIGN = 16
  HeapSizes = {1}
  HeapAligns = {1}
  HeapMod = 256
  MaxBlocks = 3
INVARIANTS PointersDiffer
CHECK_DEADLOCK FALSE
