SPECIFICATION MCSpec
CONSTANTS
  ClassesUsed = {0, 1}
  MaxTasks = 3
  MaxTicks = 2
  MaxSchedules = 2
  MaxSwitches = 2
  MaxEnqueues = 2
  MaxMisuses = 1
  FrameCount = 6
  BitCount = 4
  HeapThreads = {"t1", "t2"}
  HEAP_START = 2
  HEAP_SIZE = 16
  HEAP_ALIGN = 4
  HeapSizes = {1, 4}
  HeapAligns = {1, 8}
  HeapMod = 32
  MaxBlocks = 3
  CacheNames = {"a", "b"}
  CacheConfigs <- MCCacheConfigs
  Requests <- MCRequests
  SLAB_PAGE_SIZE = 6
  MaxCaches = 2
  MaxSlabs = 2
  MaxLive = 3
  PAGE_SIZE = 4
  ENTRY_COUNT = 2
  AddrMod = 128
  PhysUsed = {0, 4}
  FlagsUsed = {0, 1}
  Starts = {0, 28, 124}
  Sizes = {8}
  Direct = TRUE
  MaxAreas = 1
INVARIANTS TypesOK QueueMatchesTable FailsOnlyWhenFull ObjectsAccounted TablesAreAMap PartsExact
PROPERTIES HeapAllocates SlabsAllocate HighestClassRuns
CHECK_DEADLOCK FALSE
