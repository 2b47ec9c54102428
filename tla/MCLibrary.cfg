SPECIFICATION LibrarySpec
CONSTANTS
  Alignment = 4
  Sizes = {1, 4, 19}
  InitialSize = 8
  Addresses = {100, 101, 102, 103, 200, 201, 203, 300, 301}
  MaxAllocations = 4
  Threads <- MCThreads
  PoolSizes = {1, 5}
  ChunkAddresses = {1, 13, 25}
  Header = 1
  FirstSize = 2
  MaxCalls = 4
  RowsOf <- MCRowsOf
  t1 = t1
  t2 = t2
  Nobody = Nobody
  threadsPerBarrier = 3
  MaxSize = 30
  Last = 3
  MaxFailures = 4
INVARIANTS
  BlocksAreDisjoint
  BlocksLieInPieces
  PartsTypeOK
  PoolBlocksAreSafe
  BarriersAreFilled
  EveryBarrierIsFreedOnce
  ColumnsAreOfOneSize
  OnlyTheLastIsPartial
  FailsOnlyOnce
CHECK_DEADLOCK FALSE
