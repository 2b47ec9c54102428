SPECIFICATION Spec
CONSTANTS
  gpu = gpu
  cpu = cpu
  NoVertex = NoVertex
  Operation <- TreeOperation
  Start <- MCStart
  End <- MCEnd
  Edge <- TreeEdge
  Source <- TreeSource
  InEdges <- TreeInEdges
  Key <- TreeKey
  Columns <- TwoColumns
  Device <- TwoDevices
  FirstDevice = gpu
  EarlierAliases <- Fresh
  Capacity = 20
  HeapGarbage <- Heap
INVARIANTS
  ExecutesWhatItPopped
CHECK_DEADLOCK FALSE
