SPECIFICATION Spec
CONSTANTS
  gpu = gpu
  cpu = cpu
  NoVertex = NoVertex
  Operation <- DiamondOperation
  Start <- MCStart
  End <- MCEnd
  Edge <- DiamondEdge
  Source <- DiamondSource
  InEdges <- DiamondInEdges
  Key <- DiamondKey
  Columns <- ThreeColumns
  Device <- TwoDevices
  FirstDevice = gpu
  EarlierAliases <- Fresh
  Capacity = 20
  HeapGarbage <- Heap
INVARIANTS
  InputsAreInTarget
CHECK_DEADLOCK FALSE
