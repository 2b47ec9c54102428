SPECIFICATION Spec
CONSTANTS
  gpu = gpu
  cpu = cpu
  NoVertex = NoVertex
  Operation <- TreeOperation
  Start <- MCStart
  End <- MCEnd
  Edge <- TreeEdge
  Source <- TreeSource
  InEdges <- TreeInEdges
  Key <- TreeKey
  Columns <- TwoColumns
  Device <- TwoDevices
  FirstDevice = gpu
  EarlierAliases <- Fresh
  Capacity = 20
  HeapGarbage <- AnyHeap
INVARIANTS
  ProducersRanFirst
  SomeDeviceNeverMisses
  VertexKeepsItsDevice
  RepeatsComeLast
  TreeInputsArrive
PROPERTIES
  EveryOperationRuns
CHECK_DEADLOCK FALSE
