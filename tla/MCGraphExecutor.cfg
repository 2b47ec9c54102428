SPECIFICATION Spec
CONSTANTS
  gpu = gpu
  cpu = cpu
  Operation <- MCOperation
  Start <- MCStart
  End <- MCEnd
  Edge <- MCEdge
  Source <- MCSource
  InEdges <- MCInEdges
  Key <- MCKey
  Columns <- MCColumns
  Device <- MCDevice
  FirstDevice = gpu
  EarlierAliases <- SafeCounters
  Placements <- AllPlacements
  Environments <- BothLayers
INVARIANTS
  TypeOK
  ResultsAreRight
  KernelsStartOnRightInputs
PROPERTIES
  QueryFinishes
CHECK_DEADLOCK FALSE
