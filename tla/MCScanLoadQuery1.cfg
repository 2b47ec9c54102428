SPECIFICATION ScanSpec
CONSTANTS
  gpu = gpu
  cpu = cpu
  Operation <- MCOperation
  Start <- MCStart
  End <- MCEnd
  Edge <- MCEdge
  Source <- MCSource
  InEdges <- MCInEdges
  Key <- MCKey
  Columns <- MCColumns
  Device <- MCDevice
  FirstDevice = gpu
  EarlierAliases <- AfterFirstGraph
INVARIANTS
  ScanEdgesHoldTheirColumn
CHECK_DEADLOCK FALSE
