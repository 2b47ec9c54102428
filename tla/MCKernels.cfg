SPECIFICATION KernelsSpec
CONSTANTS
  Top = 3
  Values <- MCValues
  BuildArrays <- MCBuildArrays
  ProbeArrays <- MCProbeArrays
  BuildParts = 3
  ProbeParts = 2
  Ratio = 2
  Block = 4
  Tables <- MCTables
  Layers = {0, 1}
  Scale = 2
  c1 = 2
  c2 = 4
  c3 = 2
  c4 = 3
  c5 = 2
INVARIANTS
  KernelsTypeOK
  KeysAreKept
  JoinIsRight
  AnswersAreRight
CHECK_DEADLOCK FALSE
