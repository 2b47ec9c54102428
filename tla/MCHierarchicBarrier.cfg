SPECIFICATION Spec
CONSTANTS
  threadsPerBarrier = 3
  size = 4
  Threads <- MCThreads
  Barriers <- MCBarriers
  Root <- MCRoot
  Parent <- MCParent
  ThreadCount <- MCThreadCount
  Below <- MCBelow
  RoundSize = 2
INVARIANTS
  FinalizerRunsAlone
  NobodyIsLapped
PROPERTIES
  OneIsTold
  KeepsPromise
