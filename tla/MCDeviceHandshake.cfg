SPECIFICATION Spec
CONSTANTS
  scan = scan
  filter = filter
  aggregate = aggregate
  INT_MAX = INT_MAX
  Vertex <- MCVertex
INVARIANTS
  UnlockedWritesAreExclusive
  NoLostWakeup
  AnswerIsCurrent
PROPERTIES
  ImplementsRendezvous
CHECK_DEADLOCK FALSE
