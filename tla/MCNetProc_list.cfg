SPECIFICATION Spec
CONSTANTS
  p1 = p1
  p2 = p2
  p3 = p3
  Node = {p1, p2, p3}
  NoNode = NoNode
  Steps <- OneStepEach
  Retrys <- NoRetrys
  GoOnOnly = {}
  MaxStarts = 2
  MaxSets = 0
  MaxBacks = 0
INVARIANTS
  TypeOK
  ListSound
  NotifiedOnce
  RepeatsOnlyAfterTailDrop
PROPERTIES
  RoundReachesAll
  ImplementsRoundRobin
