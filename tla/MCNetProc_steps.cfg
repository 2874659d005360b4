SPECIFICATION FairSpec
CONSTANTS
  p1 = p1
  p2 = p2
  p3 = p3
  Node = {p1, p2}
  NoNode = NoNode
  Steps <- TwoProcSteps
  Retrys <- MCRetrys
  GoOnOnly = {p2}
  MaxStarts = 2
  MaxSets = 1
  MaxBacks = 1
INVARIANTS
  RetryBudget
PROPERTY
  GoOnEnds
