SPECIFICATION Spec
CONSTANTS
  n1 = n1
  n2 = n2
  PipeName <- MCNames
  NoPipe = NoPipe
  ConnID = {1, 2, 3, 4, 5, 6, 7, 8}
  Node = {n1, n2}
  Retrys = 2
  Users = {n1}
  UserLinks <- MCLinks
  MaxFaults = 2
  MaxConnects = 2
  MaxLines = 3
  MaxTogether = 4
  MaxLinks = 1
  Slack = 3
CHECK_DEADLOCK FALSE
INVARIANTS
  PipesLinked
  PipesTellSessions
PROPERTIES
  PipesOnce
  KeptAlive
  HalfEnds
