SPECIFICATION Spec
CONSTANTS
  Name = {1, 2, 3, 4, 5, 6}
  Root = 2
  NoPeer = NoPeer
  Priority = {0, 1, 2}
INVARIANTS
  LinksAgree
  HeapOfThePriorities
  LevelsAreDepths
  FreedAfterItsChildren
PROPERTIES
  FindsThePeers
