SPECIFICATION FairSpec
CONSTANTS
  k1 = k1
  k2 = k2
  tmp = tmp
  nokey = nokey
  x = x
  y = y
  Key = {k1, k2}
  TmpKey = tmp
  NoKey = nokey
  Addr = {x, y}
  Lines <- OnlyExit
  StunKeys = {k1, k2}
  MapAddr = x
CHECK_DEADLOCK FALSE
PROPERTY
  ExitEnds
