SPECIFICATION Spec
CONSTANTS
  k1 = k1
  k2 = k2
  tmp = tmp
  nokey = nokey
  x = x
  y = y
  Key = {k1, k2}
  TmpKey = tmp
  NoKey = nokey
  Addr = {x, y}
  Lines <- AllLines
  StunKeys = {k1, k2}
  MapAddr = x
CHECK_DEADLOCK FALSE
INVARIANTS
  FlagsTellList
  NoDanglingProcess
  NewAddressMailed
  FailedKeyThere
