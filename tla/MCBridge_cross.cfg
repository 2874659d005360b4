SPECIFICATION Spec
CONSTANTS
  a = a
  b = b
  s = s
  S = S
  A = A
  B = B
  C = C
  Peer = {a, b, s}
  Server = S
  NoAddr = NoAddr
  Name = {A, B, C}
  NoName = NoName
  NameOf <- MCNames
  NATOf <- CrossNATs
  MaxNet = 1
  MaxDups = 0
  SubRetrys = 0
  MaxRelayID = 3
  CliRetrys = 0
  SendRetrys = 0
  RelayIDs = {0, 1, 2, 3, 99}
  JunkRelayIDs = {0}
  UintSize = 4
  UcharSize = 4
  Typed = {B}
  MaxConnects <- AandS
  MaxDirects <- None
  MaxOverwrites = 0
  MaxRestarts <- None
  AlreadyUp = {a, b, s}
  MaxCommands = 2
  MaxTogether = 2
INVARIANT
  BridgedMeansMet
