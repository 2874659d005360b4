SPECIFICATION Spec
CONSTANTS
  a = a
  b = b
  s = s
  S = S
  A = A
  B = B
  C = C
  Peer = {a, b}
  Server = S
  NoAddr = NoAddr
  Name = {A, B}
  NoName = NoName
  NameOf <- MCNames
  NATOf <- DirectNATs
  MaxNet = 2
  MaxDups = 1
  SubRetrys = 0
  MaxRelayID = 3
  CliRetrys = 0
  SendRetrys = 0
  RelayIDs = {0, 1, 2, 3, 99}
  JunkRelayIDs = {0}
  UintSize = 8
  UcharSize = 4
  Typed = {A, B}
  MaxConnects <- OnlyA
  MaxDirects <- AandServer
  MaxOverwrites = 0
  MaxRestarts <- BandServer
  AlreadyUp = {a, b}
  MaxCommands = 1
  MaxTogether = 2
INVARIANTS
  TypeOK
  OnlyIntroduced
  TargetNamed
  SeedsAlive
  BridgedMeansMet
