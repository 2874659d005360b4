SPECIFICATION FairSpec
CONSTANTS
  a = a
  b = b
  s = s
  S = S
  A = A
  B = B
  C = C
  Peer = {a, b}
  Server = S
  NoAddr = NoAddr
  Name = {A, B}
  NoName = NoName
  NameOf <- MCNames
  NATOf <- DirectNATs
  MaxNet = 1
  MaxDups = 0
  SubRetrys = 1
  MaxRelayID = 3
  CliRetrys = 0
  SendRetrys = 1
  RelayIDs = {0, 1, 2, 3, 99}
  JunkRelayIDs = {0}
  UintSize = 8
  UcharSize = 4
  Typed = {A, B}
  MaxConnects <- OnlyA
  MaxDirects <- None
  MaxOverwrites = 1
  MaxRestarts <- None
  AlreadyUp = {b}
  MaxCommands = 1
  MaxTogether = 2
PROPERTIES
  NameReleased
  ClientReturns
  SubReturns
