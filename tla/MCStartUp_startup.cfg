SPECIFICATION Spec
CONSTANTS
  sa = sa
  sb = sb
  sp = sp
  h = h
  o = o
  IPs = {sa, sb, sp, h, o}
  Servers <- Sockets
  Changed <- Others
  Plain <- PlainOnes
  Answering <- Peers
  NATs = {"FULL_CONE", "RESTRICTED", "PORT_RESTRICTED", "SYMMETRIC"}
  Retries = 1
  XorMapped = TRUE
  MaxLoss = 1
  MaxLate = 2
  Mailbox <- Mail
  Self <- me
  FirstFiles <- Files
  Taken <- PortsTaken
  MaxRuns = 2
  MaxCmds = 2
CHECK_DEADLOCK FALSE
INVARIANTS
  TypeOK
  NumbersTellKeys
  GivesUpOnAll
  BridgeAnswered
  NeverTooOpen
PROPERTIES
  KeysKept
  StartUpEnds
