SPECIFICATION Spec
CONSTANTS
  sa = sa
  sb = sb
  sp = sp
  h = h
  o = o
  IPs = {sa, sb, sp, h, o}
  Servers <- Sockets
  Changed <- Others
  Plain = {}
  Answering = {}
  NATs = {"RESTRICTED"}
  Retries = 0
  XorMapped = FALSE
  MaxLoss = 0
  MaxLate = 0
  Mailbox <- NoMail
  Self <- me
  FirstFiles <- OneServer
  Taken = {}
  MaxRuns = 1
  MaxCmds = 0
CHECK_DEADLOCK FALSE
INVARIANT
  DoubleCheckedRight
