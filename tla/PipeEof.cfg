SPECIFICATION FairSpec
CONSTANTS
  Proc = {p1, p2}
  p1 = p1
  p2 = p2
  p3 = p3
  NoProc = NoProc
  NFD = 2
  BufSize = 1
  Byte = {0}
  NoByte = NoByte
  Calls <- Closes
  InitFd <- BothEnds
  MaxPos = 2
  MaxCall = 2
  MaxTick = 1
CHECK_DEADLOCK FALSE
PROPERTIES EofSeen
