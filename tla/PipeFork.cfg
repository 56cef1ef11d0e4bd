SPECIFICATION Spec
CONSTANTS
  Proc = {p1, p2, p3}
  p1 = p1
  p2 = p2
  p3 = p3
  NoProc = NoProc
  NFD = 2
  BufSize = 1
  Byte = {0}
  NoByte = NoByte
  Calls <- Forks
  InitFd <- WithChild
  MaxPos = 1
  MaxCall = 1
  MaxTick = 3
CHECK_DEADLOCK FALSE
INVARIANTS EofTrue
