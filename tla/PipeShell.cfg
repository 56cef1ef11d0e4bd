SPECIFICATION Spec
CONSTANTS
  Proc = {p2, p3}
  p1 = p1
  p2 = p2
  p3 = p3
  NoProc = NoProc
  NFD = 3
  BufSize = 1
  Byte = {0}
  NoByte = NoByte
  Calls <- Shell
  InitFd <- JustMade
  MaxPos = 2
  MaxCall = 3
  MaxTick = 3
CHECK_DEADLOCK FALSE
INVARIANTS EofTrue
