SPECIFICATION Spec
CONSTANTS
  Proc = {p1, p2}
  p1 = p1
  p2 = p2
  p3 = p3
  NoProc = NoProc
  NFD = 2
  BufSize = 2
  Byte = {0, 1}
  NoByte = NoByte
  Calls <- Transfers
  InitFd <- ReaderWriter
  MaxPos = 5
  MaxCall = 0
  MaxTick = 6
CHECK_DEADLOCK FALSE
 
PROPERTIES ImplementsFifo
