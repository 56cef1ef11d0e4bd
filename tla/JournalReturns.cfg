SPECIFICATION FairSpec
CONSTANTS
  e1 = e1
  e2 = e2
  f1 = f1
  a = a
  b = b
  NoEnv = NoEnv
  NoTrans = NoTrans
  NoName = NoName
  Zero = Zero
  Junk = Junk
  Env = {e1}
  Name = {f1}
  Val = {a}
  NTrans = 1
  TransPerSector = 2
  MaxHandles = 3
  HandleCap = 1
  FileLen = 2
  NBlocks = 7
  Ops = {"WRITE", "DELET"}
  Seeks = FALSE
  Mixes = TRUE
  MaxReq = 2
  MaxCrash = 2
\* After a panic, with no crash left, the machine has stopped.
CHECK_DEADLOCK FALSE
PROPERTIES ServerReturns
