SPECIFICATION Spec
CONSTANTS
  e1 = e1
  e2 = e2
  f1 = f1
  a = a
  b = b
  NoEnv = NoEnv
  NoTrans = NoTrans
  NoName = NoName
  Zero = Zero
  Junk = Junk
  Env = {e1}
  Name = {f1}
  Val = {a}
  NTrans = 2
  TransPerSector = 2
  MaxHandles = 2
  HandleCap = 2
  FileLen = 1
  NBlocks = 6
  Ops = {"CREAT", "WRITE", "TRUNC", "DELET", "EXIT"}
  Seeks = FALSE
  Mixes = TRUE
  MaxReq = 2
  MaxCrash = 0
\* After a panic, with no crash left, the machine has stopped.
CHECK_DEADLOCK FALSE
INVARIANTS BlocksOwned
