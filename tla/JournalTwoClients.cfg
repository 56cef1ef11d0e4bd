SPECIFICATION Spec
CONSTANTS
  e1 = e1
  e2 = e2
  f1 = f1
  a = a
  b = b
  NoEnv = NoEnv
  NoTrans = NoTrans
  NoName = NoName
  Zero = Zero
  Junk = Junk
  Env = {e1, e2}
  Name = {f1}
  Val = {a, b}
  NTrans = 2
  TransPerSector = 2
  MaxHandles = 3
  HandleCap = 2
  FileLen = 2
  NBlocks = 7
  Ops = {"WRITE", "SYNC", "EXIT"}
  Seeks = FALSE
  Mixes = TRUE
  MaxReq = 2
  MaxCrash = 2
SYMMETRY Values
\* After a panic, with no crash left, the machine has stopped.
CHECK_DEADLOCK FALSE
INVARIANTS SlotOwned OneActive FreshSlot 
