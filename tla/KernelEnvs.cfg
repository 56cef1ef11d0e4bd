SPECIFICATION Spec
CONSTANTS
  NENV = 4
  NBoot = 3
  MaxGen = 2
  Val = {v1}
  Ops <- Lifecycle
  Perms = {"none"}
  Wakes = FALSE
  Dstvas = {"none"}
  Nobody = Nobody
  Empty = Empty
  Waiting = Waiting
  v1 = v1
CHECK_DEADLOCK FALSE
INVARIANTS FreeListExact IdleLast CurRunnable  WaitedGone
