SPECIFICATION FairSpec
CONSTANTS
  NENV = 4
  NBoot = 4
  MaxGen = 1
  Val = {v1}
  Ops <- OneReceiver
  Perms = {"none"}
  Wakes = FALSE
  Dstvas = {"none"}
  Nobody = Nobody
  Empty = Empty
  Waiting = Waiting
  v1 = v1
CHECK_DEADLOCK FALSE
PROPERTIES  RunnableRuns ReceiverServed
