SPECIFICATION Spec
CONSTANTS
  NENV = 4
  NBoot = 3
  MaxGen = 2
  Val = {v1}
  Ops <- Served
  Perms = {"rw"}
  Wakes = FALSE
  Dstvas = {"none", "va"}
  Nobody = Nobody
  Empty = Empty
  Waiting = Waiting
  v1 = v1
CHECK_DEADLOCK FALSE
INVARIANTS TypeOK 
PROPERTIES ImplementsRendezvous  Addressed
