SPECIFICATION Spec
CONSTANTS
  MaxPackets = 3
  MaxWriters = 2
  MaxTime = 2
  Delays = {1, 2}
INVARIANTS
  
  NothingDropped

  
CHECK_DEADLOCK FALSE
