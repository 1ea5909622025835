SPECIFICATION FairSpec
CONSTANTS
  MaxPackets = 2
  MaxWriters = 2
  MaxTime = 2
  Delays = {1}
PROPERTIES
  Forwarded
  WritersFinish
CHECK_DEADLOCK FALSE
