SPECIFICATION FairSpec
CONSTANTS
  SeqLimit = 80
  MaxSeq = 40
  Failures <- MCFailures
INVARIANTS
  ActiveIsConnected

  
CHECK_DEADLOCK FALSE
