SPECIFICATION FairSpec
CONSTANTS
  Addrs = {a1, a2, a3}
  MaxClients = 2
  MaxUpdates = 1
  Bases <- MCBases
  KeyOf <- MCKeyOf
  MaxUserID = 3
  MaxInputs = 4
  Inputs <- MCInputs
INVARIANTS
  
  DoneOnce
PROPERTIES
  WireInOrder
  
  ScoreboardConverges
CHECK_DEADLOCK FALSE
