SPECIFICATION Spec
CONSTANTS
  Worlds <- MCWorlds
  First <- MCFirst
  SignOns <- MCSignOns
  Dictionaries <- MCDictionaries
  Precache <- MCPrecache
  HistorySize = 3
  ScaleSize = 8
  MaxBack = 2
  RemapSize = 8
  LinkSize = 32
  StartSeq = 29
  MaxTurns <- MCTurns
  MaxInFlight = 2
  MaxFaults <- MCFaults
INVARIANTS
  InStep
  
  NothingDroppedWhenClean
  HistoriesAgree
CHECK_DEADLOCK FALSE
