SPECIFICATION Spec
CONSTANTS
  Packets <- MCPackets
  Commands <- MCCommands
  NameTables <- MCNameTables
  Asking = {"quiet"}
  Response <- MCResponse
  Frequencies <- MCFrequencies
  ProxyTexts <- MCProxyTexts
  CommonTexts <- MCCommonTexts
  MoveHistory = 8
  MaxDelta = 4
  LinkSize = 32
  StartSeq = 30
  AckLag = 3
  Gaps <- MCGaps
  MaxPackets = 3
  MaxInFlight = 2
  MaxFaults = 1
INVARIANTS
  
  ClientInStep
  MovesAreTheClients
  RejectedOnlyAfterFault
CHECK_DEADLOCK FALSE
