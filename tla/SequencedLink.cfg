SPECIFICATION Spec
CONSTANTS
  SeqLimit = 16
  MaxClientSeq = 4
  MaxServerSeq = 5
  MaxClientCmds = 2
  MaxServerCmds = 1
  Reordering = FALSE
INVARIANTS
  ClientStreamInv
  ServerStreamInv
PROPERTIES
  ClientCommandsExactlyOnce
  ServerCommandsExactlyOnce
CHECK_DEADLOCK FALSE
