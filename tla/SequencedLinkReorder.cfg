SPECIFICATION Spec
CONSTANTS
  SeqLimit = 16
  MaxClientSeq = 4
  MaxServerSeq = 5
  MaxClientCmds = 1
  MaxServerCmds = 2
  Reordering = TRUE
INVARIANTS
  ServerCommandsKept
CHECK_DEADLOCK FALSE
