SPECIFICATION Spec
CONSTANTS
  Targets = {ta, tb}
  MaxUpstreams = 2
  MaxRequests = 3
  Patient = FALSE
  MayFail = TRUE
INVARIANTS
  CurrentIsNewest
  NewIsSent
CHECK_DEADLOCK FALSE
