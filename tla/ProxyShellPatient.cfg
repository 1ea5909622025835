SPECIFICATION FairSpec
CONSTANTS
  Targets = {ta, tb}
  MaxUpstreams = 4
  MaxRequests = 4
  Patient = TRUE
  MayFail = FALSE
PROPERTIES
  UpstreamFollowsTarget
  SocketsClosed
CHECK_DEADLOCK FALSE
