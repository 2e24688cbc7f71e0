SPECIFICATION Spec
CONSTANTS
  Peers = {p1, p2, p3}
  Quiet = {p3}
  MaxHandle = 3
  Nodes = {1, 2, 3}
  HostNode = 0
  None = none
INVARIANT OwnHandle
PROPERTIES PendingLive Answered
CHECK_DEADLOCK FALSE
