\* Two pings of the same node with up to two requests each; the second may get
\* the port of the first.
CONSTANTS
  Schedules <- SomeSchedules
  EndTime = 5
  Ports = {p1, p2}
  Closed = closed
  NotWritten = none
SPECIFICATION Spec
SYMMETRY PortSymmetry
INVARIANTS NeverAborts RepliesAreOwn RequestsKeepInterval SocketClosesOnTime RowsAreComplete
CHECK_DEADLOCK FALSE
