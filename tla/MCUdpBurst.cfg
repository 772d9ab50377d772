\* Two or three bursts between three endpoints, all on one of the systems or
\* split over both, and a number that is no node.  At rate 3 a packet takes one
\* and a third units of time; four units let a burst send between one and three
\* packets.
CONSTANTS
  System = {"A", "B"}
  Numbers = {1, 2, 3, 4}
  Endpoints = {1, 2, 3}
  Ports = 2
  Assignments <- SomeAssignments
  Nobody = "nobody"
  Schedules <- SomeSchedules
  EndTime = 4
  SegmentTime = 4
  LinkDelay = 1
  NotWritten = none
SPECIFICATION FairSpec
INVARIANTS OnlyScheduleAborts EveryBurstIsReportedOnce TargetRateIsKept RowsAgreeWithLogs
PROPERTIES AllResultsAreWritten
CHECK_DEADLOCK FALSE
