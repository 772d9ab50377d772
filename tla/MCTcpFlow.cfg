\* Five bytes in steps of two, the last one shorter, through a buffer that is
\* smaller than a step, as large as one, or larger by a part of one.
CONSTANTS
  m_flowSizeByte = 5
  m_sendStepSize = 2
  BufferSizes = {1, 2, 3}
  Horizon = 2
SPECIFICATION FairSpec
INVARIANTS ReportedIsReceived ClosedWhenAllIsSent ProgressLogMatchesLine
PROPERTIES ReportIsFinal FlowFinishes
CHECK_DEADLOCK FALSE
