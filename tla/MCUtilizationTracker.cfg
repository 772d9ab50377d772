\* Intervals of 3 and 10 instants: callbacks on and off the boundaries, calls
\* that complete up to three intervals, a last interval of any length.
CONSTANTS
  m_interval_ns = 3
  Horizon = 10
  Threshold = 1000000
SPECIFICATION Spec
INVARIANTS TypeOK IntervalsAreExact IntervalsCoverRun CompressionIsFaithful
CHECK_DEADLOCK FALSE
