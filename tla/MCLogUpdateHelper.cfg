\* Three values and another one for the constructor's; six instants are enough
\* for alpha, beta, a merge, a shift and a zero-length last interval.
CONSTANTS
  Values = {low, mid, high}
  NoValue = none
  Horizon = 5
  SaveInMemory = TRUE
  SaveToFile = TRUE
SPECIFICATION Spec
INVARIANTS TypeOK PartialLogIsExact
PROPERTIES MemoryLogIsExact FileLogIsExact
CHECK_DEADLOCK FALSE
