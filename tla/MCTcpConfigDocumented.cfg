\* One simulation.
CONSTANTS
  Error = Error
  Int64Of <- MCInt64Of
  DoubleOf <- MCDoubleOf
  One = 1
  Configurations <- SomeConfigurations
  MaxSimulations = 1
  MaxCalls = 1
SPECIFICATION TcSpec
INVARIANT DocumentedKeysAreEnough
CHECK_DEADLOCK FALSE
