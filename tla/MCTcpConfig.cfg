\* Three simulations in a process, with up to two calls of Configure each.
CONSTANTS
  Error = Error
  Int64Of <- MCInt64Of
  DoubleOf <- MCDoubleOf
  One = 1
  Configurations <- SomeConfigurations
  MaxSimulations = 3
  MaxCalls = 2
SPECIFICATION TcSpec
INVARIANTS SettingsAreOwn
CHECK_DEADLOCK FALSE
