CONSTANTS
  FirstCapacity = 2
  WildValues = {7}
  FreshValues = {7}
  ByteBase = 64
  Hosts <- MCRunOnly
  ProgramLength = 2
  ShortLength = 2
SPECIFICATION Spec
INVARIANT OnlyRunningExecutorsAreStepped
CHECK_DEADLOCK FALSE
