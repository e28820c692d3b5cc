CONSTANTS
  FirstCapacity = 2
  WildValues = {7}
  FreshValues = {7}
  ByteBase = 64
  Hosts <- MCHosts
  ProgramLength = 4
  ShortLength = 2
SPECIFICATION Spec
INVARIANTS
  TypeOK
  ExecutorIds
  CountsExact
  FramesMatch
PROPERTIES
  RunReturnsWhenAllFinished
  ImplementsTasks
  ThingsAreImmutable
CHECK_DEADLOCK FALSE
