CONSTANTS
  FirstCapacity = 2
  WildValues = {7}
  FreshValues = {7}
  ByteBase = 64
  Hosts <- MCShortPrograms
  ProgramLength = 2
  ShortLength = 2
SPECIFICATION Spec
INVARIANT ReturnReleasesOnlyThings
CHECK_DEADLOCK FALSE
