CONSTANTS
  FirstCapacity = 16
  WildValues = {}
  FreshValues = {7}
  ByteBase = 128
  Hosts <- MCLong
SPECIFICATION Spec
INVARIANT JumpTargetsAreInside
CHECK_DEADLOCK FALSE
