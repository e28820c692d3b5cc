CONSTANTS
  FirstCapacity = 2
  WildValues = {7}
  FreshValues = {7}
  MaxThings = 4
  MaxCells = 5
  MaxHeld = 2
  MaxCollections = 2
SPECIFICATION Spec
INVARIANT CountIsPositiveWhenDropped
CHECK_DEADLOCK FALSE
