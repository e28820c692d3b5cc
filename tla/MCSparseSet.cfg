CONSTANTS
  PageSize = 2
  Ids <- MCIds
  Values <- MCValues
SPECIFICATION Spec
INVARIANTS
  TypeOK
  Bijection
PROPERTY ImplementsIdTable
CHECK_DEADLOCK FALSE
