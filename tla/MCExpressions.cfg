CONSTANTS
  FirstCapacity = 16
  WildValues = {}
  FreshValues = {7}
  ByteBase = 128
  Hosts <- MCHosts
SPECIFICATION FairSpec
INVARIANTS
  ComputesOrTraps
  CountsExact
PROPERTY CallsReturn
CHECK_DEADLOCK FALSE
