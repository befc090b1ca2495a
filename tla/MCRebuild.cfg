CONSTANTS
  Order <- MCShortOrder
  Runtime <- MCRuntime
  Uses <- MCShortUses
  Sorted <- MCShortSorted
  Processes = {p1}
  MaxVersion = 1
  MaxStops = 2
SPECIFICATION Spec
INVARIANTS
  GoodBuildIsFresh
  FailureIsRetried
PROPERTIES
  
  Converges
