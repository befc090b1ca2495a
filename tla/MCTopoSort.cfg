CONSTANTS
  Numbers <- MCNumbers
  Tables <- MCTables
SPECIFICATION SortSpec
CHECK_DEADLOCK FALSE
INVARIANTS
  DependenciesFirst
  LeftOverIsBlocked
