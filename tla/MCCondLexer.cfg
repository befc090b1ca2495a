CONSTANTS
  Settings <- MCSettings
  Included <- MCIncluded
  Missing = "missing"
  Items <- MCItems
  MaxItems = 5
SPECIFICATION Spec
CHECK_DEADLOCK FALSE
INVARIANTS
  FramesNest
  SelectionIsCorrect
  DiagnosticsAreExact
