CONSTANTS
  Width <- MCWidth
  Samples <- MCSamples
  Parent <- MCParent
  CallGroups <- MCCallGroups
  ProcNames <- MCProcNames
  ProcTypes <- MCProcTypes
SPECIFICATION Spec
INVARIANTS
  ExpressionsMeanTheirNumbers
  
  
  PickIsTheBest
  IntegerCallsHoldTheirDomain
