CONSTANTS
  NoFile = NoFile
  Entry = "main.pas"
  Files <- MCFiles
  Names <- MCNames
  Runtime <- MCRuntime
  Index <- MCIndex
  ProgKey <- MCProgKey
  Inputs <- MCInputs
SPECIFICATION Spec
CHECK_DEADLOCK FALSE
INVARIANTS
  OkUnitsUseOkUnits
  CycleReportsAreReal
  ErrorsAreReported
PROPERTIES
  Terminates
  ImplementsDiscovery
