CONSTANTS
  Program = Program
  Nobody = Nobody
  Names <- MCNames
  Graphs <- MCGraphs
SPECIFICATION StartupSpec
CHECK_DEADLOCK FALSE
INVARIANTS
  EveryUnitStartsOnce
  TeardownMirrorsStartup
  UsedUnitsAreAlive
PROPERTY
  ProgramEnds
