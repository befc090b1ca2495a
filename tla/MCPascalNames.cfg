CONSTANTS
  Names = {"x", "y", "result"}
  ResultName = "result"
  NoName = "-"
  Main = "main"
  Runtime = "rt"
  Worlds <- MCWorlds
  Classes <- MCClasses
  Depth = 3
  NestedDepth = 3
  Declarations = 2
  Uses <- MCUses
  Exports <- MCExports
  Lists <- MCLists
  MaxLists = 3
  MaxDeclarations = 3
SPECIFICATION BothSpec
INVARIANTS
  NamesMeanTheInnermost
  
  TypesMeanTheirDeclarations
  DuplicatesAreReported
CHECK_DEADLOCK FALSE
