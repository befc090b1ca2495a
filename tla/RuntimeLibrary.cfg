SPECIFICATION LibrarySpec
CONSTANTS
  Vars = {s1, s2}
  Chars = {nul, a}
  Nul = nul
  MaxLength = 2
  MaxBuffers = 4
  FileVars = {f1, f2}
  FileNames = {n1, n2}
  Unwritable = {n2}
  Records = {r1, r2}
  Hole = hole
  Capacity = 2
  MaxRecords = 3
SYMMETRY Symmetry
INVARIANTS
  EarlyAllocatorsFindStrings
  FilesKeepWhatWasWritten
PROPERTIES
  LongStringsAreValues
CHECK_DEADLOCK FALSE
