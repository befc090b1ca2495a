CONSTANTS
  Classic = 4
  Small = 2
  Large = 3
  Chars = {0, 1}
  Nb = 2
  ByteBits = 2
  TextChars = {"0", "1", "7", "A", "-", "$", " "}
  PathChars <- MCPathChars
  MaxText = 4
  IntTypes <- MCIntTypes
  Carriers <- MCCarriers
  Code <- MCCode
  Years <- MCYears
  Variables = {v1, v2, v3}
  Elements = {0, 1}
  MaxLength = 2
  Blocks = {b1, b2, b3, b4}
  Names = {f, g, d}
  Directories = {d}
  Ends <- MCEnds
  MaxCalls = 2
SPECIFICATION Spec
INVARIANTS
  TextIsWithinItsLength
  SetsAreSets
  
  
CHECK_DEADLOCK FALSE
PROPERTIES
  ArraysKeepTheirPromise
