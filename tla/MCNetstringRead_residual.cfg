SPECIFICATION Spec
CONSTANTS
  Lists <- CutLists
  HttpBody <- MCHttpBody
  Readers <- DefaultReader
  Middle <- MCMiddle
  Truncation = TRUE
  ReadAhead = 1
  Garbage <- MCGarbage
  StaleSizes <- MCStaleSizes
INVARIANT ReadsTheNetstring
CHECK_DEADLOCK FALSE
