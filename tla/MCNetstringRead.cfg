SPECIFICATION FairSpec
CONSTANTS
  Lists <- MCLists
  HttpBody <- MCHttpBody
  Readers <- MCReaders
  Middle <- MCMiddle
  Truncation = TRUE
  ReadAhead = 1
  Garbage <- MCGarbage
  StaleSizes <- MCStaleSizes
INVARIANTS TypeOK SuccessMeansSent  OnlyTheNetstring
PROPERTY EventuallyReturns
CHECK_DEADLOCK FALSE
