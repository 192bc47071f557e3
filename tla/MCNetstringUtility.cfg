SPECIFICATION Spec
CONSTANTS
  Size <- MCSize
  Jobs <- MCJobs
  Disks <- MCDisks
  Unwritable = {"nowhere"}
  MAX_LENGTH_DEFAULT = 35
  MAX_STRINGS_DEFAULT = 14
  TIMING_DEFAULT = 2
  VersionOnes = {"1"}
  OneNames = {"1"}
INVARIANTS TypeOK RoundTrip 
CHECK_DEADLOCK FALSE
