SPECIFICATION Spec
CONSTANTS
  VersionOnes = {"1", "0^A"}
  OneNames = {"1"}
  Headers <- MCHeaders
  Decoders = {"netstring", "read2env"}
  EnvSize = 3
INVARIANTS ValidatesCompliance EnvIsThePairs ErrorsAreTrue
CHECK_DEADLOCK FALSE
