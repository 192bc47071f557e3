SPECIFICATION Spec
CONSTANTS
  VersionOnes = {"1", "0^A"}
  OneNames = {"1"}
  Headers <- MCHeaders
  Wires = {"whole", "no_size", "no_colon", "bad_size",
           "truncated", "no_comma"}
  MAX_ENV_COUNT = 3
INVARIANTS EnvIsThePairs OnlyCompliantRequests ExitCodesAreTrue
CHECK_DEADLOCK FALSE
