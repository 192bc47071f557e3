SPECIFICATION Spec
CONSTANTS
  Programs <- MCPrograms
  StartPhases = {"new", "scan"}
  Environments <- MCEnvironments
  OnDups = {"overwrite", "ignore", "append"}
  SO_DUP_MAX = 3
INVARIANTS TypeOK RightUseCounts AppendKeepsAll EveryUsedOption ValidatedNeverStops
CHECK_DEADLOCK FALSE
