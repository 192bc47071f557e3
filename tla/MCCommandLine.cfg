SPECIFICATION Spec
CONSTANTS
  CommandLines <- MCCommandLines
  Environments <- MCEnvironments
  Configs <- MCConfigs
  FileKind <- MCFileKind
  Addresses = {1}
  Users = {1}
  NullAddresses = {"null", "set"}
INVARIANTS TypeOK SourcesInOrder OneEndpoint ExitCodesAreTrue
CHECK_DEADLOCK FALSE
