SPECIFICATION FairSpec
CONSTANTS
  Pids <- MCPids
  Launcher <- MCLauncher
  c1 = c1
  c2 = c2
  c3 = c3
  Clients = {c1, c2, c3}
  NoConn = NoConn
  Console = Console
  Backlog = 2
  Faults <- NoFaults
INVARIANTS
  WiredToConnection
PROPERTIES
  EveryClientAnswered
  ImplementsService
CHECK_DEADLOCK FALSE
