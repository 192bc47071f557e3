SPECIFICATION Spec
CONSTANTS
  Pids <- MCPids
  Launcher <- MCLauncher
  c1 = c1
  c2 = c2
  Clients = {c1, c2}
  NoConn = NoConn
  Console = Console
  Backlog = 2
  Faults <- AllFaults
INVARIANTS
  OneReaderPerConnection
  OneAcceptorAtATime
  SecondServers
CHECK_DEADLOCK FALSE
