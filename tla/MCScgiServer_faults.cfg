SPECIFICATION Spec
CONSTANTS
  Pids <- MCPids
  Launcher <- MCLauncher
  c1 = c1
  c2 = c2
  Clients = {c1, c2}
  NoConn = NoConn
  Console = Console
  Backlog = 2
  Faults <- AllButExec
INVARIANTS
  TypeOK
  OneRequestAtATime
  NoConnectionLeak
 
PROPERTY ImplementsSafeService
CHECK_DEADLOCK FALSE
