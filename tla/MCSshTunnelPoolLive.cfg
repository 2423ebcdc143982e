SPECIFICATION FairSpec
CONSTANTS
  t1 = t1  t2 = t2
  x1 = x1  x2 = x2
  p1 = p1  p2 = p2
  Threads <- MCOneThread
  Tunnels <- MCTunnels
  Ports <- MCPorts
  Conns <- MCConns
  IdleTtl = 1
  MaxTime = 2
  None = None
PROPERTIES StaleEntriesLeave
