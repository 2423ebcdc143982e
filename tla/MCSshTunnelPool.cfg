SPECIFICATION Spec
CONSTANTS
  t1 = t1  t2 = t2
  x1 = x1  x2 = x2
  p1 = p1  p2 = p2
  Threads <- MCThreads
  Tunnels <- MCTunnels
  Ports <- MCPorts
  Conns <- MCConns
  IdleTtl = 0
  MaxTime = 1
  None = None
SYMMETRY MCSymmetry
INVARIANTS LivePortLeadsHome LostOnlyByOverlap
PROPERTIES ServesTunnels EvictionClosesWhatItRemoves
