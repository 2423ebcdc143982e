-------------------------- MODULE MCSshTunnelPool --------------------------
(* Instances of SshTunnelPool: two saved connections of one SSH server.     *)
EXTENDS SshTunnelPool, TLC

CONSTANTS t1, t2, x1, x2, p1, p2

MCThreads == {t1, t2}
MCOneThread == {t1}
MCTunnels == {x1, x2}
MCPorts   == {p1, p2}
(* SSH port 0 (unset) and 22 are one key; another target is another.        *)
MCConns   == {[sshPort |-> 0, target |-> 1], [sshPort |-> 22, target |-> 1],
              [sshPort |-> 22, target |-> 2]}

MCSymmetry == Permutations(MCThreads) \cup Permutations(MCTunnels) \cup Permutations(MCPorts)
=============================================================================
