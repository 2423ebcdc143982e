------------------------ MODULE SshTunnelPoolProofs ------------------------
(* What SshTunnelPool guarantees for any threads, connections, tunnels,     *)
(* ports and TTL.                                                           *)
EXTENDS SshTunnelPool, TLAPS

(* The pool's key says where SshTunnelHelper.open takes the connection.     *)
LEMMA KeyIsDestination == \A c : Destination(c) = tunnelKey(c)
  BY DEF Destination, tunnelKey

LEMMA KeyOfConn == \A c \in Conns : tunnelKey(c) \in Keys
  BY DEF Keys

LEMMA InitType == Init => TypeOK
  BY TtlAssumption, NoneIsNoEntry, NoneIsNoKey DEF Init, TypeOK, AtRest

LEMMA TypeStep == TypeOK /\ [Next]_vars => TypeOK'
<1> SUFFICES ASSUME TypeOK, [Next]_vars PROVE TypeOK'
  OBVIOUS
<1> USE NoneIsNoEntry, NoneIsNoKey, NoneAssumption
<1>1. ASSUME NEW t \in Threads, NEW c \in Conns, Resolve(t, c) PROVE TypeOK'
  <2>1. overlapped' \subseteq Keys
    BY <1>1, KeyOfConn DEF Resolve, TypeOK
  <2>. QED BY <1>1, <2>1 DEF Resolve, TypeOK, tunnelVars
<1>2. ASSUME NEW t \in Threads, Get(t) PROVE TypeOK'
  <2>1. key(t) \in Keys
    BY <1>2, KeyOfConn DEF Get, TypeOK, key
  <2>2. pool[key(t)] \in TunnelEntry \cup {None}
    BY <2>1 DEF TypeOK
  <2>. QED BY <1>2, <2>1, <2>2 DEF Get, TypeOK, tunnelVars
<1>3. ASSUME NEW t \in Threads, CheckConnected(t) PROVE TypeOK'
  BY <1>3 DEF CheckConnected, TypeOK, tunnelVars
<1>4. ASSUME NEW t \in Threads, CheckDisconnected(t) PROVE TypeOK'
  BY <1>4 DEF CheckDisconnected, TypeOK, tunnelVars
<1>5. ASSUME NEW t \in Threads, Refresh(t) PROVE TypeOK'
  <2>1. seen[t] \in TunnelEntry /\ seen[t].tunnel \in Tunnels
    BY <1>5 DEF Refresh, TypeOK, TunnelEntry
  <2>2. [tunnel |-> seen[t].tunnel, lastUsed |-> stamp[t]] \in TunnelEntry
    BY <2>1 DEF TypeOK, TunnelEntry
  <2>. QED BY <1>5, <2>1, <2>2 DEF Refresh, TypeOK, tunnelVars
<1>6. ASSUME NEW t \in Threads, NEW x \in Tunnels, NEW p \in Ports, Open(t, x, p)
      PROVE TypeOK'
  <2>1. Destination(conn[t]) \in Keys
    BY <1>6, KeyOfConn, KeyIsDestination DEF Open, TypeOK
  <2>. QED BY <1>6, <2>1 DEF Open, TypeOK
<1>7. ASSUME NEW t \in Threads, OpenFails(t) PROVE TypeOK'
  BY <1>7 DEF OpenFails, Return, TypeOK, tunnelVars
<1>8. ASSUME NEW t \in Threads, NEW x \in Tunnels, ForwardFails(t, x) PROVE TypeOK'
  BY <1>8 DEF ForwardFails, Return, TypeOK
<1>9. ASSUME NEW t \in Threads, Put(t) PROVE TypeOK'
  <2>1. [tunnel |-> held[t], lastUsed |-> stamp[t]] \in TunnelEntry
    BY <1>9 DEF Put, TypeOK, TunnelEntry
  <2>. QED BY <1>9, <2>1, ZenonT(40) DEF Put, TypeOK, tunnelVars
<1>10. ASSUME NEW t \in Threads, NEW x \in Tunnels, Dial(t, x) PROVE TypeOK'
  BY <1>10 DEF Dial, TypeOK, tunnelVars
<1>11. ASSUME NEW t \in Threads, DialRefused(t) PROVE TypeOK'
  BY <1>11 DEF DialRefused, Return, TypeOK, tunnelVars
<1>12. ASSUME NEW t \in Threads, Finish(t) PROVE TypeOK'
  BY <1>12 DEF Finish, Return, TypeOK, tunnelVars
<1>13. ASSUME EvictStart PROVE TypeOK'
  <2>1. evict' = [phase |-> "sweep", todo |-> Keys, key |-> None, entry |-> None,
                  cutoff |-> now - IdleTtl]
    BY <1>13 DEF EvictStart, AtRest
  <2>2. now - IdleTtl \in Int
    BY TtlAssumption DEF TypeOK
  <2>. QED BY <1>13, <2>1, <2>2 DEF EvictStart, TypeOK, tunnelVars, threadVars
<1>14. ASSUME NEW k \in Keys, EvictRead(k) PROVE TypeOK'
  <2>1. pool[k] \in TunnelEntry \cup {None}
    BY DEF TypeOK
  <2>. QED BY <1>14, <2>1 DEF EvictRead, TypeOK, tunnelVars, threadVars
<1>15. ASSUME EvictClose PROVE TypeOK'
  <2>1. evict.entry \in TunnelEntry /\ evict.entry.tunnel \in Tunnels
    BY <1>15 DEF EvictClose, TypeOK, TunnelEntry
  <2>. QED BY <1>15, <2>1 DEF EvictClose, TypeOK, threadVars
<1>16. ASSUME EvictKeep PROVE TypeOK'
  BY <1>16 DEF EvictKeep, TypeOK, tunnelVars, threadVars
<1>17. ASSUME EvictRemove PROVE TypeOK'
  BY <1>17 DEF EvictRemove, TypeOK, tunnelVars, threadVars
<1>18. ASSUME EvictEnd PROVE TypeOK'
  BY <1>18 DEF EvictEnd, AtRest, TypeOK, tunnelVars, threadVars
<1>19. ASSUME NEW x \in Tunnels, Drop(x) PROVE TypeOK'
  BY <1>19 DEF Drop, TypeOK, threadVars
<1>20. ASSUME Tick PROVE TypeOK'
  BY <1>20 DEF Tick, TypeOK, tunnelVars, threadVars
<1>21. ASSUME UNCHANGED vars PROVE TypeOK'
  BY <1>21 DEF vars, TypeOK, tunnelVars, threadVars
<1>. QED
  BY <1>1, <1>2, <1>3, <1>4, <1>5, <1>6, <1>7, <1>8, <1>9, <1>10, <1>11, <1>12,
     <1>13, <1>14, <1>15, <1>16, <1>17, <1>18, <1>19, <1>20, <1>21 DEF Next, Evict

(* Every variable keeps its type, whatever the threads and the sweep do.    *)
THEOREM TypeCorrect == Spec => []TypeOK
  BY InitType, TypeStep, PTL DEF Spec

-----------------------------------------------------------------------------
(* Where a live port leads.                                                 *)

(* No two open tunnels listen on one port.                                  *)
PortsUnique ==
  \A x, y \in Tunnels : Live(x) /\ Live(y) /\ portOf[x] = portOf[y] => x = y

(* Every tunnel the map, a thread or the sweep refers to was opened, and    *)
(* for the key it is referred to under.                                     *)
OpenedFor(x, k) == status[x] \in {"live", "closed"} /\ leadsTo[x] = k

Coherent ==
  /\ \A k \in Keys : pool[k] # None => OpenedFor(pool[k].tunnel, k)
  /\ \A t \in Threads :
       pc[t] \in {"check", "refresh"} => OpenedFor(seen[t].tunnel, key(t))
  /\ \A t \in Threads :
       pc[t] \in {"put", "dial", "using"} => OpenedFor(held[t], key(t))
  /\ evict.phase \in {"test", "remove"} => OpenedFor(evict.entry.tunnel, evict.key)

(* Once the sweep has closed a tunnel it stays closed: no session reopens.  *)
SweptIsClosed == evict.phase = "remove" => status[evict.entry.tunnel] = "closed"

PortInv == TypeOK /\ PortsUnique /\ Coherent /\ SweptIsClosed

(* No step takes back what is known of a tunnel: it keeps its key once      *)
(* opened, and a closed one does not come back to life.                     *)
LEMMA TunnelHistory ==
  ASSUME TypeOK, [Next]_vars, NEW x \in Tunnels, NEW k
  PROVE  /\ OpenedFor(x, k) => OpenedFor(x, k)'
         /\ status[x] = "closed" => status'[x] = "closed"
<1>1. ASSUME NEW t \in Threads, NEW y \in Tunnels, NEW p \in Ports, Open(t, y, p)
      PROVE  x = y \/ (status'[x] = status[x] /\ leadsTo'[x] = leadsTo[x])
  BY <1>1 DEF Open, TypeOK
<1>2. ASSUME NEW t \in Threads, NEW y \in Tunnels, ForwardFails(t, y)
      PROVE  leadsTo' = leadsTo /\ (x = y \/ status'[x] = status[x])
  BY <1>2 DEF ForwardFails, TypeOK
<1>3. ASSUME NEW y \in Tunnels, Drop(y)
      PROVE  leadsTo' = leadsTo /\ (status'[x] = status[x] \/ status'[x] = "closed")
  BY <1>3 DEF Drop, TypeOK
<1>4. ASSUME EvictClose
      PROVE  leadsTo' = leadsTo /\ (status'[x] = status[x] \/ status'[x] = "closed")
  BY <1>4 DEF EvictClose, TypeOK
<1>5. ASSUME NEW t \in Threads, NEW y \in Tunnels,
             ForwardFails(t, y) \/ \E p \in Ports : Open(t, y, p)
      PROVE  status[y] = "unopened"
  BY <1>5 DEF ForwardFails, Open
<1>6. \/ status' = status /\ leadsTo' = leadsTo
      \/ \E t \in Threads, y \in Tunnels : ForwardFails(t, y) \/ \E p \in Ports : Open(t, y, p)
      \/ \E y \in Tunnels : Drop(y)
      \/ EvictClose
  BY DEF Next, Evict, vars, tunnelVars, Resolve, Get, CheckConnected, CheckDisconnected,
         Refresh, OpenFails, Put, Dial, DialRefused, Finish, EvictStart, EvictRead,
         EvictKeep, EvictRemove, EvictEnd, Tick
<1>. QED
  BY <1>1, <1>2, <1>3, <1>4, <1>5, <1>6 DEF OpenedFor

LEMMA PortInit == Init => PortInv
  BY InitType DEF Init, PortInv, PortsUnique, Coherent, SweptIsClosed, Live, AtRest

LEMMA PortsUniqueStep == TypeOK /\ PortsUnique /\ [Next]_vars => PortsUnique'
<1> SUFFICES ASSUME TypeOK, PortsUnique, [Next]_vars,
                    NEW x \in Tunnels, NEW y \in Tunnels,
                    Live(x)', Live(y)', portOf'[x] = portOf'[y]
             PROVE  x = y
  BY DEF PortsUnique
<1>1. ASSUME NEW t \in Threads, NEW z \in Tunnels, NEW p \in Ports, Open(t, z, p)
      PROVE  x = y
  BY <1>1 DEF Open, TypeOK, FreePorts, Live, PortsUnique
<1>2. \/ \E t \in Threads, z \in Tunnels, p \in Ports : Open(t, z, p)
      \/ portOf' = portOf /\ \A z \in Tunnels : status'[z] = "live" => status[z] = "live"
  BY ZenonT(40) DEF Next, Evict, vars, tunnelVars, Resolve, Get, CheckConnected, CheckDisconnected,
         Refresh, OpenFails, Put, Dial, DialRefused, Finish, EvictStart, EvictRead,
         EvictKeep, EvictRemove, EvictEnd, Tick, ForwardFails, Drop, EvictClose, TypeOK
<1>. QED
  BY <1>1, <1>2 DEF PortsUnique, Live

LEMMA CoherentStep == PortInv /\ [Next]_vars => Coherent' /\ SweptIsClosed'
<1> SUFFICES ASSUME PortInv, [Next]_vars PROVE Coherent' /\ SweptIsClosed'
  OBVIOUS
<1> USE DEF PortInv
<1>1. \A x \in Tunnels, k \in Keys :
        /\ OpenedFor(x, k) => OpenedFor(x, k)'
        /\ status[x] = "closed" => status'[x] = "closed"
  BY TunnelHistory
<1>2. /\ \A k \in Keys : pool[k] # None => pool[k].tunnel \in Tunnels
      /\ \A t \in Threads : pc[t] # "idle" => key(t) \in Keys
      /\ \A t \in Threads : pc[t] \in {"check", "refresh"} => seen[t].tunnel \in Tunnels
      /\ \A t \in Threads : pc[t] \in {"put", "dial", "using"} => held[t] \in Tunnels
      /\ evict.phase \in {"test", "remove"} =>
           evict.key \in Keys /\ evict.entry.tunnel \in Tunnels
  BY KeyOfConn DEF TypeOK, TunnelEntry, key
<1>3. ASSUME NEW t \in Threads, NEW c \in Conns, Resolve(t, c)
      PROVE  Coherent' /\ SweptIsClosed'
  BY <1>1, <1>2, <1>3 DEF Resolve, Coherent, SweptIsClosed, TypeOK, OpenedFor, tunnelVars, key
<1>4. ASSUME NEW t \in Threads, Get(t) PROVE Coherent' /\ SweptIsClosed'
  BY <1>1, <1>2, <1>4 DEF Get, Coherent, SweptIsClosed, TypeOK, OpenedFor, tunnelVars, key
<1>5. ASSUME NEW t \in Threads, CheckConnected(t) \/ CheckDisconnected(t)
      PROVE  Coherent' /\ SweptIsClosed'
  BY <1>1, <1>2, <1>5 DEF CheckConnected, CheckDisconnected, Coherent, SweptIsClosed, TypeOK,
                          OpenedFor, tunnelVars, key
<1>6. ASSUME NEW t \in Threads, Refresh(t) PROVE Coherent' /\ SweptIsClosed'
  BY <1>1, <1>2, <1>6 DEF Refresh, Coherent, SweptIsClosed, TypeOK, OpenedFor, tunnelVars, key
<1>7. ASSUME NEW t \in Threads, NEW x \in Tunnels, NEW p \in Ports, Open(t, x, p)
      PROVE  Coherent' /\ SweptIsClosed'
  <2>1. OpenedFor(x, key(t))' /\ key(t)' = key(t) /\ held'[t] = x
    BY <1>7, <1>2, KeyIsDestination DEF Open, OpenedFor, TypeOK, key
  <2>2. /\ pool' = pool /\ conn' = conn /\ seen' = seen /\ evict' = evict
        /\ \A u \in Threads : u # t => pc'[u] = pc[u] /\ held'[u] = held[u]
        /\ pc'[t] = "put"
    BY <1>7 DEF Open, TypeOK
  <2>. QED BY <1>1, <1>2, <2>1, <2>2 DEF Coherent, SweptIsClosed, key
<1>8. ASSUME NEW t \in Threads, OpenFails(t) \/ DialRefused(t) \/ Finish(t)
      PROVE  Coherent' /\ SweptIsClosed'
  BY <1>1, <1>2, <1>8 DEF OpenFails, DialRefused, Finish, Return, Coherent, SweptIsClosed,
                          TypeOK, OpenedFor, tunnelVars, key
<1>9. ASSUME NEW t \in Threads, NEW x \in Tunnels, ForwardFails(t, x)
      PROVE  Coherent' /\ SweptIsClosed'
  <2>1. /\ pool' = pool /\ evict' = evict
        /\ \A u \in Threads : u # t => /\ pc'[u] = pc[u] /\ held'[u] = held[u]
                                       /\ seen'[u] = seen[u] /\ conn'[u] = conn[u]
        /\ pc'[t] = "idle"
    BY <1>9 DEF ForwardFails, Return, TypeOK
  <2>. QED BY <1>1, <1>2, <2>1 DEF Coherent, SweptIsClosed, key
<1>10. ASSUME NEW t \in Threads, Put(t) PROVE Coherent' /\ SweptIsClosed'
  BY <1>1, <1>2, <1>10 DEF Put, Coherent, SweptIsClosed, TypeOK, OpenedFor, tunnelVars, key
<1>11. ASSUME NEW t \in Threads, NEW x \in Tunnels, Dial(t, x)
       PROVE  Coherent' /\ SweptIsClosed'
  BY <1>1, <1>2, <1>11 DEF Dial, Coherent, SweptIsClosed, TypeOK, OpenedFor, tunnelVars, key
<1>12. ASSUME EvictStart \/ EvictKeep \/ EvictEnd PROVE Coherent' /\ SweptIsClosed'
  <2>1. evict'.phase \in {"rest", "sweep"}
    <3>1. CASE EvictStart
      BY <3>1 DEF EvictStart, AtRest
    <3>2. CASE EvictKeep
      BY <3>2 DEF EvictKeep, TypeOK
    <3>3. CASE EvictEnd
      BY <3>3 DEF EvictEnd, AtRest
    <3>. QED BY <1>12, <3>1, <3>2, <3>3
  <2>2. UNCHANGED <<pool, tunnelVars, threadVars>>
    BY <1>12 DEF EvictStart, EvictKeep, EvictEnd
  <2>. QED BY <2>1, <2>2 DEF Coherent, SweptIsClosed, OpenedFor, tunnelVars, threadVars, key
<1>13. ASSUME NEW k \in Keys, EvictRead(k) PROVE Coherent' /\ SweptIsClosed'
  BY <1>1, <1>2, <1>13 DEF EvictRead, Coherent, SweptIsClosed, TypeOK, OpenedFor,
                           tunnelVars, threadVars, key
<1>14. ASSUME EvictClose PROVE Coherent' /\ SweptIsClosed'
  <2>1. status'[evict.entry.tunnel] = "closed"
    BY <1>14, <1>2 DEF EvictClose, TypeOK
  <2>2. /\ pool' = pool /\ pc' = pc /\ conn' = conn /\ seen' = seen /\ held' = held
        /\ evict.phase = "test" /\ evict'.phase = "remove"
        /\ evict'.key = evict.key /\ evict'.entry = evict.entry
    BY <1>14 DEF EvictClose, TypeOK, threadVars
  <2>. QED BY <1>1, <1>2, <2>1, <2>2 DEF Coherent, SweptIsClosed, key
<1>15. ASSUME EvictRemove PROVE Coherent' /\ SweptIsClosed'
  BY <1>1, <1>2, <1>15 DEF EvictRemove, Coherent, SweptIsClosed, TypeOK, OpenedFor,
                           tunnelVars, threadVars, key
<1>16. ASSUME NEW x \in Tunnels, Drop(x) PROVE Coherent' /\ SweptIsClosed'
  <2>1. pool' = pool /\ pc' = pc /\ conn' = conn /\ seen' = seen /\ held' = held /\ evict' = evict
    BY <1>16 DEF Drop, threadVars
  <2>. QED BY <1>1, <1>2, <2>1 DEF Coherent, SweptIsClosed, key
<1>17. ASSUME Tick \/ UNCHANGED vars PROVE Coherent' /\ SweptIsClosed'
  BY <1>17 DEF Tick, vars, tunnelVars, threadVars, Coherent, SweptIsClosed, OpenedFor, key
<1>. QED
  BY <1>3, <1>4, <1>5, <1>6, <1>7, <1>8, <1>9, <1>10, <1>11, <1>12, <1>13, <1>14, <1>15,
     <1>16, <1>17 DEF Next, Evict

LEMMA PortInvariant == Spec => []PortInv
<1>1. PortInv /\ [Next]_vars => PortInv'
  BY TypeStep, PortsUniqueStep, CoherentStep DEF PortInv
<1>. QED BY PortInit, <1>1, PTL DEF Spec

(* While the tunnel a request was given is open, its port leads to that     *)
(* tunnel and to the request's own Redis.                                   *)
THEOREM PortLeadsHome == Spec => []LivePortLeadsHome
<1>1. PortInv => LivePortLeadsHome
  BY KeyIsDestination
  DEF PortInv, TypeOK, PortsUnique, Coherent, OpenedFor, LivePortLeadsHome, key
<1>. QED BY PortInvariant, <1>1, PTL

(* An entry leaves the map only when the sweep that removes it closed that  *)
(* very entry's tunnel.                                                     *)
THEOREM EvictionLosesNothing == Spec => EvictionClosesWhatItRemoves
<1>1. ASSUME PortInv, [Next]_vars, NEW k \in Keys, pool[k] # None, pool'[k] = None
      PROVE  status'[pool[k].tunnel] # "live"
  <2>1. ASSUME NEW t \in Threads, Refresh(t) \/ Put(t)
        PROVE  FALSE
    <3>1. \E e \in TunnelEntry : pool' = [pool EXCEPT ![key(t)] = e]
      BY <2>1, <1>1 DEF Refresh, Put, PortInv, TypeOK, TunnelEntry
    <3>. QED BY <3>1, <1>1, NoneIsNoEntry DEF PortInv, TypeOK
  <2>2. EvictRemove
    BY <1>1, <2>1 DEF Next, Evict, vars, tunnelVars, Resolve, Get, CheckConnected,
       CheckDisconnected, Open, OpenFails, ForwardFails, Dial, DialRefused,
       Finish, EvictStart, EvictRead, EvictClose, EvictKeep, EvictEnd, Drop, Tick
  <2>. QED BY <1>1, <2>2 DEF EvictRemove, PortInv, SweptIsClosed, TypeOK, tunnelVars
<1>2. PortInv /\ [Next]_vars =>
        [\A k \in Keys : pool[k] # None /\ pool'[k] = None => status'[pool[k].tunnel] # "live"]_vars
  BY <1>1
<1>. QED BY PortInvariant, <1>2, PTL DEF Spec, EvictionClosesWhatItRemoves

-----------------------------------------------------------------------------
(* What the pool loses.                                                     *)

(* For a key whose calls never overlapped, one call at most is under way,   *)
(* and what that call knows of the map still holds: the entry it saw is     *)
(* there unless it was evicted, and once it decided to open, the map holds  *)
(* no open tunnel that its put could displace.                              *)
OneCaller ==
  \A t, u \in Threads :
    InCall(t) /\ InCall(u) /\ key(t) = key(u) /\ key(t) \notin overlapped => t = u

SeenIsCurrent ==
  \A t \in Threads :
    pc[t] \in {"check", "refresh"} /\ key(t) \notin overlapped
      => pool[key(t)] \in {None, seen[t]}

NothingToDisplace ==
  \A t \in Threads :
    pc[t] \in {"open", "put"} /\ key(t) \notin overlapped /\ pool[key(t)] # None
      => ~Live(pool[key(t)].tunnel)

OverlapInv ==
  PortInv /\ OneCaller /\ SeenIsCurrent /\ NothingToDisplace /\ LostOnlyByOverlap

LEMMA OverlapInit == Init => OverlapInv
  BY PortInit DEF Init, OverlapInv, OneCaller, SeenIsCurrent, NothingToDisplace,
                  LostOnlyByOverlap, Lost, Live, InCall

(* A thread inside getOrOpen was inside it before, for the same key, or has *)
(* just entered it; and a key that overlapped stays marked.                 *)
LEMMA CallerHistory ==
  ASSUME TypeOK, [Next]_vars, NEW t \in Threads, InCall(t)'
  PROVE  /\ overlapped \subseteq overlapped'
         /\ \/ InCall(t) /\ key(t)' = key(t)
            \/ \E c \in Conns : Resolve(t, c)
<1>1. ASSUME NEW u \in Threads, Get(u) \/ CheckConnected(u) \/ CheckDisconnected(u) \/
             \E x \in Tunnels, p \in Ports : Open(u, x, p)
      PROVE  overlapped' = overlapped /\ InCall(t) /\ key(t)' = key(t)
  BY <1>1 DEF Get, CheckConnected, CheckDisconnected, Open, TypeOK, InCall, key
<1>2. ASSUME NEW u \in Threads, Refresh(u) \/ Put(u) \/ OpenFails(u) \/ DialRefused(u)
             \/ Finish(u) \/ \E x \in Tunnels : ForwardFails(u, x) \/ Dial(u, x)
      PROVE  overlapped' = overlapped /\ InCall(t) /\ key(t)' = key(t)
  BY <1>2 DEF Refresh, Put, OpenFails, DialRefused, Finish, ForwardFails, Dial, Return, TypeOK,
              InCall, key
<1>3. ASSUME NEW u \in Threads, NEW c \in Conns, Resolve(u, c)
      PROVE  /\ overlapped \subseteq overlapped'
             /\ u # t => InCall(t) /\ key(t)' = key(t)
  BY <1>3 DEF Resolve, TypeOK, InCall, key
<1>4. ASSUME Evict \/ (\E x \in Tunnels : Drop(x)) \/ Tick \/ UNCHANGED vars
      PROVE  overlapped' = overlapped /\ InCall(t) /\ key(t)' = key(t)
  BY <1>4 DEF Evict, EvictStart, EvictRead, EvictClose, EvictKeep, EvictRemove, EvictEnd, Drop,
              Tick, vars, threadVars, InCall, key
<1>. QED
  BY <1>1, <1>2, <1>3, <1>4 DEF Next

LEMMA OneCallerStep == OverlapInv /\ [Next]_vars => OneCaller'
<1> SUFFICES ASSUME OverlapInv, [Next]_vars, NEW t \in Threads, NEW u \in Threads,
                    InCall(t)', InCall(u)', key(t)' = key(u)', key(t)' \notin overlapped', t # u
             PROVE  FALSE
  BY DEF OneCaller
<1> USE DEF OverlapInv, PortInv
<1>1. ASSUME NEW v \in Threads, NEW w \in Threads, NEW c \in Conns, v # w,
             Resolve(v, c), InCall(w), key(w)' = key(v)'
      PROVE  key(v)' \in overlapped'
  <2>1. key(v)' = tunnelKey(c) /\ key(w)' = key(w)
    BY <1>1 DEF Resolve, TypeOK, key
  <2>. QED BY <1>1, <2>1 DEF Resolve
<1>2. ASSUME NEW v \in Threads, NEW w \in Threads, NEW c \in Conns, NEW d \in Conns, v # w,
             Resolve(v, c), Resolve(w, d)
      PROVE  FALSE
  BY <1>2 DEF Resolve, TypeOK
<1>3. CASE \E c \in Conns : Resolve(t, c)
  BY <1>1, <1>2, <1>3, CallerHistory
<1>4. CASE \E c \in Conns : Resolve(u, c)
  BY <1>1, <1>2, <1>4, CallerHistory
<1>5. CASE ~(\E c \in Conns : Resolve(t, c) \/ Resolve(u, c))
  BY <1>5, CallerHistory DEF OneCaller
<1>. QED BY <1>3, <1>4, <1>5

(* The map changes at a key only by a call for that key or by the sweep.    *)
LEMMA PoolHistory ==
  ASSUME PortInv, [Next]_vars, NEW k \in Keys, pool'[k] # pool[k]
  PROVE  \/ pool'[k] = None /\ EvictRemove /\ status[pool[k].tunnel] = "closed"
         \/ \E u \in Threads : Refresh(u) /\ key(u) = k
         \/ \E u \in Threads : Put(u) /\ key(u) = k
<1> USE DEF PortInv
<1>1. \/ EvictRemove
      \/ \E u \in Threads : Refresh(u) \/ Put(u)
  BY DEF Next, Evict, vars, tunnelVars, Resolve, Get, CheckConnected, CheckDisconnected, Open,
         OpenFails, ForwardFails, Dial, DialRefused, Finish, EvictStart, EvictRead, EvictClose,
         EvictKeep, EvictEnd, Drop, Tick
<1>2. CASE EvictRemove
  BY <1>2 DEF EvictRemove, TypeOK, SweptIsClosed
<1>3. ASSUME NEW u \in Threads, Refresh(u) \/ Put(u)
      PROVE  key(u) = k
  BY <1>3 DEF Refresh, Put, TypeOK
<1>. QED BY <1>1, <1>2, <1>3

LEMMA SeenStep == OverlapInv /\ [Next]_vars => SeenIsCurrent' /\ NothingToDisplace'
<1> SUFFICES ASSUME OverlapInv, [Next]_vars, NEW t \in Threads, InCall(t)',
                    key(t)' \notin overlapped'
             PROVE  /\ pc'[t] \in {"check", "refresh"} => pool'[key(t)'] \in {None, seen'[t]}
                    /\ pc'[t] \in {"open", "put"} /\ pool'[key(t)'] # None
                         => status'[pool'[key(t)'].tunnel] # "live"
  BY DEF SeenIsCurrent, NothingToDisplace, InCall, Live
<1> USE DEF OverlapInv, PortInv
<1>1. CASE \E c \in Conns : Resolve(t, c)
  BY <1>1 DEF Resolve, TypeOK
<1>2. CASE /\ InCall(t) /\ key(t)' = key(t) /\ overlapped \subseteq overlapped'
  <2> DEFINE k == key(t)
  <2>1. k \in Keys /\ k \notin overlapped
    BY <1>2, KeyOfConn DEF TypeOK, InCall, key
  <2>2. ASSUME NEW u \in Threads, Refresh(u) \/ Put(u), key(u) = k
        PROVE  u = t /\ pc'[t] = "dial"
    <3>1. InCall(u)
      BY <2>2 DEF Refresh, Put, InCall
    <3>2. u = t
      BY <1>2, <2>1, <2>2, <3>1 DEF OneCaller
    <3>. QED BY <2>2, <3>2 DEF Refresh, Put, TypeOK
  <2>3. pc'[t] # "dial"
    BY DEF InCall
  <2>4. pool'[k] = pool[k] \/ pool'[k] = None
    BY <2>1, <2>2, <2>3, PoolHistory
  <2>5. pool[k] # None => pool[k].tunnel \in Tunnels /\ OpenedFor(pool[k].tunnel, k)
    BY <2>1 DEF TypeOK, TunnelEntry, Coherent
  <2>6. pool[k] # None /\ ~Live(pool[k].tunnel) => status'[pool[k].tunnel] # "live"
    BY <2>1, <2>5, TunnelHistory DEF OpenedFor, Live
  <2>7. CASE Get(t)
    <3>1. pool' = pool /\ seen'[t] = pool[k]
      BY <2>7 DEF Get, TypeOK
    <3>2. pc'[t] = "open" => pool[k] = None
      BY <2>7 DEF Get, TypeOK
    <3>3. pc'[t] \in {"open", "check"}
      BY <2>7 DEF Get, TypeOK
    <3>. QED BY <1>2, <3>1, <3>2, <3>3
  <2>8. CASE CheckConnected(t)
    <3>1. pool' = pool /\ seen'[t] = seen[t] /\ pc[t] = "check" /\ pc'[t] = "refresh"
      BY <2>8 DEF CheckConnected, TypeOK
    <3>. QED BY <1>2, <2>1, <3>1 DEF SeenIsCurrent
  <2>9. CASE CheckDisconnected(t)
    <3>1. /\ pool' = pool /\ pc[t] = "check" /\ pc'[t] = "open"
          /\ status'[seen[t].tunnel] # "live"
      BY <2>9 DEF CheckDisconnected, TypeOK, Live, tunnelVars
    <3>. QED BY <1>2, <2>1, <3>1 DEF SeenIsCurrent
  <2>10. CASE \E x \in Tunnels, p \in Ports : Open(t, x, p)
    <3>1. pool' = pool /\ pc[t] = "open" /\ pc'[t] = "put"
      BY <2>10 DEF Open, TypeOK
    <3>. QED BY <1>2, <2>1, <2>6, <3>1 DEF NothingToDisplace
  <2>11. ASSUME pc'[t] = pc[t], seen'[t] = seen[t]
         PROVE  /\ pc'[t] \in {"check", "refresh"} => pool'[key(t)'] \in {None, seen'[t]}
                /\ pc'[t] \in {"open", "put"} /\ pool'[key(t)'] # None
                     => status'[pool'[key(t)'].tunnel] # "live"
    BY <1>2, <2>1, <2>4, <2>6, <2>11 DEF SeenIsCurrent, NothingToDisplace
  <2>12. \/ Get(t) \/ CheckConnected(t) \/ CheckDisconnected(t)
         \/ \E x \in Tunnels, p \in Ports : Open(t, x, p)
         \/ pc'[t] = pc[t] /\ seen'[t] = seen[t]
    <3>1. ASSUME NEW u \in Threads, u = t,
                 Refresh(u) \/ OpenFails(u) \/ Put(u) \/ DialRefused(u) \/ Finish(u) \/
                 \E x \in Tunnels : ForwardFails(u, x) \/ Dial(u, x)
          PROVE  FALSE
      BY <3>1 DEF Refresh, OpenFails, Put, DialRefused, Finish, ForwardFails, Dial, Return,
                  TypeOK, InCall
    <3>2. ASSUME NEW c \in Conns, Resolve(t, c) PROVE FALSE
      BY <1>2, <3>2 DEF Resolve, InCall
    <3>3. ASSUME NEW u \in Threads, u # t,
                 \/ Get(u) \/ CheckConnected(u) \/ CheckDisconnected(u)
                 \/ \E x \in Tunnels, p \in Ports : Open(u, x, p)
                 \/ \E c \in Conns : Resolve(u, c)
          PROVE  pc'[t] = pc[t] /\ seen'[t] = seen[t]
      BY <3>3 DEF Get, CheckConnected, CheckDisconnected, Open, Resolve, TypeOK
    <3>4. ASSUME NEW u \in Threads, u # t,
                 Refresh(u) \/ OpenFails(u) \/ Put(u) \/ DialRefused(u) \/ Finish(u) \/
                 \E x \in Tunnels : ForwardFails(u, x) \/ Dial(u, x)
          PROVE  pc'[t] = pc[t] /\ seen'[t] = seen[t]
      BY <3>4 DEF Refresh, OpenFails, Put, DialRefused, Finish, ForwardFails, Dial, Return, TypeOK
    <3>5. ASSUME Evict \/ (\E x \in Tunnels : Drop(x)) \/ Tick \/ UNCHANGED vars
          PROVE  pc'[t] = pc[t] /\ seen'[t] = seen[t]
      BY <3>5 DEF Evict, EvictStart, EvictRead, EvictClose, EvictKeep, EvictRemove, EvictEnd,
                  Drop, Tick, vars, threadVars
    <3>. QED BY <3>1, <3>2, <3>3, <3>4, <3>5 DEF Next
  <2>. QED BY <2>7, <2>8, <2>9, <2>10, <2>11, <2>12
<1>. QED BY <1>1, <1>2, CallerHistory

LEMMA LostStep == OverlapInv /\ [Next]_vars => LostOnlyByOverlap'
<1> SUFFICES ASSUME OverlapInv, [Next]_vars, NEW x \in Tunnels, status'[x] = "live",
                    ~Pooled(x)', ~Pending(x)', leadsTo'[x] \notin overlapped'
             PROVE  FALSE
  BY DEF LostOnlyByOverlap, Lost, Live
<1> USE DEF OverlapInv, PortInv
<1>1. overlapped \subseteq overlapped'
  BY DEF Next, Evict, vars, threadVars, Resolve, Get, CheckConnected, CheckDisconnected,
         Refresh, Open, OpenFails, ForwardFails, Put, Dial, DialRefused, Finish, EvictStart,
         EvictRead, EvictClose, EvictKeep, EvictRemove, EvictEnd, Drop, Tick
<1>2. ASSUME NEW t \in Threads, NEW p \in Ports, Open(t, x, p) PROVE FALSE
  BY <1>2 DEF Open, TypeOK, Pending
<1>3. status[x] = "live" /\ leadsTo'[x] = leadsTo[x]
  <2>1. ASSUME NEW t \in Threads, NEW y \in Tunnels, NEW p \in Ports, y # x, Open(t, y, p)
        PROVE  status[x] = "live" /\ leadsTo'[x] = leadsTo[x]
    BY <2>1 DEF Open, TypeOK
  <2>2. ASSUME ~(\E t \in Threads, y \in Tunnels, p \in Ports : Open(t, y, p))
        PROVE  status[x] = "live" /\ leadsTo'[x] = leadsTo[x]
    BY <2>2, ZenonT(40) DEF Next, Evict, vars, tunnelVars, Resolve, Get, CheckConnected, CheckDisconnected,
         Refresh, OpenFails, ForwardFails, Put, Dial, DialRefused, Finish, EvictStart,
         EvictRead, EvictClose, EvictKeep, EvictRemove, EvictEnd, Drop, Tick, TypeOK
  <2>. QED BY <1>2, <2>1, <2>2
<1>4. leadsTo[x] \notin overlapped
  BY <1>1, <1>3
<1>5. CASE Pending(x)
  <2>1. PICK t \in Threads : pc[t] = "put" /\ held[t] = x
    BY <1>5 DEF Pending
  <2>2. CASE Put(t)
    <3>1. key(t) \in Keys /\ pool' = [pool EXCEPT ![key(t)] = [tunnel |-> x, lastUsed |-> stamp[t]]]
      BY <2>1, <2>2, KeyOfConn DEF Put, TypeOK, key
    <3>2. pool'[key(t)] = [tunnel |-> x, lastUsed |-> stamp[t]]
      BY <3>1 DEF TypeOK
    <3>3. [tunnel |-> x, lastUsed |-> stamp[t]] \in TunnelEntry
      BY DEF TypeOK, TunnelEntry
    <3>4. pool'[key(t)] # None /\ pool'[key(t)].tunnel = x
      BY <3>2, <3>3, NoneIsNoEntry
    <3>. QED BY <3>1, <3>4 DEF Pooled
  <2>3. CASE ~Put(t)
    <3>1. pc'[t] = "put" /\ held'[t] = x
      <4>1. ASSUME NEW u \in Threads, u # t,
                   \/ Get(u) \/ CheckConnected(u) \/ CheckDisconnected(u) \/ Refresh(u)
                   \/ \E y \in Tunnels, p \in Ports : Open(u, y, p)
                   \/ \E c \in Conns : Resolve(u, c)
            PROVE  pc'[t] = pc[t] /\ held'[t] = held[t]
        BY <4>1 DEF Get, CheckConnected, CheckDisconnected, Refresh, Open, Resolve, TypeOK
      <4>2. ASSUME NEW u \in Threads, u # t,
                   OpenFails(u) \/ Put(u) \/ DialRefused(u) \/ Finish(u) \/
                   \E y \in Tunnels : ForwardFails(u, y) \/ Dial(u, y)
            PROVE  pc'[t] = pc[t] /\ held'[t] = held[t]
        BY <4>2 DEF OpenFails, Put, DialRefused, Finish, ForwardFails, Dial, Return, TypeOK
      <4>3. ASSUME Evict \/ (\E y \in Tunnels : Drop(y)) \/ Tick \/ UNCHANGED vars
            PROVE  pc'[t] = pc[t] /\ held'[t] = held[t]
        BY <4>3 DEF Evict, EvictStart, EvictRead, EvictClose, EvictKeep, EvictRemove, EvictEnd,
                    Drop, Tick, vars, threadVars
      <4>4. ASSUME \/ Get(t) \/ CheckConnected(t) \/ CheckDisconnected(t) \/ Refresh(t)
                   \/ \E y \in Tunnels, p \in Ports : Open(t, y, p)
                   \/ \E c \in Conns : Resolve(t, c)
                   \/ OpenFails(t) \/ DialRefused(t) \/ Finish(t)
                   \/ \E y \in Tunnels : ForwardFails(t, y) \/ Dial(t, y)
            PROVE  FALSE
        BY <2>1, <4>4 DEF Get, CheckConnected, CheckDisconnected, Refresh, Open, Resolve,
                          OpenFails, DialRefused, Finish, ForwardFails, Dial
      <4>. QED BY <2>1, <2>3, <4>1, <4>2, <4>3, <4>4 DEF Next
    <3>. QED BY <3>1 DEF Pending
  <2>. QED BY <2>2, <2>3
<1>6. CASE Pooled(x)
  <2>1. PICK k \in Keys : pool[k] # None /\ pool[k].tunnel = x
    BY <1>6 DEF Pooled
  <2>2. leadsTo[x] = k
    BY <2>1 DEF Coherent, OpenedFor
  <2>3. pool'[k] # pool[k]
    BY <2>1 DEF Pooled
  <2>4. ~EvictRemove \/ status[pool[k].tunnel] # "closed"
    BY <1>3, <2>1
  <2>5. ASSUME NEW u \in Threads, Refresh(u), key(u) = k PROVE FALSE
    <3>1. pool[k] = seen[u]
      BY <1>4, <2>1, <2>2, <2>5 DEF Refresh, SeenIsCurrent
    <3>2. pool'[k] = [tunnel |-> x, lastUsed |-> stamp[u]]
      BY <2>1, <2>5, <3>1 DEF Refresh, TypeOK
    <3>3. [tunnel |-> x, lastUsed |-> stamp[u]] \in TunnelEntry
      BY DEF TypeOK, TunnelEntry
    <3>. QED BY <3>2, <3>3, NoneIsNoEntry DEF Pooled
  <2>6. ASSUME NEW u \in Threads, Put(u), key(u) = k PROVE FALSE
    BY <1>3, <1>4, <2>1, <2>2, <2>6 DEF Put, NothingToDisplace, Live
  <2>. QED BY <2>3, <2>4, <2>5, <2>6, PoolHistory
<1>. QED
  BY <1>3, <1>4, <1>5, <1>6 DEF LostOnlyByOverlap, Lost, Live

(* The pool loses an open tunnel only for a key whose getOrOpen calls       *)
(* overlapped.                                                              *)
THEOREM OnlyOverlapLoses == Spec => []LostOnlyByOverlap
<1>1. OverlapInv /\ [Next]_vars => OverlapInv'
  <2>1. PortInv /\ [Next]_vars => PortInv'
    BY TypeStep, PortsUniqueStep, CoherentStep DEF PortInv
  <2>. QED BY <2>1, OneCallerStep, SeenStep, LostStep DEF OverlapInv
<1>2. OverlapInv => LostOnlyByOverlap
  BY DEF OverlapInv
<1>. QED BY OverlapInit, <1>1, <1>2, PTL DEF Spec

-----------------------------------------------------------------------------
(* The pool is a TunnelService.                                             *)

(* What a request has before it has a tunnel and when it is over, and what  *)
(* leads nowhere: a tunnel that was not opened yet.                         *)
NothingYet ==
  /\ \A t \in Threads : /\ pc[t] \in {"idle", "get", "check", "refresh", "open"} => held[t] = None
                        /\ pc[t] # "using" => reached[t] = None
                        /\ pc[t] = "idle" => conn[t] = None
  /\ \A x \in Tunnels : status[x] = "unopened" => leadsTo[x] = None

ServiceInv == PortInv /\ NothingYet

LEMMA NothingYetStep == PortInv /\ NothingYet /\ [Next]_vars => NothingYet'
<1> SUFFICES ASSUME PortInv, NothingYet, [Next]_vars PROVE NothingYet'
  OBVIOUS
<1> USE DEF PortInv, NothingYet
<1>1. ASSUME NEW t \in Threads, NEW c \in Conns, Resolve(t, c) PROVE NothingYet'
  BY <1>1 DEF Resolve, TypeOK, tunnelVars
<1>2. ASSUME NEW t \in Threads, Get(t) \/ CheckConnected(t) \/ CheckDisconnected(t) PROVE NothingYet'
  BY <1>2 DEF Get, CheckConnected, CheckDisconnected, TypeOK, tunnelVars
<1>3. ASSUME NEW t \in Threads, Refresh(t) \/ Put(t) \/ \E x \in Tunnels : Dial(t, x)
      PROVE  NothingYet'
  BY <1>3 DEF Refresh, Put, Dial, TypeOK, tunnelVars
<1>4. ASSUME NEW t \in Threads, NEW x \in Tunnels, NEW p \in Ports, Open(t, x, p)
      PROVE  NothingYet'
  BY <1>4 DEF Open, TypeOK
<1>5. ASSUME NEW t \in Threads, OpenFails(t) \/ DialRefused(t) \/ Finish(t) PROVE NothingYet'
  BY <1>5 DEF OpenFails, DialRefused, Finish, Return, TypeOK, tunnelVars
<1>6. ASSUME NEW t \in Threads, NEW x \in Tunnels, ForwardFails(t, x) PROVE NothingYet'
  BY <1>6 DEF ForwardFails, Return, TypeOK
<1>7. CASE Evict \/ (\E x \in Tunnels : Drop(x)) \/ Tick \/ UNCHANGED vars
  <2>1. UNCHANGED <<threadVars, leadsTo>> /\ \A x \in Tunnels : status'[x] = "unopened" => status[x] = "unopened"
    BY <1>7 DEF Evict, EvictStart, EvictRead, EvictClose, EvictKeep, EvictRemove, EvictEnd, Drop,
                Tick, vars, tunnelVars, TypeOK
  <2> QED BY <2>1 DEF threadVars
<1> QED BY <1>1, <1>2, <1>3, <1>4, <1>5, <1>6, <1>7 DEF Next

LEMMA ServiceInvariant == Spec => []ServiceInv
<1>1. Init => ServiceInv
  BY PortInit DEF Init, ServiceInv, NothingYet
<1>2. ServiceInv /\ [Next]_vars => ServiceInv'
  BY TypeStep, PortsUniqueStep, CoherentStep, NothingYetStep DEF PortInv, ServiceInv
<1> QED BY <1>1, <1>2, PTL DEF Spec

(* The variables of the service.                                            *)
Wants(t) == IF conn[t] = None THEN None ELSE Destination(conn[t])
Wanted   == [t \in Threads |-> IF conn[t] = None THEN None ELSE Destination(conn[t])]
Answers  == [t \in Threads |-> Given(t)]
OpenOnes == {x \in Tunnels : Live(x)}

LEMMA WantedIs ==
  /\ \A t \in Threads : Wanted[t] = Wants(t) /\ Answers[t] = Given(t)
  /\ \A t \in Threads : Wanted'[t] = Wants(t)' /\ Answers'[t] = Given(t)'
BY DEF Wanted, Wants, Answers

(* What a request wants while it is under way is its own key.               *)
LEMMA WantsItsKey ==
  ASSUME ServiceInv, NEW t \in Threads, pc[t] # "idle"
  PROVE  conn[t] # None /\ Wants(t) = key(t) /\ Wants(t) # None
<1>1. conn[t] \in Conns /\ conn[t] # None
  BY NoneAssumption DEF ServiceInv, PortInv, TypeOK
<1>2. Wants(t) = key(t) /\ key(t) \in Keys
  BY <1>1, KeyIsDestination, KeyOfConn DEF Wants, key
<1> QED BY <1>1, <1>2, NoneIsNoKey

LEMMA NothingServed ==
  ASSUME UNCHANGED <<leadsTo, reached>>, \A x \in Tunnels : Live(x)' <=> Live(x),
         \A t \in Threads : Wants(t)' = Wants(t) /\ Given(t)' = Given(t)
  PROVE  UNCHANGED Service!vars
<1>1. OpenOnes' = OpenOnes
  BY DEF OpenOnes
<1>2. Wanted' = Wanted /\ Answers' = Answers
  BY DEF Wanted, Wants, Answers
<1> QED BY <1>1, <1>2 DEF Service!vars, OpenOnes, Wanted, Answers

(* A request that leaves, unless the tunnel it was given is open and it has *)
(* not been connected.                                                      *)
LEMMA Leaves ==
  ASSUME ServiceInv, NEW t \in Threads, pc[t] # "idle", Return(t), UNCHANGED leadsTo,
         \A x \in Tunnels : Live(x)' <=> Live(x),
         Given(t) \in OpenOnes => reached[t] # None
  PROVE  Service!Leave(t)
<1>1. OpenOnes' = OpenOnes
  BY DEF OpenOnes
<1>2. /\ conn' = [conn EXCEPT ![t] = None] /\ held' = [held EXCEPT ![t] = None]
      /\ seen' = [seen EXCEPT ![t] = None] /\ pc' = [pc EXCEPT ![t] = "idle"]
      /\ reached' = [reached EXCEPT ![t] = None]
  BY DEF Return
<1>3. Wants(t)' = None /\ Given(t)' = None
  BY <1>2 DEF Wants, Given, ServiceInv, PortInv, TypeOK
<1>4. \A u \in Threads : u # t => Wants(u)' = Wants(u) /\ Given(u)' = Given(u)
  BY <1>2 DEF Wants, Given, ServiceInv, PortInv, TypeOK
<1>5. Wanted' = [Wanted EXCEPT ![t] = None]
  BY <1>3, <1>4 DEF Wanted, Wants
<1>6. Answers' = [Answers EXCEPT ![t] = None]
  BY <1>3, <1>4 DEF Answers
<1>7. Wanted[t] # None /\ (Answers[t] \in OpenOnes => reached[t] # None)
  BY WantsItsKey, WantedIs
<1> QED BY <1>1, <1>2, <1>5, <1>6, <1>7 DEF Service!Leave, OpenOnes, Wanted, Answers

(* A request that is given a tunnel.                                        *)
LEMMA Answered ==
  ASSUME ServiceInv, NEW t \in Threads, pc[t] \in {"check", "open"}, NEW x \in Tunnels,
         UNCHANGED <<conn, reached>>, Given(t)' = x,
         \A u \in Threads : u # t => Given(u)' = Given(u)
  PROVE  Service!Answer(t, x)
<1>1. Given(t) = None
  BY DEF Given, ServiceInv, NothingYet
<1>2. Answers' = [Answers EXCEPT ![t] = x]
  BY DEF Answers
<1>3. Wanted' = Wanted
  BY DEF Wanted
<1>4. Wanted[t] # None /\ Answers[t] = None
  BY <1>1, WantsItsKey, WantedIs
<1> QED BY <1>2, <1>3, <1>4 DEF Service!Answer, Wanted, Answers

LEMMA Closes ==
  ASSUME NEW x \in Tunnels, status[x] = "live", status \in [Tunnels -> {"unopened", "live", "closed", "stranded"}],
         status' = [status EXCEPT ![x] = "closed"], UNCHANGED <<leadsTo, threadVars>>
  PROVE  Service!Close(x)
<1>1. x \in OpenOnes /\ OpenOnes' = OpenOnes \ {x}
  BY DEF OpenOnes, Live
<1>2. Wanted' = Wanted /\ Answers' = Answers /\ reached' = reached
  BY DEF threadVars, Wanted, Answers, Given
<1> QED BY <1>1, <1>2 DEF Service!Close, OpenOnes, Wanted, Answers

LEMMA ServiceInit == Init => Service!Init
<1> SUFFICES ASSUME Init PROVE Service!Init
  OBVIOUS
<1>1. OpenOnes = {} /\ Wanted = [t \in Threads |-> None] /\ Answers = [t \in Threads |-> None]
  BY DEF Init, OpenOnes, Live, Wanted, Answers, Given
<1> QED BY <1>1 DEF Init, Service!Init, Service!Nowhere, OpenOnes, Wanted, Answers

(* What a request's step is to the service.                                 *)
LEMMA RequestServed ==
  ASSUME ServiceInv, NEW t \in Threads,
         \/ \E c \in Conns : Resolve(t, c)
         \/ Get(t) \/ CheckConnected(t) \/ CheckDisconnected(t) \/ Refresh(t)
         \/ OpenFails(t) \/ Put(t) \/ DialRefused(t) \/ Finish(t)
         \/ \E x \in Tunnels : ForwardFails(t, x) \/ Dial(t, x) \/ \E p \in Ports : Open(t, x, p)
  PROVE  [Service!Next]_Service!vars
<1> USE DEF ServiceInv, PortInv
<1>1. ASSUME NEW c \in Conns, Resolve(t, c) PROVE Service!Next
  <2>1. /\ pc[t] = "idle" /\ conn' = [conn EXCEPT ![t] = c] /\ pc' = [pc EXCEPT ![t] = "get"]
        /\ UNCHANGED <<tunnelVars, held, seen, reached>>
    BY <1>1 DEF Resolve
  <2>2. c # None /\ Destination(c) \in Keys
    BY NoneAssumption, KeyIsDestination, KeyOfConn
  <2>3. Wants(t) = None /\ Wants(t)' = Destination(c) /\ \A u \in Threads : u # t => Wants(u)' = Wants(u)
    BY <2>1, <2>2 DEF Wants, NothingYet, TypeOK
  <2>4. Wanted[t] = None /\ Wanted' = [Wanted EXCEPT ![t] = Destination(c)]
    BY <2>3 DEF Wanted, Wants
  <2>5. Answers' = Answers /\ OpenOnes' = OpenOnes
    BY <2>1 DEF Answers, Given, OpenOnes, Live, tunnelVars, TypeOK
  <2>6. Service!Ask(t, Destination(c))
    BY <2>1, <2>4, <2>5 DEF Service!Ask, Wanted, Answers, OpenOnes, tunnelVars
  <2> QED BY <2>2, <2>6 DEF Service!Next
<1>2. ASSUME Get(t) \/ CheckDisconnected(t) PROVE UNCHANGED Service!vars
  <2>1. /\ UNCHANGED <<tunnelVars, conn, held, reached>>
        /\ pc[t] # "refresh" /\ pc'[t] # "refresh"
        /\ \A u \in Threads : u # t => pc'[u] = pc[u] /\ seen'[u] = seen[u]
    BY <1>2 DEF Get, CheckDisconnected, TypeOK
  <2>2. \A u \in Threads : Wants(u)' = Wants(u) /\ Given(u)' = Given(u)
    BY <2>1 DEF Wants, Given
  <2> QED BY <2>1, <2>2, NothingServed DEF Live, tunnelVars
<1>3. ASSUME CheckConnected(t) PROVE Service!Next
  <2>1. /\ pc[t] = "check" /\ Live(seen[t].tunnel) /\ pc' = [pc EXCEPT ![t] = "refresh"]
        /\ UNCHANGED <<tunnelVars, conn, held, seen, reached>>
    BY <1>3 DEF CheckConnected
  <2>2. PICK x \in Tunnels : x = seen[t].tunnel
    BY <2>1 DEF TypeOK, TunnelEntry
  <2>3. Given(t)' = x /\ \A u \in Threads : u # t => Given(u)' = Given(u)
    BY <2>1, <2>2 DEF Given, TypeOK
  <2>4. Service!Answer(t, x)
    BY <2>1, <2>3, Answered
  <2>5. x \in OpenOnes /\ OpenOnes' = OpenOnes /\ leadsTo[x] = key(t)
    BY <2>1, <2>2 DEF OpenOnes, Live, tunnelVars, Coherent, OpenedFor
  <2>6. leadsTo[x] = Wanted[t] /\ leadsTo' = leadsTo
    BY <2>1, <2>5, WantsItsKey, WantedIs DEF tunnelVars
  <2>7. Service!Reuse(t, x)
    BY <2>4, <2>5, <2>6 DEF Service!Reuse, Wanted, OpenOnes
  <2> QED BY <2>7 DEF Service!Next
<1>4. ASSUME Refresh(t) PROVE UNCHANGED Service!vars
  <2>1. /\ pc[t] = "refresh" /\ held' = [held EXCEPT ![t] = seen[t].tunnel]
        /\ pc' = [pc EXCEPT ![t] = "dial"] /\ seen' = [seen EXCEPT ![t] = None]
        /\ UNCHANGED <<tunnelVars, conn, reached>>
    BY <1>4 DEF Refresh
  <2>2. \A u \in Threads : Wants(u)' = Wants(u) /\ Given(u)' = Given(u)
    BY <2>1 DEF Wants, Given, TypeOK
  <2> QED BY <2>1, <2>2, NothingServed DEF Live, tunnelVars
<1>5. ASSUME Put(t) PROVE UNCHANGED Service!vars
  <2>1. /\ pc[t] = "put" /\ pc' = [pc EXCEPT ![t] = "dial"]
        /\ UNCHANGED <<tunnelVars, conn, held, seen, reached>>
    BY <1>5 DEF Put
  <2>2. \A u \in Threads : Wants(u)' = Wants(u) /\ Given(u)' = Given(u)
    BY <2>1 DEF Wants, Given, TypeOK
  <2> QED BY <2>1, <2>2, NothingServed DEF Live, tunnelVars
<1>6. ASSUME NEW x \in Tunnels, NEW p \in Ports, Open(t, x, p) PROVE Service!Next
  <2>1. /\ pc[t] = "open" /\ pc' = [pc EXCEPT ![t] = "put"] /\ held' = [held EXCEPT ![t] = x]
        /\ status[x] = "unopened" /\ status' = [status EXCEPT ![x] = "live"]
        /\ leadsTo' = [leadsTo EXCEPT ![x] = Destination(conn[t])]
        /\ UNCHANGED <<conn, seen, reached>>
    BY <1>6 DEF Open
  <2>2. Given(t)' = x /\ \A u \in Threads : u # t => Given(u)' = Given(u)
    BY <2>1 DEF Given, TypeOK
  <2>3. Service!Answer(t, x)
    BY <2>1, <2>2, Answered
  <2>4. OpenOnes' = OpenOnes \cup {x} /\ leadsTo[x] = None
    BY <2>1 DEF OpenOnes, Live, NothingYet, TypeOK
  <2>5. leadsTo' = [leadsTo EXCEPT ![x] = Wanted[t]]
    BY <2>1, WantsItsKey, WantedIs DEF Wants
  <2>6. Service!Open(t, x)
    BY <2>3, <2>4, <2>5 DEF Service!Open, Wanted, OpenOnes
  <2> QED BY <2>6 DEF Service!Next
<1>7. ASSUME NEW x \in Tunnels, Dial(t, x) PROVE Service!Next
  <2>1. /\ pc[t] = "dial" /\ pc' = [pc EXCEPT ![t] = "using"] /\ reached' = [reached EXCEPT ![t] = x]
        /\ Live(x) /\ portOf[x] = portOf[held[t]] /\ UNCHANGED <<tunnelVars, conn, held, seen>>
    BY <1>7 DEF Dial
  <2>2. \A u \in Threads : Wants(u)' = Wants(u) /\ Given(u)' = Given(u)
    BY <2>1 DEF Wants, Given, TypeOK
  <2>3. Wanted' = Wanted /\ Answers' = Answers
    BY <2>2 DEF Wanted, Wants, Answers
  <2>4. held[t] \in Tunnels /\ reached[t] = None
    BY <2>1 DEF TypeOK, NothingYet
  <2>5. Answers[t] = held[t] /\ held[t] # None
    BY <2>1, <2>4, NoneAssumption DEF Answers, Given
  <2>6. x \in OpenOnes /\ OpenOnes' = OpenOnes /\ (held[t] \in OpenOnes => x = held[t])
    BY <2>1, <2>4 DEF OpenOnes, PortsUnique, Live, tunnelVars
  <2>7. Service!Connect(t, x)
    BY <2>1, <2>3, <2>4, <2>5, <2>6 DEF Service!Connect, Wanted, Answers, OpenOnes, tunnelVars
  <2> QED BY <2>7 DEF Service!Next
<1>8. ASSUME OpenFails(t) \/ DialRefused(t) \/ Finish(t) PROVE Service!Next
  <2>1. pc[t] \in {"open", "dial", "using"} /\ Return(t) /\ UNCHANGED tunnelVars
    BY <1>8 DEF OpenFails, DialRefused, Finish
  <2>2. Given(t) \in OpenOnes => reached[t] # None
    <3>1. CASE OpenFails(t)
      <4>1. Given(t) = None
        BY <3>1 DEF OpenFails, Given, NothingYet
      <4> QED BY <4>1, NoneAssumption DEF OpenOnes
    <3>2. CASE DialRefused(t)
      BY <3>2 DEF DialRefused, Given, OpenOnes
    <3>3. CASE Finish(t)
      BY <3>3, NoneAssumption DEF Finish, TypeOK
    <3> QED BY <1>8, <3>1, <3>2, <3>3
  <2>3. Service!Leave(t)
    BY <2>1, <2>2, Leaves DEF Live, tunnelVars
  <2> QED BY <2>3 DEF Service!Next
<1>9. ASSUME NEW x \in Tunnels, ForwardFails(t, x) PROVE Service!Next
  <2>1. pc[t] = "open" /\ Return(t) /\ status[x] = "unopened" /\ leadsTo' = leadsTo
        /\ status' = [status EXCEPT ![x] = "stranded"]
    BY <1>9 DEF ForwardFails
  <2>2. \A y \in Tunnels : Live(y)' <=> Live(y)
    BY <2>1 DEF Live, TypeOK
  <2>3. Given(t) = None
    BY <2>1 DEF Given, NothingYet
  <2>4. Given(t) \notin OpenOnes
    BY <2>3, NoneAssumption DEF OpenOnes
  <2>5. Service!Leave(t)
    BY <2>1, <2>2, <2>4, Leaves
  <2> QED BY <2>5 DEF Service!Next
<1> QED BY <1>1, <1>2, <1>3, <1>4, <1>5, <1>6, <1>7, <1>8, <1>9

LEMMA ServiceNext == ServiceInv /\ [Next]_vars => [Service!Next]_Service!vars
<1> SUFFICES ASSUME ServiceInv, [Next]_vars PROVE [Service!Next]_Service!vars
  OBVIOUS
<1>1. ASSUME UNCHANGED <<tunnelVars, threadVars>> PROVE UNCHANGED Service!vars
  BY <1>1, NothingServed DEF tunnelVars, threadVars, Live, Wants, Given
<1>2. CASE EvictStart \/ (\E k \in Keys : EvictRead(k)) \/ EvictKeep \/ EvictRemove \/ EvictEnd
           \/ Tick \/ UNCHANGED vars
  <2>1. UNCHANGED <<tunnelVars, threadVars>>
    BY <1>2 DEF EvictStart, EvictRead, EvictKeep, EvictRemove, EvictEnd, Tick, vars
  <2> QED BY <1>1, <2>1
<1>3. CASE EvictClose
  <2>1. PICK x \in Tunnels : x = evict.entry.tunnel
    BY <1>3 DEF EvictClose, ServiceInv, PortInv, TypeOK, TunnelEntry
  <2>2. status' = [status EXCEPT ![x] = "closed"] /\ UNCHANGED <<leadsTo, threadVars>>
    BY <1>3, <2>1 DEF EvictClose
  <2>3. CASE Live(x)
    BY <2>2, <2>3, Closes DEF ServiceInv, PortInv, TypeOK, Live, Service!Next
  <2>4. CASE ~Live(x)
    <3>1. \A y \in Tunnels : Live(y)' <=> Live(y)
      BY <2>2, <2>4 DEF Live, ServiceInv, PortInv, TypeOK
    <3> QED BY <2>2, <3>1, NothingServed DEF threadVars, Wants, Given
  <2> QED BY <2>3, <2>4
<1>4. ASSUME NEW x \in Tunnels, Drop(x) PROVE Service!Next
  <2>1. Service!Close(x)
    BY <1>4, Closes DEF Drop, Live, ServiceInv, PortInv, TypeOK
  <2> QED BY <2>1 DEF Service!Next
<1> QED BY <1>2, <1>3, <1>4, RequestServed DEF Next, Evict

(* Whatever other requests, the sweep and the SSH server do, a request is   *)
(* given a tunnel that leads where it wants to go and was open at some      *)
(* moment of its getOrOpen, talks through it as long as it is open, and is  *)
(* not refused until then: for any threads, connections, tunnels and ports. *)
THEOREM PoolServes == Spec => ServesTunnels
<1>1. ServiceInv /\ ServiceInv' /\ [Next]_vars => [Service!Next]_Service!vars
  BY ServiceNext
<1> QED BY ServiceInit, ServiceInvariant, <1>1, PTL DEF Spec, ServesTunnels, Service!Spec
=============================================================================
