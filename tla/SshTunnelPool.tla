--------------------------- MODULE SshTunnelPool ---------------------------
(***************************************************************************)
(* The pool of SSH tunnels of the backend (service/SshTunnelPool.java) and *)
(* the tunnels it holds (config/SshTunnelHelper, SshTunnelSession).        *)
(*                                                                         *)
(* Request threads call getOrOpen, which is not synchronised: each step    *)
(* that reads or writes the shared ConcurrentHashMap, a session's          *)
(* isConnected flag or the clock is an action of its own.  The scheduled   *)
(* evict runs beside them.  ConcurrentHashMap.entrySet().removeIf reads a  *)
(* value, runs the predicate on it (which closes the tunnel) and then      *)
(* removes the mapping only while it still equals the value it read.       *)
(*                                                                         *)
(* A request that has its port then dials 127.0.0.1:port and may hold that *)
(* connection open for as long as it likes (an SSE stream does).           *)
(***************************************************************************)
EXTENDS Integers, FiniteSets

CONSTANTS
  Threads,   \* request and stream threads of the backend
  Conns,     \* SSH connections: records with fields sshPort and target
  Tunnels,   \* identities of SSH sessions; each is opened at most once
  Ports,     \* local ports the operating system may hand out
  IdleTtl,   \* 600_000 ms in the code, in ticks of the model's clock
  MaxTime,   \* bound: the clock stops here
  None       \* no entry, no tunnel, no connection

ASSUME TtlAssumption == IdleTtl \in Nat /\ MaxTime \in Nat
ASSUME NoneAssumption == None \notin Conns \cup Tunnels \cup Ports

VARIABLES
  now,         \* System.currentTimeMillis()
  pool,        \* the map: key -> entry or None
  status,      \* tunnel -> "unopened", "live", "closed" or "stranded"
  leadsTo,     \* tunnel -> the SSH server and target it was opened to
  portOf,      \* tunnel -> its local port
  pc,          \* thread -> where it is in getOrOpen and in the use of its port
  conn,        \* thread -> the connection it was asked to reach
  seen,        \* thread -> the entry its pool.get returned
  held,        \* thread -> the tunnel whose port it returns or returned
  stamp,       \* thread -> the time it read for the entry it is about to put
  reached,     \* thread -> the tunnel its TCP connection goes through
  evict,       \* the evict task: phase, keys left, the key and entry it is at, cutoff
  overlapped   \* history: keys for which two getOrOpen calls ran at once

tunnelVars == <<status, leadsTo, portOf>>
threadVars == <<pc, conn, seen, held, stamp, reached>>
vars == <<now, pool, tunnelVars, threadVars, evict, overlapped>>

-----------------------------------------------------------------------------
(* Keys, entries and the states of the actors.                             *)

tunnelKey_IgnoresTarget(c) ==
  [ssh |-> IF c.sshPort > 0 THEN c.sshPort ELSE 22, target |-> 0]

(* sshHost:sshPort:sshUser@host:port.  One SSH host and user; the target    *)
(* stands for host:port, and an unset SSH port means 22.                    *)
tunnelKey(c) ==
  [ssh |-> IF c.sshPort > 0 THEN c.sshPort ELSE 22, target |-> c.target]

(* Where SshTunnelHelper.open takes a connection: its SSH server and target. *)
Destination(c) ==
  [ssh |-> IF c.sshPort > 0 THEN c.sshPort ELSE 22, target |-> c.target]

Keys == {tunnelKey(c) : c \in Conns}

ASSUME NoneIsNoKey == None \notin Keys

TunnelEntry == [tunnel : Tunnels, lastUsed : Nat]

ASSUME NoneIsNoEntry == None \notin TunnelEntry

Live(x)   == status[x] = "live"
Stale(e, cutoff) == e.lastUsed < cutoff
InCall(t) == pc[t] \in {"get", "check", "refresh", "open", "put"}
key(t)    == tunnelKey(conn[t])

AtRest == [phase |-> "rest", todo |-> {}, key |-> None, entry |-> None, cutoff |-> 0]

TypeOK ==
  /\ now \in Nat
  /\ pool \in [Keys -> TunnelEntry \cup {None}]
  /\ status \in [Tunnels -> {"unopened", "live", "closed", "stranded"}]
  /\ leadsTo \in [Tunnels -> Keys \cup {None}]
  /\ portOf \in [Tunnels -> Ports \cup {None}]
  /\ pc \in [Threads -> {"idle", "get", "check", "refresh", "open", "put", "dial", "using"}]
  /\ conn \in [Threads -> Conns \cup {None}]
  /\ \A t \in Threads : pc[t] # "idle" => conn[t] \in Conns
  /\ seen \in [Threads -> TunnelEntry \cup {None}]
  /\ \A t \in Threads : pc[t] \in {"check", "refresh"} => seen[t] \in TunnelEntry
  /\ held \in [Threads -> Tunnels \cup {None}]
  /\ \A t \in Threads : pc[t] \in {"put", "dial", "using"} => held[t] \in Tunnels
  /\ stamp \in [Threads -> Nat]
  /\ reached \in [Threads -> Tunnels \cup {None}]
  /\ \A t \in Threads : pc[t] = "using" => reached[t] \in Tunnels
  /\ evict \in [phase : {"rest", "sweep", "test", "remove"}, todo : SUBSET Keys,
                key : Keys \cup {None}, entry : TunnelEntry \cup {None}, cutoff : Int]
  /\ evict.phase \in {"test", "remove"} => evict.key \in Keys /\ evict.entry \in TunnelEntry
  /\ overlapped \subseteq Keys

Init ==
  /\ now = 0
  /\ pool = [k \in Keys |-> None]
  /\ status = [x \in Tunnels |-> "unopened"]
  /\ leadsTo = [x \in Tunnels |-> None]
  /\ portOf = [x \in Tunnels |-> None]
  /\ pc = [t \in Threads |-> "idle"]
  /\ conn = [t \in Threads |-> None]
  /\ seen = [t \in Threads |-> None]
  /\ held = [t \in Threads |-> None]
  /\ stamp = [t \in Threads |-> 0]
  /\ reached = [t \in Threads |-> None]
  /\ evict = AtRest
  /\ overlapped = {}

-----------------------------------------------------------------------------
(* resolve and getOrOpen, called by a request thread.                      *)

(* A request for an SSH connection enters resolve and so getOrOpen.        *)
Resolve(t, c) ==
  /\ pc[t] = "idle"
  /\ pc' = [pc EXCEPT ![t] = "get"]
  /\ conn' = [conn EXCEPT ![t] = c]
  /\ overlapped' = overlapped \cup
       {k \in {tunnelKey(c)} : \E u \in Threads : InCall(u) /\ key(u) = k}
  /\ UNCHANGED <<now, pool, tunnelVars, seen, held, stamp, reached, evict>>

(* TunnelEntry entry = pool.get(key)                                       *)
Get(t) ==
  /\ pc[t] = "get"
  /\ seen' = [seen EXCEPT ![t] = pool[key(t)]]
  /\ pc' = [pc EXCEPT ![t] = IF pool[key(t)] = None THEN "open" ELSE "check"]
  /\ UNCHANGED <<now, pool, tunnelVars, conn, held, stamp, reached, evict, overlapped>>

CheckConnected_TrustsTheCache(t) ==
  /\ pc[t] = "check"
  /\ stamp' = [stamp EXCEPT ![t] = now]
  /\ pc' = [pc EXCEPT ![t] = "refresh"]
  /\ UNCHANGED <<now, pool, tunnelVars, conn, seen, held, reached, evict, overlapped>>

(* The cached session is connected: read the clock for the new entry.      *)
CheckConnected(t) ==
  /\ pc[t] = "check"
  /\ Live(seen[t].tunnel)
  /\ stamp' = [stamp EXCEPT ![t] = now]
  /\ pc' = [pc EXCEPT ![t] = "refresh"]
  /\ UNCHANGED <<now, pool, tunnelVars, conn, seen, held, reached, evict, overlapped>>

(* It is not: closing a disconnected session changes nothing; open anew.   *)
CheckDisconnected(t) ==
  /\ pc[t] = "check"
  /\ ~Live(seen[t].tunnel)
  /\ pc' = [pc EXCEPT ![t] = "open"]
  /\ seen' = [seen EXCEPT ![t] = None]
  /\ UNCHANGED <<now, pool, tunnelVars, conn, held, stamp, reached, evict, overlapped>>

(* pool.put(key, new TunnelEntry(entry.tunnel(), now)), whatever the map    *)
(* holds by now, and return the port.                                       *)
Refresh(t) ==
  /\ pc[t] = "refresh"
  /\ pool' = [pool EXCEPT ![key(t)] = [tunnel |-> seen[t].tunnel, lastUsed |-> stamp[t]]]
  /\ held' = [held EXCEPT ![t] = seen[t].tunnel]
  /\ seen' = [seen EXCEPT ![t] = None]
  /\ stamp' = [stamp EXCEPT ![t] = 0]
  /\ pc' = [pc EXCEPT ![t] = "dial"]
  /\ UNCHANGED <<now, tunnelVars, conn, reached, evict, overlapped>>

(* Ports the operating system may give a listener: those nobody listens on. *)
FreePorts == {p \in Ports : \A x \in Tunnels : Live(x) => portOf[x] # p}

(* SshTunnelHelper.open: connect, then forward a local port of the          *)
(* operating system's choice; then read the clock.                          *)
Open(t, x, p) ==
  /\ pc[t] = "open"
  /\ status[x] = "unopened" /\ p \in FreePorts
  /\ status' = [status EXCEPT ![x] = "live"]
  /\ leadsTo' = [leadsTo EXCEPT ![x] = Destination(conn[t])]
  /\ portOf' = [portOf EXCEPT ![x] = p]
  /\ held' = [held EXCEPT ![t] = x]
  /\ stamp' = [stamp EXCEPT ![t] = now]
  /\ pc' = [pc EXCEPT ![t] = "put"]
  /\ UNCHANGED <<now, pool, conn, seen, reached, evict, overlapped>>

(* A thread whose request is over, one way or another.                      *)
Return(t) ==
  /\ pc' = [pc EXCEPT ![t] = "idle"]
  /\ conn' = [conn EXCEPT ![t] = None]
  /\ seen' = [seen EXCEPT ![t] = None]
  /\ held' = [held EXCEPT ![t] = None]
  /\ stamp' = [stamp EXCEPT ![t] = 0]
  /\ reached' = [reached EXCEPT ![t] = None]

(* session.connect throws: getOrOpen throws, and the entry found dead stays. *)
OpenFails(t) ==
  /\ pc[t] = "open"
  /\ Return(t)
  /\ UNCHANGED <<now, pool, tunnelVars, evict, overlapped>>

(* setPortForwardingL throws: nobody disconnects the connected session.     *)
ForwardFails(t, x) ==
  /\ pc[t] = "open"
  /\ status[x] = "unopened"
  /\ status' = [status EXCEPT ![x] = "stranded"]
  /\ Return(t)
  /\ UNCHANGED <<now, pool, leadsTo, portOf, evict, overlapped>>

(* pool.put(key, new TunnelEntry(ts, now)), and return the port.            *)
Put(t) ==
  /\ pc[t] = "put"
  /\ pool' = [pool EXCEPT ![key(t)] = [tunnel |-> held[t], lastUsed |-> stamp[t]]]
  /\ stamp' = [stamp EXCEPT ![t] = 0]
  /\ pc' = [pc EXCEPT ![t] = "dial"]
  /\ UNCHANGED <<now, tunnelVars, conn, seen, held, reached, evict, overlapped>>

(* The caller connects to 127.0.0.1:port and so to whoever listens there.   *)
Dial(t, x) ==
  /\ pc[t] = "dial"
  /\ Live(x) /\ portOf[x] = portOf[held[t]]
  /\ reached' = [reached EXCEPT ![t] = x]
  /\ pc' = [pc EXCEPT ![t] = "using"]
  /\ UNCHANGED <<now, pool, tunnelVars, conn, seen, held, stamp, evict, overlapped>>

DialRefused(t) ==
  /\ pc[t] = "dial"
  /\ \A x \in Tunnels : Live(x) => portOf[x] # portOf[held[t]]
  /\ Return(t)
  /\ UNCHANGED <<now, pool, tunnelVars, evict, overlapped>>

(* The request or stream is over.                                           *)
Finish(t) ==
  /\ pc[t] = "using"
  /\ Return(t)
  /\ UNCHANGED <<now, pool, tunnelVars, evict, overlapped>>

-----------------------------------------------------------------------------
(* evict, on Spring's scheduler thread.                                     *)

EvictStart_NeverStale ==
  /\ evict.phase = "rest"
  /\ evict' = [AtRest EXCEPT !.phase = "sweep", !.todo = Keys, !.cutoff = 0 - IdleTtl]
  /\ UNCHANGED <<now, pool, tunnelVars, threadVars, overlapped>>

EvictStart ==
  /\ evict.phase = "rest"
  /\ evict' = [AtRest EXCEPT !.phase = "sweep", !.todo = Keys, !.cutoff = now - IdleTtl]
  /\ UNCHANGED <<now, pool, tunnelVars, threadVars, overlapped>>

(* removeIf's traversal reads the value of the next key, if there is one.   *)
EvictRead(k) ==
  /\ evict.phase = "sweep" /\ k \in evict.todo
  /\ evict' = IF pool[k] = None
              THEN [evict EXCEPT !.todo = @ \ {k}]
              ELSE [evict EXCEPT !.todo = @ \ {k}, !.phase = "test",
                                 !.key = k, !.entry = pool[k]]
  /\ UNCHANGED <<now, pool, tunnelVars, threadVars, overlapped>>

EvictClose_LeavesItOpen ==
  /\ evict.phase = "test"
  /\ Stale(evict.entry, evict.cutoff) \/ ~Live(evict.entry.tunnel)
  /\ evict' = [evict EXCEPT !.phase = "remove"]
  /\ UNCHANGED <<now, pool, tunnelVars, threadVars, overlapped>>

(* The predicate holds of that value: close its tunnel.                     *)
EvictClose ==
  /\ evict.phase = "test"
  /\ Stale(evict.entry, evict.cutoff) \/ ~Live(evict.entry.tunnel)
  /\ status' = [status EXCEPT ![evict.entry.tunnel] = "closed"]
  /\ evict' = [evict EXCEPT !.phase = "remove"]
  /\ UNCHANGED <<now, pool, leadsTo, portOf, threadVars, overlapped>>

EvictKeep ==
  /\ evict.phase = "test"
  /\ ~Stale(evict.entry, evict.cutoff) /\ Live(evict.entry.tunnel)
  /\ evict' = [evict EXCEPT !.phase = "sweep", !.key = None, !.entry = None]
  /\ UNCHANGED <<now, pool, tunnelVars, threadVars, overlapped>>

EvictRemove_Unconditionally ==
  /\ evict.phase = "remove"
  /\ pool' = [pool EXCEPT ![evict.key] = None]
  /\ evict' = [evict EXCEPT !.phase = "sweep", !.key = None, !.entry = None]
  /\ UNCHANGED <<now, tunnelVars, threadVars, overlapped>>

(* Remove the mapping if it still equals the value the predicate saw.       *)
EvictRemove ==
  /\ evict.phase = "remove"
  /\ pool' = [pool EXCEPT ![evict.key] = IF @ = evict.entry THEN None ELSE @]
  /\ evict' = [evict EXCEPT !.phase = "sweep", !.key = None, !.entry = None]
  /\ UNCHANGED <<now, tunnelVars, threadVars, overlapped>>

EvictEnd ==
  /\ evict.phase = "sweep" /\ evict.todo = {}
  /\ evict' = AtRest
  /\ UNCHANGED <<now, pool, tunnelVars, threadVars, overlapped>>

-----------------------------------------------------------------------------
(* The environment: the SSH server drops a session; time passes.            *)

Drop(x) ==
  /\ Live(x)
  /\ status' = [status EXCEPT ![x] = "closed"]
  /\ UNCHANGED <<now, pool, leadsTo, portOf, threadVars, evict, overlapped>>

Tick ==
  /\ now < MaxTime
  /\ now' = now + 1
  /\ UNCHANGED <<pool, tunnelVars, threadVars, evict, overlapped>>

Evict ==
  \/ EvictStart
  \/ \E k \in Keys : EvictRead(k)
  \/ EvictClose
  \/ EvictKeep
  \/ EvictRemove
  \/ EvictEnd

Next ==
  \/ \E t \in Threads :
       \/ \E c \in Conns : Resolve(t, c)
       \/ Get(t)
       \/ CheckConnected(t)
       \/ CheckDisconnected(t)
       \/ Refresh(t)
       \/ \E x \in Tunnels, p \in Ports : Open(t, x, p)
       \/ OpenFails(t)
       \/ \E x \in Tunnels : ForwardFails(t, x)
       \/ Put(t)
       \/ \E x \in Tunnels : Dial(t, x)
       \/ DialRefused(t)
       \/ Finish(t)
  \/ Evict
  \/ \E x \in Tunnels : Drop(x)
  \/ Tick

Spec == Init /\ [][Next]_vars

(* Spring runs evict again and again; nothing else is owed a step.          *)
FairSpec == Spec /\ WF_vars(Evict)

-----------------------------------------------------------------------------
(* Properties.                                                              *)

(* A live port leads to the request's own Redis: as long as the tunnel a    *)
(* request was given is not closed, the only listener on its port is that   *)
(* tunnel, and it was opened for the request's own SSH server and target.   *)
(* getOrOpen, "Returns the local port for the tunnel to conn's host:port".  *)
LivePortLeadsHome ==
  \A t \in Threads, x \in Tunnels :
    /\ pc[t] = "dial" /\ Live(held[t]) /\ Live(x) /\ portOf[x] = portOf[held[t]]
    => x = held[t] /\ leadsTo[x] = Destination(conn[t])

(* The pool is a TunnelService.  A request has its tunnel from the moment   *)
(* it has found it connected, or opened it, although the pool is told later *)
(* and what it then puts may replace what another request has put.          *)
Given(t) == IF pc[t] = "refresh" THEN seen[t].tunnel ELSE held[t]

Service == INSTANCE TunnelService WITH
  Requests     <- Threads,
  Destinations <- Keys,
  to           <- leadsTo,
  open         <- {x \in Tunnels : Live(x)},
  wanted       <- [t \in Threads |-> IF conn[t] = None THEN None ELSE Destination(conn[t])],
  answer       <- [t \in Threads |-> Given(t)],
  line         <- reached

(* "Opens a new tunnel if none is cached or the cached one is               *)
(* disconnected": whatever other requests, evict and the SSH server do, a   *)
(* request gets a tunnel that leads where it wants to go and was open at    *)
(* some moment of its getOrOpen, and is not refused while that is open.     *)
ServesTunnels == Service!Spec

(* The tunnels the pool has lost: open, but neither cached nor about to be. *)
Pooled(x)  == \E k \in Keys : pool[k] # None /\ pool[k].tunnel = x
Pending(x) == \E t \in Threads : pc[t] = "put" /\ held[t] = x
Lost(x)    == Live(x) /\ ~Pooled(x) /\ ~Pending(x)

(* A tunnel is lost (open, never closed, never reused) only for a key whose *)
(* getOrOpen calls overlapped: neither evict, which races with every call,  *)
(* nor a dropped session, a failed open or a refresh loses one.             *)
LostOnlyByOverlap == \A x \in Tunnels : Lost(x) => leadsTo[x] \in overlapped

(* evict closes what it removes: an entry that leaves the map leaves a      *)
(* closed tunnel behind, even when requests replace it under the sweep.     *)
EvictionClosesWhatItRemoves ==
  [][\A k \in Keys :
       pool[k] # None /\ pool'[k] = None => status'[pool[k].tunnel] # "live"]_vars

(* An entry past its TTL does not stay: it is evicted or used again.        *)
StaleEntriesLeave ==
  \A k \in Keys :
    (pool[k] # None /\ pool[k].lastUsed < now - IdleTtl)
      ~> (pool[k] = None \/ pool[k].lastUsed >= now - IdleTtl)

(* "Idle tunnels are evicted after 10 minutes": evict closes no tunnel that *)
(* a request or a stream is talking through.                                *)
NoTunnelEvictedInUse ==
  [][\A t \in Threads :
       evict.phase = "test" /\ evict'.phase = "remove" /\ pc[t] = "using"
       /\ Live(reached[t]) => status'[reached[t]] = "live"]_vars
=============================================================================
