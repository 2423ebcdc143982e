--------------------------- MODULE TunnelService ---------------------------
(***************************************************************************)
(* What requests need of the pool of SSH tunnels: a request is given a     *)
(* tunnel to its own destination that is open when it is given, and talks  *)
(* through that tunnel as long as it stays open.  Keys, cached entries,    *)
(* clocks, sweeps and ports are none of their business.                    *)
(***************************************************************************)
CONSTANTS Requests, Tunnels, Destinations, None

VARIABLES
  to,      \* tunnel -> the destination it was opened to, or None
  open,    \* the tunnels that are open
  wanted,  \* request -> the destination it wants to reach, or None
  answer,  \* request -> the tunnel it was given, or None
  line     \* request -> the tunnel its connection goes through, or None

vars == <<to, open, wanted, answer, line>>

Nowhere(S) == [s \in S |-> None]

Init ==
  /\ to = Nowhere(Tunnels) /\ open = {}
  /\ wanted = Nowhere(Requests) /\ answer = Nowhere(Requests) /\ line = Nowhere(Requests)

Ask(r, d) ==
  /\ wanted[r] = None /\ wanted' = [wanted EXCEPT ![r] = d]
  /\ UNCHANGED <<to, open, answer, line>>

Answer(r, x) ==
  /\ wanted[r] # None /\ answer[r] = None
  /\ answer' = [answer EXCEPT ![r] = x]
  /\ UNCHANGED <<wanted, line>>

(* An open tunnel to the same destination is used again.                    *)
Reuse(r, x) ==
  /\ x \in open /\ to[x] = wanted[r] /\ Answer(r, x)
  /\ UNCHANGED <<to, open>>

(* Or a new one is opened, for the request that is given it.                *)
Open(r, x) ==
  /\ to[x] = None /\ Answer(r, x)
  /\ to' = [to EXCEPT ![x] = wanted[r]] /\ open' = open \cup {x}

(* When the tunnel has been closed its port may belong to another one.      *)
Connect(r, x) ==
  /\ answer[r] # None /\ line[r] = None
  /\ x \in open /\ (answer[r] \in open => x = answer[r])
  /\ line' = [line EXCEPT ![r] = x]
  /\ UNCHANGED <<to, open, wanted, answer>>

(* Nobody whose tunnel is open is refused.                                  *)
Leave(r) ==
  /\ wanted[r] # None /\ (answer[r] \in open => line[r] # None)
  /\ wanted' = [wanted EXCEPT ![r] = None]
  /\ answer' = [answer EXCEPT ![r] = None]
  /\ line' = [line EXCEPT ![r] = None]
  /\ UNCHANGED <<to, open>>

Close(x) ==
  /\ x \in open /\ open' = open \ {x}
  /\ UNCHANGED <<to, wanted, answer, line>>

Next ==
  \/ \E r \in Requests :
       \/ \E d \in Destinations : Ask(r, d)
       \/ \E x \in Tunnels : Reuse(r, x) \/ Open(r, x) \/ Connect(r, x)
       \/ Leave(r)
  \/ \E x \in Tunnels : Close(x)

Spec == Init /\ [][Next]_vars
=============================================================================
