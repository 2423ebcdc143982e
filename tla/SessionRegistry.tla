--------------------------- MODULE SessionRegistry ---------------------------
(***************************************************************************)
(* ConnectionSessionRegistry: tokens of connections in a ConcurrentHashMap *)
(* that request threads (register, get) and the cleaner thread share       *)
(* without a lock.  get reads and then puts unconditionally; the cleaner's *)
(* removeIf tests a value and then removes it if it is still there.        *)
(***************************************************************************)
EXTENDS Naturals

CONSTANTS
  Tokens,       \* the UUIDs given out
  Connections,  \* what they stand for
  Requests,     \* requests that may be in get at once
  None          \* no entry

ASSUME ConnectionsAssumption == None \notin Connections

VARIABLES
  map,    \* token -> entry or None
  got,    \* request -> token and connection it has read in get, or None
  sweep   \* the value removeIf has read and found old, with its token, or None

registryVars == <<map, got, sweep>>

(* idle: accessedAt is more than half an hour ago.                          *)
Entry == [conn : Connections, idle : BOOLEAN]
Found == [token : Tokens, conn : Connections]
Old   == [token : Tokens, entry : Entry]

ASSUME NoEntryAssumption == None \notin Entry /\ None \notin Found /\ None \notin Old

RegistryTypeOK ==
  /\ map \in [Tokens -> Entry \cup {None}]
  /\ got \in [Requests -> Found \cup {None}]
  /\ sweep \in Old \cup {None}

RegistryInit ==
  /\ map = [t \in Tokens |-> None]
  /\ got = [r \in Requests |-> None]
  /\ sweep = None

Fresh(c) == [conn |-> c, idle |-> FALSE]

(* register, with a token never given out before.                           *)
register(t, c) ==
  /\ map[t] = None /\ \A r \in Requests : got[r] # None => got[r].token # t
  /\ map' = [map EXCEPT ![t] = Fresh(c)]
  /\ UNCHANGED <<got, sweep>>

(* get up to its put; a token that is not there is answered with null.      *)
GetRead(r, t) ==
  /\ got[r] = None /\ map[t] # None
  /\ got' = [got EXCEPT ![r] = [token |-> t, conn |-> map[t].conn]]
  /\ UNCHANGED <<map, sweep>>

GetNull(r, t) ==
  /\ got[r] = None /\ map[t] = None
  /\ UNCHANGED registryVars

(* The put, whatever has become of the entry meanwhile.                     *)
GetPut(r) ==
  /\ got[r] # None
  /\ map' = [map EXCEPT ![got[r].token] = Fresh(got[r].conn)]
  /\ got' = [got EXCEPT ![r] = None]
  /\ UNCHANGED sweep

(* The cleaner.  (It takes its cutoff when it starts; that an entry which   *)
(* turns old during the sweep waits for the next one is left out.)          *)
SweepTest(t) ==
  /\ sweep = None /\ map[t] # None /\ map[t].idle
  /\ sweep' = [token |-> t, entry |-> map[t]]
  /\ UNCHANGED <<map, got>>

SweepRemove_Unconditionally ==
  /\ sweep # None /\ sweep' = None
  /\ map' = [map EXCEPT ![sweep.token] = None]
  /\ UNCHANGED got

SweepRemove ==
  /\ sweep # None /\ sweep' = None
  /\ map' = [map EXCEPT ![sweep.token] = IF @ = sweep.entry THEN None ELSE @]
  /\ UNCHANGED got

(* Half an hour passes after an access.                                     *)
Age(t) ==
  /\ map[t] # None /\ ~map[t].idle
  /\ map' = [map EXCEPT ![t].idle = TRUE]
  /\ UNCHANGED <<got, sweep>>

(* The process ends; nothing is persisted.                                  *)
Restart ==
  /\ map' = [t \in Tokens |-> None]
  /\ got' = [r \in Requests |-> None]
  /\ sweep' = None

Cleaner == (\E t \in Tokens : SweepTest(t) \/ Age(t)) \/ SweepRemove

RegistryNext ==
  \/ \E t \in Tokens, c \in Connections : register(t, c)
  \/ \E r \in Requests : GetPut(r) \/ \E t \in Tokens : GetRead(r, t) \/ GetNull(r, t)
  \/ Cleaner \/ Restart

RegistrySpec == RegistryInit /\ [][RegistryNext]_registryVars

-----------------------------------------------------------------------------
(* The registry keeps the promise of SessionStore.  A get takes effect when *)
(* it reads: from then on its token counts as known and just used, whether  *)
(* or not the cleaner removes the entry before the put brings it back.      *)

Reading(t) == {r \in Requests : got[r] # None /\ got[r].token = t}

Known(t) ==
  IF map[t] # None THEN map[t].conn
  ELSE IF Reading(t) # {} THEN got[CHOOSE r \in Reading(t) : TRUE].conn
  ELSE None

Store == INSTANCE SessionStore WITH
  sessions <- [t \in Tokens |-> Known(t)],
  idle     <- {t \in Tokens : map[t] # None /\ map[t].idle /\ Reading(t) = {}}

(* "Store connection credentials server-side keyed by a session token": a   *)
(* token in use is neither forgotten nor led elsewhere, however get and the *)
(* cleaner interleave.                                                      *)
KeepsSessions == Store!Spec
=============================================================================
