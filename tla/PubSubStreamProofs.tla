------------------------- MODULE PubSubStreamProofs -------------------------
(***************************************************************************)
(* Proofs about the session registry and one Pub/Sub tab that uses it, for *)
(* any numbers of tokens, streams, connections and reconnects.             *)
(***************************************************************************)
EXTENDS PubSubStream, TLAPS

-----------------------------------------------------------------------------
(* The registry implements SessionStore: a token in use is not forgotten.   *)
(*                                                                          *)
(* The invariant says that whoever has read a token's entry has read the    *)
(* connection that is still there, if any is, and that the cleaner holds    *)
(* an old value.  Then the put of a get changes nothing of what is known,   *)
(* even if it brings an entry back, and the cleaner removes an entry that   *)
(* is still old, or one that a get will bring back.                         *)

OneConnection ==
  \A r \in Requests : got[r] # None =>
    /\ map[got[r].token] # None => map[got[r].token].conn = got[r].conn
    /\ \A q \in Requests :
         got[q] # None /\ got[q].token = got[r].token => got[q].conn = got[r].conn

SweepsOld == sweep # None => sweep.entry.idle

RegistryInv == RegistryTypeOK /\ OneConnection /\ SweepsOld

LEMMA FreshType ==
  ASSUME NEW c \in Connections
  PROVE  Fresh(c) \in Entry /\ Fresh(c) # None /\ Fresh(c).conn = c /\ Fresh(c).idle = FALSE
<1>1. Fresh(c) \in Entry
  BY DEF Fresh, Entry
<1>2. Fresh(c).conn = c /\ Fresh(c).idle = FALSE
  BY DEF Fresh
<1> QED BY <1>1, <1>2, NoEntryAssumption

LEMMA InvInit == RegistryInit => RegistryInv
BY DEF RegistryInit, RegistryInv, RegistryTypeOK, OneConnection, SweepsOld

LEMMA InvNext == RegistryInv /\ [RegistryNext]_registryVars => RegistryInv'
<1> SUFFICES ASSUME RegistryInv, [RegistryNext]_registryVars PROVE RegistryInv'
  OBVIOUS
<1> USE DEF RegistryInv, RegistryTypeOK
<1>1. ASSUME NEW t \in Tokens, NEW c \in Connections, register(t, c) PROVE RegistryInv'
  <2>1. RegistryTypeOK'
    BY <1>1, FreshType DEF register
  <2>2. OneConnection'
    BY <1>1 DEF register, OneConnection, Found
  <2> QED BY <1>1, <2>1, <2>2 DEF register, SweepsOld
<1>2. ASSUME NEW r \in Requests, NEW t \in Tokens, GetRead(r, t) PROVE RegistryInv'
  <2>1. map[t] \in Entry /\ got'[r] = [token |-> t, conn |-> map[t].conn]
    BY <1>2 DEF GetRead
  <2>2. got'[r] \in Found
    BY <2>1 DEF Found, Entry
  <2>3. RegistryTypeOK'
    BY <1>2, <2>1, <2>2 DEF GetRead
  <2>4. OneConnection'
    BY <1>2, <2>1 DEF GetRead, OneConnection
  <2> QED BY <1>2, <2>3, <2>4 DEF GetRead, SweepsOld
<1>3. ASSUME NEW r \in Requests, GetPut(r) PROVE RegistryInv'
  <2>1. got[r] \in Found /\ got[r].token \in Tokens /\ got[r].conn \in Connections
    BY <1>3 DEF GetPut, Found
  <2>2. RegistryTypeOK'
    BY <1>3, <2>1, FreshType DEF GetPut
  <2>3. OneConnection'
    <3>1. /\ map'[got[r].token] = Fresh(got[r].conn)
          /\ Fresh(got[r].conn).conn = got[r].conn
          /\ \A t \in Tokens : t # got[r].token => map'[t] = map[t]
      BY <1>3, <2>1, FreshType DEF GetPut
    <3>2. \A q \in Requests : got'[q] # None => got'[q] = got[q] /\ got[q].token \in Tokens
      BY <1>3 DEF GetPut, Found
    <3>3. \A q \in Requests : got[q] # None /\ got[q].token = got[r].token => got[q].conn = got[r].conn
      BY <1>3 DEF GetPut, OneConnection
    <3> QED BY <3>1, <3>2, <3>3 DEF OneConnection
  <2> QED BY <1>3, <2>2, <2>3 DEF GetPut, SweepsOld
<1>4. ASSUME NEW t \in Tokens, SweepTest(t) PROVE RegistryInv'
  <2>1. map[t] \in Entry /\ map[t].idle
    BY <1>4 DEF SweepTest
  <2>2. sweep' \in Old /\ sweep'.entry = map[t]
    BY <1>4, <2>1 DEF SweepTest, Old
  <2>3. RegistryTypeOK' /\ OneConnection'
    BY <1>4, <2>2 DEF SweepTest, OneConnection
  <2> QED BY <2>1, <2>2, <2>3 DEF SweepsOld
<1>5. ASSUME SweepRemove PROVE RegistryInv'
  <2>1. sweep \in Old /\ sweep.token \in Tokens
    BY <1>5 DEF SweepRemove, Old
  <2> QED BY <1>5, <2>1 DEF SweepRemove, OneConnection, SweepsOld
<1>6. ASSUME NEW t \in Tokens, Age(t) PROVE RegistryInv'
  <2>1. map[t] \in Entry
    BY <1>6 DEF Age
  <2>2. [map[t] EXCEPT !.idle = TRUE] \in Entry /\ [map[t] EXCEPT !.idle = TRUE].conn = map[t].conn
    BY <2>1 DEF Entry
  <2>3. map' = [map EXCEPT ![t] = [map[t] EXCEPT !.idle = TRUE]]
    BY <1>6 DEF Age
  <2> QED BY <1>6, <2>2, <2>3 DEF Age, OneConnection, SweepsOld
<1>7. ASSUME Restart PROVE RegistryInv'
  BY <1>7 DEF Restart, OneConnection, SweepsOld
<1>8. ASSUME UNCHANGED registryVars PROVE RegistryInv'
  BY <1>8 DEF registryVars, OneConnection, SweepsOld
<1> QED BY <1>1, <1>2, <1>3, <1>4, <1>5, <1>6, <1>7, <1>8
        DEF RegistryNext, Cleaner, GetNull

-----------------------------------------------------------------------------
(* What the mapping makes of a token.                                       *)

LEMMA KnownIs ==
  RegistryInv => \A t \in Tokens :
    /\ \A r \in Reading(t) : Known(t) = got[r].conn
    /\ map[t] # None => Known(t) = map[t].conn
    /\ map[t] = None /\ Reading(t) = {} => Known(t) = None
    /\ map[t] # None \/ Reading(t) # {} => Known(t) # None
<1> SUFFICES ASSUME RegistryInv, NEW t \in Tokens
             PROVE  /\ \A r \in Reading(t) : Known(t) = got[r].conn
                    /\ map[t] # None => Known(t) = map[t].conn
                    /\ map[t] = None /\ Reading(t) = {} => Known(t) = None
                    /\ map[t] # None \/ Reading(t) # {} => Known(t) # None
  OBVIOUS
<1>1. map[t] # None => Known(t) = map[t].conn /\ Known(t) # None
  BY ConnectionsAssumption DEF Known, RegistryInv, RegistryTypeOK, Entry
<1>2. map[t] = None /\ Reading(t) = {} => Known(t) = None
  BY DEF Known
<1>3. ASSUME NEW r \in Reading(t) PROVE Known(t) = got[r].conn /\ Known(t) # None
  <2>1. r \in Requests /\ got[r] # None /\ got[r].token = t /\ got[r].conn \in Connections
    BY <1>3 DEF Reading, RegistryInv, RegistryTypeOK, Found
  <2>2. CASE map[t] # None
    BY <1>1, <2>1, <2>2 DEF RegistryInv, OneConnection
  <2>3. CASE map[t] = None
    <3>1. (CHOOSE q \in Reading(t) : TRUE) \in Reading(t)
      BY <1>3
    <3>2. Known(t) = got[CHOOSE q \in Reading(t) : TRUE].conn
      BY <1>3, <2>3 DEF Known
    <3>3. got[CHOOSE q \in Reading(t) : TRUE].conn = got[r].conn
      BY <2>1, <3>1 DEF RegistryInv, OneConnection, Reading
    <3> QED BY <2>1, <3>2, <3>3, ConnectionsAssumption
  <2> QED BY <2>2, <2>3
<1> QED BY <1>1, <1>2, <1>3

LEMMA KnownNext ==
  ASSUME RegistryInv'
  PROVE  \A t \in Tokens :
    /\ \A r \in Reading(t)' : Known(t)' = got'[r].conn
    /\ map'[t] # None => Known(t)' = map'[t].conn
    /\ map'[t] = None /\ Reading(t)' = {} => Known(t)' = None
<1>1. (RegistryInv => \A t \in Tokens :
    /\ \A r \in Reading(t) : Known(t) = got[r].conn
    /\ map[t] # None => Known(t) = map[t].conn
    /\ map[t] = None /\ Reading(t) = {} => Known(t) = None
    /\ map[t] # None \/ Reading(t) # {} => Known(t) # None)'
  BY KnownIs, PTL
<1> QED BY <1>1

(* A token whose entry and readers stay keeps its connection.               *)
LEMMA KnownKept ==
  ASSUME RegistryInv, RegistryInv', NEW t \in Tokens,
         map'[t] = map[t], Reading(t)' = Reading(t), \A r \in Reading(t) : got'[r] = got[r]
  PROVE  Known(t)' = Known(t)
<1>1. CASE map[t] # None
  <2>1. Known(t) = map[t].conn
    BY <1>1, KnownIs
  <2>2. Known(t)' = map'[t].conn
    BY <1>1, KnownNext
  <2> QED BY <2>1, <2>2
<1>2. CASE map[t] = None /\ Reading(t) = {}
  <2>1. Known(t) = None
    BY <1>2, KnownIs
  <2>2. Known(t)' = None
    BY <1>2, KnownNext
  <2> QED BY <2>1, <2>2
<1>3. ASSUME NEW r \in Reading(t) PROVE Known(t)' = Known(t)
  <2>1. Known(t) = got[r].conn
    BY KnownIs
  <2>2. Known(t)' = got'[r].conn
    BY KnownNext
  <2> QED BY <2>1, <2>2
<1> QED BY <1>1, <1>2, <1>3

-----------------------------------------------------------------------------
(* The mapped state.                                                        *)

Sessions == [t \in Tokens |-> Known(t)]
Idle     == {t \in Tokens : map[t] # None /\ map[t].idle /\ Reading(t) = {}}

LEMMA StoreInit == RegistryInit => Store!Init
BY DEF RegistryInit, Store!Init, Known, Reading

(* A step that changes neither what is known nor what is idle.              *)
LEMMA Stutter ==
  ASSUME \A t \in Tokens : Known(t)' = Known(t), Idle' = Idle
  PROVE  UNCHANGED Store!vars
<1>1. Sessions' = Sessions
  BY DEF Sessions
<1> QED BY <1>1 DEF Store!vars, Sessions, Idle

LEMMA StoreNext == RegistryInv /\ RegistryInv' /\ [RegistryNext]_registryVars => [Store!Next]_Store!vars
<1> SUFFICES ASSUME RegistryInv, RegistryInv', [RegistryNext]_registryVars
             PROVE  [Store!Next]_Store!vars
  OBVIOUS
<1> USE DEF RegistryInv, RegistryTypeOK
<1>0. /\ Sessions = [t \in Tokens |-> Known(t)]
      /\ Idle = {t \in Tokens : map[t] # None /\ map[t].idle /\ Reading(t) = {}}
      /\ Sessions' = [t \in Tokens |-> Known(t)']
      /\ Idle' = {t \in Tokens : map'[t] # None /\ map'[t].idle /\ Reading(t)' = {}}
  BY DEF Sessions, Idle
<1>1. ASSUME NEW t \in Tokens, NEW c \in Connections, register(t, c) PROVE Store!Register(t, c)
  <2>1. map[t] = None /\ Reading(t) = {} /\ map'[t] = Fresh(c) /\ Fresh(c).idle = FALSE
    BY <1>1, FreshType DEF register, Reading
  <2>2. \A x \in Tokens : Reading(x)' = Reading(x) /\ (x # t => map'[x] = map[x])
    BY <1>1 DEF register, Reading
  <2>3. Known(t) = None /\ Known(t)' = c
    BY <2>1, KnownIs, KnownNext, FreshType
  <2>4. ASSUME NEW x \in Tokens, x # t PROVE Known(x)' = Known(x)
    BY <1>1, <2>2, <2>4, KnownKept DEF register
  <2>5. Sessions[t] = None /\ Sessions' = [Sessions EXCEPT ![t] = c]
    BY <1>0, <2>3, <2>4
  <2>6. Idle' = Idle \ {t}
    BY <1>0, <2>1, <2>2
  <2> QED BY <2>5, <2>6 DEF Store!Register, Sessions, Idle
<1>2. ASSUME NEW r \in Requests, NEW t \in Tokens, GetRead(r, t) PROVE Store!Use(t)
  <2>1. /\ map[t] # None /\ map' = map
        /\ got' = [got EXCEPT ![r] = [token |-> t, conn |-> map[t].conn]] /\ got[r] = None
        /\ got'[r] = [token |-> t, conn |-> map[t].conn]
    BY <1>2 DEF GetRead
  <2>2. r \in Reading(t)' /\ \A x \in Tokens : x # t => Reading(x)' = Reading(x)
    <3>1. got'[r] # None /\ got'[r].token = t
      BY <2>1, NoEntryAssumption DEF Found, Entry
    <3> QED BY <2>1, <3>1 DEF Reading
  <2>3. Known(t) # None /\ Known(t)' = Known(t)
    BY <2>1, KnownIs, KnownNext
  <2>4. ASSUME NEW x \in Tokens, x # t PROVE Known(x)' = Known(x)
    <3>1. \A q \in Reading(x) : got'[q] = got[q]
      BY <2>1 DEF Reading
    <3> QED BY <2>1, <2>2, <2>4, <3>1, KnownKept
  <2>5. Sessions[t] # None /\ Sessions' = Sessions
    BY <1>0, <2>3, <2>4
  <2>6. Idle' = Idle \ {t}
    BY <1>0, <2>1, <2>2
  <2> QED BY <2>5, <2>6 DEF Store!Use, Sessions, Idle
<1>3. ASSUME NEW r \in Requests, GetPut(r) PROVE UNCHANGED Store!vars
  <2>1. PICK t \in Tokens : got[r].token = t /\ got[r] # None /\ got[r].conn \in Connections
    BY <1>3 DEF GetPut, Found
  <2>2. /\ map'[t] = Fresh(got[r].conn) /\ map'[t].conn = got[r].conn /\ ~map'[t].idle /\ map'[t] # None
        /\ \A x \in Tokens : x # t => map'[x] = map[x]
    BY <1>3, <2>1, FreshType DEF GetPut
  <2>3. r \in Reading(t) /\ \A x \in Tokens : x # t => Reading(x)' = Reading(x)
    BY <1>3, <2>1 DEF GetPut, Reading
  <2>4. Known(t)' = Known(t)
    BY <2>2, <2>3, KnownIs, KnownNext
  <2>5. ASSUME NEW x \in Tokens, x # t PROVE Known(x)' = Known(x)
    <3>1. \A q \in Reading(x) : got'[q] = got[q]
      BY <1>3, <2>1, <2>5 DEF GetPut, Reading
    <3> QED BY <2>2, <2>3, <2>5, <3>1, KnownKept
  <2>6. Idle' = Idle
    BY <1>0, <2>2, <2>3
  <2>7. \A x \in Tokens : Known(x)' = Known(x)
    BY <2>4, <2>5
  <2> QED BY <2>6, <2>7, Stutter
<1>4. ASSUME NEW t \in Tokens, SweepTest(t) PROVE UNCHANGED Store!vars
  BY <1>4, Stutter DEF SweepTest, Known, Reading, Idle
<1>5. ASSUME SweepRemove PROVE [Store!Next]_Store!vars
  <2>1. PICK t \in Tokens : sweep.token = t /\ sweep # None /\ sweep \in Old
    BY <1>5 DEF SweepRemove, Old
  <2>2. got' = got /\ \A x \in Tokens : Reading(x)' = Reading(x)
    BY <1>5 DEF SweepRemove, Reading
  <2>3. \A x \in Tokens : x # t => map'[x] = map[x]
    BY <1>5, <2>1 DEF SweepRemove
  <2>4. ASSUME NEW x \in Tokens, x # t PROVE Known(x)' = Known(x)
    BY <2>2, <2>3, <2>4, KnownKept
  <2>5. CASE map[t] # sweep.entry
    <3>1. map'[t] = map[t]
      BY <1>5, <2>1, <2>5 DEF SweepRemove
    <3>2. Known(t)' = Known(t)
      BY <2>2, <3>1, KnownKept
    <3>3. Idle' = Idle
      BY <1>0, <2>2, <2>3, <3>1
    <3>4. \A x \in Tokens : Known(x)' = Known(x)
      BY <2>4, <3>2
    <3> QED BY <3>3, <3>4, Stutter
  <2>6. CASE map[t] = sweep.entry
    <3>1. map'[t] = None /\ map[t] # None /\ map[t].idle
      BY <1>5, <2>1, <2>6, NoEntryAssumption DEF SweepRemove, SweepsOld, Old
    <3>2. CASE Reading(t) = {}
      <4>1. Known(t)' = None
        BY <2>2, <3>1, <3>2, KnownNext
      <4>2. Sessions' = [Sessions EXCEPT ![t] = None]
        BY <1>0, <2>4, <4>1
      <4>3. t \in Idle /\ Idle' = Idle \ {t}
        BY <1>0, <2>2, <2>3, <3>1, <3>2
      <4>4. Store!Forget(t)
        BY <4>2, <4>3 DEF Store!Forget, Sessions, Idle
      <4> QED BY <4>4 DEF Store!Next
    <3>3. ASSUME NEW q \in Reading(t) PROVE UNCHANGED Store!vars
      <4>1. Known(t)' = got'[q].conn
        BY <2>2, KnownNext
      <4>2. Known(t)' = Known(t)
        BY <2>2, <4>1, KnownIs
      <4>3. Idle' = Idle
        BY <1>0, <2>2, <2>3, <3>1, <3>3
      <4>4. \A x \in Tokens : Known(x)' = Known(x)
        BY <2>4, <4>2
      <4> QED BY <4>3, <4>4, Stutter
    <3> QED BY <3>2, <3>3
  <2> QED BY <2>5, <2>6
<1>6. ASSUME NEW t \in Tokens, Age(t) PROVE [Store!Next]_Store!vars
  <2>1. map[t] # None /\ map[t] \in Entry /\ map' = [map EXCEPT ![t] = [map[t] EXCEPT !.idle = TRUE]]
    BY <1>6 DEF Age
  <2>2. map'[t].idle /\ map'[t].conn = map[t].conn /\ map'[t] # None
    BY <2>1, NoEntryAssumption DEF Entry
  <2>3. \A x \in Tokens : Reading(x)' = Reading(x) /\ (x # t => map'[x] = map[x])
    BY <1>6, <2>1 DEF Age, Reading
  <2>4. ASSUME NEW x \in Tokens, x # t PROVE Known(x)' = Known(x)
    BY <1>6, <2>3, <2>4, KnownKept DEF Age
  <2>5. Known(t) # None /\ Known(t)' = Known(t)
    BY <2>1, <2>2, KnownIs, KnownNext
  <2>6. Sessions[t] # None /\ Sessions' = Sessions
    BY <1>0, <2>4, <2>5
  <2>7. CASE Reading(t) = {}
    <3>1. Idle' = Idle \cup {t}
      BY <1>0, <2>2, <2>3, <2>7
    <3>2. Store!HalfAnHour(t)
      BY <2>6, <3>1 DEF Store!HalfAnHour, Sessions, Idle
    <3> QED BY <3>2 DEF Store!Next
  <2>8. CASE Reading(t) # {}
    <3>1. Idle' = Idle
      BY <1>0, <2>2, <2>3, <2>8
    <3>2. \A x \in Tokens : Known(x)' = Known(x)
      BY <2>4, <2>5
    <3> QED BY <3>1, <3>2, Stutter
  <2> QED BY <2>7, <2>8
<1>7. ASSUME Restart PROVE Store!Restart
  <2>1. \A t \in Tokens : map'[t] = None /\ Reading(t)' = {}
    BY <1>7 DEF Restart, Reading
  <2>2. \A t \in Tokens : Known(t)' = None
    BY <2>1, KnownNext
  <2>3. Sessions' = [t \in Tokens |-> None] /\ Idle' = {}
    BY <1>0, <2>1, <2>2
  <2> QED BY <2>3 DEF Store!Restart, Sessions, Idle
<1>8. ASSUME UNCHANGED registryVars PROVE UNCHANGED Store!vars
  BY <1>8, Stutter DEF registryVars, Known, Reading, Idle
<1> QED BY <1>1, <1>2, <1>3, <1>4, <1>5, <1>6, <1>7, <1>8
        DEF RegistryNext, Cleaner, GetNull, Store!Next

(* The registry's promise to the streams.                                   *)
THEOREM TokensInUseStay == RegistrySpec => KeepsSessions
<1>1. RegistryInit => RegistryInv /\ Store!Init
  BY InvInit, StoreInit
<1>2. RegistryInv /\ [RegistryNext]_registryVars => RegistryInv'
  BY InvNext
<1>3. RegistryInv /\ RegistryInv' /\ [RegistryNext]_registryVars => [Store!Next]_Store!vars
  BY StoreNext
<1> QED BY <1>1, <1>2, <1>3, PTL DEF RegistrySpec, KeepsSessions, Store!Spec

-----------------------------------------------------------------------------
(* The tab uses the registry as its specification says, nothing outlives an *)
(* Unsubscribe, and a subscription does one thing at a time.                *)
(*                                                                          *)
(* Neither of the last two is inductive alone.  One needs the other, that   *)
(* a closed EventSource has nothing left to deliver (so the stream that     *)
(* reports is the one of esRef), that at most one registration is awaited   *)
(* until Subscribe is clicked during one, and that a stream that is not     *)
(* over has a token (so that a reconnect timer is never armed for None).    *)

TabTypes ==
  /\ subscribed \in BOOLEAN /\ raced \in BOOLEAN
  /\ es \in Streams \cup {None} /\ timer \in Tokens \cup {None}
  /\ pending \in Nat
  /\ source \in [Streams -> {"closed", "open", "connecting"}]
  /\ token \in [Streams -> Tokens \cup {None}]
  /\ worker \in [Streams -> {"none", "asked", "looking", "resolved", "unknown", "listening"}]
  /\ chan \in [Streams -> Seq(Events)]

TokenOfStream == \A s \in Streams : ~Forgotten(s) => token[s] \in Tokens

ClosedIsQuiet == \A s \in Streams : chan[s] # <<>> => Open(s)

OneRegistration == ~raced => pending <= 1

TabInv ==
  /\ TabTypes /\ TokenOfStream /\ ClosedIsQuiet
  /\ OneRegistration /\ NothingOutlivesStop /\ OneThingAtATime

LEMMA TabInit == Init => TabInv
<1> SUFFICES ASSUME Init PROVE TabInv
  OBVIOUS
<1>1. TabTypes
  <2>1. <<>> \in Seq(Events)
    OBVIOUS
  <2> QED BY <2>1 DEF Init, TabTypes
<1>2. TokenOfStream /\ ClosedIsQuiet /\ OneRegistration
  BY DEF Init, TokenOfStream, ClosedIsQuiet, OneRegistration, Forgotten, Open
<1>3. NothingOutlivesStop /\ OneThingAtATime
  BY DEF Init, NothingOutlivesStop, OneThingAtATime, Open
<1> QED BY <1>1, <1>2, <1>3 DEF TabInv

-----------------------------------------------------------------------------
(* The streams' part, which does not depend on what the tab does.           *)

LEMMA SendIs ==
  ASSUME TabInv, NEW s \in Streams, NEW es1 \in Seq(Events), Send(s, es1)
  PROVE  /\ chan' \in [Streams -> Seq(Events)]
         /\ \A x \in Streams : chan'[x] # <<>> => Open(x)
<1>1. chan[s] \o es1 \in Seq(Events) /\ <<>> \in Seq(Events)
  BY DEF TabInv, TabTypes
<1>2. chan' = [chan EXCEPT ![s] = IF Open(s) THEN chan[s] \o es1 ELSE <<>>]
  BY DEF Send
<1> QED BY <1>1, <1>2 DEF TabInv, TabTypes, ClosedIsQuiet

LEMMA DeliveredIs ==
  ASSUME TabInv, NEW s \in Streams, chan[s] # <<>>
  PROVE  /\ Rest(s) \in [Streams -> Seq(Events)]
         /\ Quiet(s) \in [Streams -> Seq(Events)]
         /\ \A x \in Streams : Rest(s)[x] # <<>> \/ Quiet(s)[x] # <<>> => Open(x)
         /\ Open(s) /\ token[s] \in Tokens /\ Quiet(s)[s] = <<>>
         /\ \A x \in Streams : x # s => Quiet(s)[x] = chan[x]
<1>1. Tail(chan[s]) \in Seq(Events) /\ <<>> \in Seq(Events) /\ Open(s)
  BY DEF TabInv, TabTypes, ClosedIsQuiet
<1> QED BY <1>1 DEF Rest, Quiet, TabInv, TabTypes, ClosedIsQuiet, TokenOfStream, Forgotten

-----------------------------------------------------------------------------
(* The tab's part.                                                          *)

(* What both of the tab's properties need of a step that leaves the tab     *)
(* alone, or closes and stops, or opens one stream.                         *)
TabSafe == OneRegistration /\ NothingOutlivesStop /\ OneThingAtATime

LEMMA StopIsSafe ==
  ASSUME TabInv, stopSubscribe, pending' \in Nat, pending' <= pending, raced' = raced,
         \A s \in Streams : source'[s] # "closed" => Open(s) /\ s # es
  PROVE  TabSafe'
<1>1. ~raced => \A s \in Streams : ~(Open(s)')
  BY DEF TabInv, NothingOutlivesStop, Open
<1>2. OneRegistration'
  BY DEF TabInv, TabTypes, OneRegistration
<1>3. NothingOutlivesStop' /\ OneThingAtATime'
  BY <1>1 DEF stopSubscribe, NothingOutlivesStop, OneThingAtATime
<1> QED BY <1>2, <1>3 DEF TabSafe

LEMMA SameIsSafe ==
  ASSUME TabInv, UNCHANGED <<subscribed, es, timer, pending, raced>>,
         \A s \in Streams : Open(s)' <=> Open(s)
  PROVE  TabSafe'
BY DEF TabInv, TabSafe, OneRegistration, NothingOutlivesStop, OneThingAtATime

(* doConnect while nothing is open and no registration is left.             *)
LEMMA ConnectIsSafe ==
  ASSUME TabInv, NEW s \in Streams, NEW t, doConnect(s, t), subscribed' = subscribed,
         raced' = raced, pending' \in Nat,
         ~raced => pending' = 0 /\ \A x \in Streams : ~Open(x),
         ~raced /\ ~subscribed => es = None /\ timer = None
  PROVE  TabSafe'
<1>1. CASE subscribed
  <2>1. timer' = None /\ es' = s /\ source' = [source EXCEPT ![s] = "open"]
    BY <1>1 DEF doConnect
  <2>2. ~raced => \A x \in Streams : Open(x)' <=> x = s
    BY <2>1 DEF Open, TabInv, TabTypes
  <2> QED BY <1>1, <2>1, <2>2 DEF TabSafe, OneRegistration, NothingOutlivesStop, OneThingAtATime
<1>2. CASE ~subscribed
  <2>1. timer' = timer /\ es' = es /\ \A x \in Streams : Open(x)' <=> Open(x)
    BY <1>2 DEF doConnect, Open
  <2> QED BY <1>2, <2>1 DEF TabSafe, OneRegistration, NothingOutlivesStop, OneThingAtATime
<1> QED BY <1>1, <1>2 DEF TabInv, TabTypes

(* What doConnect does to the streams.                                      *)
LEMMA ConnectStreams ==
  ASSUME TabInv, NEW s \in Streams, NEW t \in Tokens, doConnect(s, t), UNCHANGED chan
  PROVE  /\ es' \in Streams \cup {None} /\ timer' \in Tokens \cup {None}
         /\ source' \in [Streams -> {"closed", "open", "connecting"}]
         /\ token' \in [Streams -> Tokens \cup {None}]
         /\ worker' \in [Streams -> {"none", "asked", "looking", "resolved", "unknown", "listening"}]
         /\ TokenOfStream' /\ ClosedIsQuiet'
<1>1. CASE subscribed
  BY <1>1, ZenonT(40) DEF doConnect, TabInv, TabTypes, TokenOfStream, ClosedIsQuiet, Forgotten, Open
<1>2. CASE ~subscribed
  BY <1>2 DEF doConnect, TabInv, TabTypes, TokenOfStream, ClosedIsQuiet, Forgotten, Open
<1> QED BY <1>1, <1>2

(* What closing the stream of esRef does to the streams.                    *)
LEMMA CloseStreams ==
  ASSUME TabInv,
         NEW ready \in [Streams -> {"closed", "open", "connecting"}],
         NEW queues \in [Streams -> Seq(Events)],
         \A s \in Streams : ready[s] # "closed" => Open(s),
         \A s \in Streams : queues[s] # <<>> => ready[s] # "closed",
         CloseKnown(ready, queues), UNCHANGED <<token, worker>>
  PROVE  /\ source' \in [Streams -> {"closed", "open", "connecting"}]
         /\ chan' \in [Streams -> Seq(Events)]
         /\ TokenOfStream' /\ ClosedIsQuiet'
         /\ \A s \in Streams : source'[s] # "closed" => Open(s) /\ s # es
<1>1. /\ source' = [s \in Streams |-> IF s = es THEN "closed" ELSE ready[s]]
      /\ chan' = [s \in Streams |-> IF s = es THEN <<>> ELSE queues[s]]
  BY DEF CloseKnown
<1>2. <<>> \in Seq(Events)
  OBVIOUS
<1> QED BY <1>1, <1>2 DEF TabInv, TabTypes, TokenOfStream, ClosedIsQuiet, Forgotten, Open

-----------------------------------------------------------------------------
LEMMA TabNext == TabInv /\ [Next]_vars => TabInv'
<1> SUFFICES ASSUME TabInv, [Next]_vars PROVE TabInv'
  OBVIOUS
<1> DEFINE StreamsOk ==
      /\ source \in [Streams -> {"closed", "open", "connecting"}]
      /\ token \in [Streams -> Tokens \cup {None}]
      /\ worker \in [Streams -> {"none", "asked", "looking", "resolved", "unknown", "listening"}]
      /\ chan \in [Streams -> Seq(Events)]
      /\ TokenOfStream /\ ClosedIsQuiet
    TabOk ==
      /\ subscribed \in BOOLEAN /\ raced \in BOOLEAN
      /\ es \in Streams \cup {None} /\ timer \in Tokens \cup {None}
      /\ pending \in Nat
<1>a. StreamsOk /\ TabOk
  BY DEF TabInv, TabTypes
<1>b. StreamsOk' /\ TabOk' /\ TabSafe' => TabInv'
  BY DEF TabInv, TabTypes, TabSafe
<1>c. TabSafe
  BY DEF TabInv, TabSafe
<1>1. ASSUME startSubscribe PROVE TabInv'
  <2>1. UNCHANGED <<es, timer, source, token, worker, chan>> /\ subscribed' = TRUE
        /\ pending' = pending + 1 /\ raced' = (raced \/ pending > 0) /\ ~subscribed
    BY <1>1 DEF startSubscribe, net
  <2>2. StreamsOk'
    BY <1>a, <2>1 DEF TokenOfStream, ClosedIsQuiet, Forgotten, Open
  <2>3. TabOk'
    <3>1. raced' \in BOOLEAN
      BY <2>1
    <3> QED BY <1>a, <2>1, <3>1
  <2>4. TabSafe'
    <3>0. raced \/ pending > 0 => raced'
      BY <2>1
    <3>1. ~raced' => ~raced /\ pending' = 1 /\ es' = None /\ timer' = None
      BY <1>a, <1>c, <2>1, <3>0 DEF TabSafe, NothingOutlivesStop
    <3>2. ~raced' => \A s \in Streams : ~(Open(s)')
      BY <1>c, <2>1, <3>1, StreamsAssumption DEF TabSafe, NothingOutlivesStop, Open
    <3> QED BY <2>1, <3>1, <3>2 DEF TabSafe, OneRegistration, NothingOutlivesStop, OneThingAtATime
  <2> QED BY <1>b, <2>2, <2>3, <2>4
<1>2. ASSUME stopSubscribe, CloseKnown(source, chan), UNCHANGED <<token, worker, raced>>,
             pending' \in Nat, pending' <= pending
      PROVE  TabInv'
  <2>1. \A s \in Streams : source[s] # "closed" => Open(s)
    BY DEF Open
  <2>2. \A s \in Streams : chan[s] # <<>> => source[s] # "closed"
    BY <1>a DEF ClosedIsQuiet, Open
  <2>3. StreamsOk' /\ \A s \in Streams : source'[s] # "closed" => Open(s) /\ s # es
    BY <1>a, <1>2, <2>1, <2>2, CloseStreams
  <2>4. TabOk'
    BY <1>a, <1>2 DEF stopSubscribe
  <2>5. TabSafe'
    BY <1>2, <2>3, StopIsSafe
  <2> QED BY <1>b, <2>3, <2>4, <2>5
<1>3. ASSUME ClickStop \/ Unmount PROVE TabInv'
  <2>1. stopSubscribe /\ CloseKnown(source, chan) /\ UNCHANGED <<pending, token, worker, raced>>
    BY <1>3 DEF ClickStop, Unmount
  <2>2. pending' \in Nat /\ pending' <= pending
    BY <1>a, <2>1
  <2> QED BY <1>2, <2>1, <2>2
<1>4. ASSUME RegisterFails PROVE TabInv'
  <2>1. pending' = pending - 1 /\ pending > 0
    BY <1>4 DEF RegisterFails
  <2>2. pending' \in Nat /\ pending' <= pending
    BY <1>a, <2>1
  <2> QED BY <1>2, <1>4, <2>2 DEF RegisterFails
<1>5. ASSUME NEW s \in Streams, NEW t \in Tokens, NEW c \in Connections, RegisterOk(s, t, c)
      PROVE  TabInv'
  <2>1. doConnect(s, t) /\ pending' = pending - 1 /\ pending > 0
        /\ subscribed' = subscribed /\ raced' = raced /\ chan' = chan
    BY <1>5 DEF RegisterOk
  <2>2. StreamsOk'
    BY <1>a, <2>1, ConnectStreams
  <2>3. TabOk'
    BY <1>a, <2>1, ConnectStreams
  <2>4. ~raced => pending' = 0
    BY <1>a, <1>c, <2>1 DEF TabSafe, OneRegistration
  <2>5. ~raced => \A x \in Streams : ~Open(x)
    BY <1>a, <1>c, <2>1, StreamsAssumption DEF TabSafe, NothingOutlivesStop, OneThingAtATime
  <2>6. TabSafe'
    BY <1>c, <2>1, <2>3, <2>4, <2>5, ConnectIsSafe DEF TabSafe, NothingOutlivesStop
  <2> QED BY <1>b, <2>2, <2>3, <2>6
<1>6. ASSUME NEW s \in Streams, ReconnectTimer(s) PROVE TabInv'
  <2>1. timer \in Tokens /\ doConnect(s, timer) /\ timer # None
        /\ UNCHANGED <<subscribed, raced, pending, chan>>
    BY <1>a, <1>6 DEF ReconnectTimer
  <2>2. StreamsOk'
    BY <1>a, <2>1, ConnectStreams
  <2>3. TabOk'
    BY <1>a, <2>1, ConnectStreams
  <2>4. ~raced => pending' = 0 /\ \A x \in Streams : ~Open(x)
    BY <1>c, <2>1 DEF TabSafe, NothingOutlivesStop, OneThingAtATime
  <2>5. TabSafe'
    BY <1>c, <2>1, <2>3, <2>4, ConnectIsSafe DEF TabSafe, NothingOutlivesStop
  <2> QED BY <1>b, <2>2, <2>3, <2>5
<1>7. ASSUME NEW s \in Streams, OnStarted(s) PROVE TabInv'
  <2>1. /\ UNCHANGED <<subscribed, es, timer, pending, source, token, worker, raced>>
        /\ chan' = Rest(s) /\ chan[s] # <<>>
    BY <1>7 DEF OnStarted, Arrives
  <2>2. StreamsOk'
    BY <1>a, <2>1, DeliveredIs DEF TokenOfStream, ClosedIsQuiet, Forgotten, Open
  <2>3. TabSafe'
    BY <2>1, SameIsSafe DEF Open
  <2> QED BY <1>a, <1>b, <2>1, <2>2, <2>3
<1>8. ASSUME NEW s \in Streams, OnFinal(s) PROVE TabInv'
  <2>1. /\ stopSubscribe /\ CloseKnown(source, Rest(s)) /\ chan[s] # <<>>
        /\ UNCHANGED <<pending, token, worker, raced>>
    BY <1>8 DEF OnFinal, Arrives
  <2>2. /\ Rest(s) \in [Streams -> Seq(Events)]
        /\ \A x \in Streams : Rest(s)[x] # <<>> => source[x] # "closed"
        /\ \A x \in Streams : source[x] # "closed" => Open(x)
    BY <2>1, DeliveredIs DEF Open
  <2>3. StreamsOk' /\ \A x \in Streams : source'[x] # "closed" => Open(x) /\ x # es
    BY <1>a, <2>1, <2>2, CloseStreams
  <2>4. TabOk'
    BY <1>a, <2>1 DEF stopSubscribe
  <2>5. TabSafe'
    BY <1>a, <2>1, <2>3, StopIsSafe
  <2> QED BY <1>b, <2>3, <2>4, <2>5
<1>9. ASSUME NEW s \in Streams, NEW state \in {"connecting", "closed"}, OnError(s, state)
      PROVE  TabInv'
  <2>1. chan[s] # <<>> /\ UNCHANGED <<pending, token, worker, raced>>
    BY <1>9 DEF OnError, Broken, Arrives
  <2>2. /\ Quiet(s) \in [Streams -> Seq(Events)] /\ Open(s) /\ token[s] \in Tokens
        /\ Quiet(s)[s] = <<>>
        /\ \A x \in Streams : Quiet(s)[x] # <<>> => Open(x)
    BY <2>1, DeliveredIs
  <2>3. /\ After(s, state) \in [Streams -> {"closed", "open", "connecting"}]
        /\ \A x \in Streams : After(s, state)[x] # "closed" => Open(x)
        /\ \A x \in Streams : Quiet(s)[x] # <<>> => After(s, state)[x] # "closed"
    BY <1>a, <2>2 DEF After, Open
  <2>4. CASE es = None
    <3>1. source' = After(s, state) /\ chan' = Quiet(s) /\ UNCHANGED <<subscribed, es, timer>>
      BY <1>9, <2>4 DEF OnError
    <3>2. StreamsOk'
      BY <1>a, <2>1, <2>2, <2>3, <3>1 DEF TokenOfStream, ClosedIsQuiet, Forgotten, Open
    <3>3. raced
      BY <1>c, <2>2, <2>4, StreamsAssumption DEF TabSafe, NothingOutlivesStop
    <3>4. TabSafe'
      BY <2>1, <3>3 DEF TabSafe, OneRegistration, NothingOutlivesStop, OneThingAtATime
    <3> QED BY <1>a, <1>b, <2>1, <3>1, <3>2, <3>4
  <2>5. CASE es # None
    <3>1. CloseKnown(After(s, state), Quiet(s))
      BY <1>9, <2>5 DEF OnError
    <3>2. StreamsOk' /\ \A x \in Streams : source'[x] # "closed" => Open(x) /\ x # es
      BY <1>a, <2>1, <2>2, <2>3, <3>1, CloseStreams
    <3>3. CASE attempt + 1 > MaxReconnects
      <4>1. stopSubscribe
        BY <1>9, <2>5, <3>3 DEF OnError
      <4>2. TabOk'
        BY <1>a, <2>1, <4>1 DEF stopSubscribe
      <4>3. TabSafe'
        BY <1>a, <2>1, <3>2, <4>1, StopIsSafe
      <4> QED BY <1>b, <3>2, <4>2, <4>3
    <3>4. CASE ~(attempt + 1 > MaxReconnects)
      <4>1. es' = None /\ timer' = token[s] /\ subscribed' = subscribed
        BY <1>9, <2>5, <3>4 DEF OnError
      <4>2. TabOk'
        BY <1>a, <2>1, <2>2, <4>1
      <4>3. ~raced => \A x \in Streams : ~(Open(x)')
        BY <1>c, <3>2 DEF TabSafe, NothingOutlivesStop, Open
      <4>4. ~raced => subscribed /\ pending = 0
        BY <1>c, <2>2, <2>5 DEF TabSafe, NothingOutlivesStop, OneThingAtATime
      <4>5. TabSafe'
        BY <2>1, <2>2, <4>1, <4>3, <4>4, StreamsAssumption
           DEF TabSafe, OneRegistration, NothingOutlivesStop, OneThingAtATime
      <4> QED BY <1>b, <3>2, <4>2, <4>5
    <3> QED BY <3>3, <3>4
  <2> QED BY <2>4, <2>5
<1>10. ASSUME UNCHANGED <<subscribed, es, timer, pending, raced, token>>,
              source' \in [Streams -> {"closed", "open", "connecting"}],
              worker' \in [Streams -> {"none", "asked", "looking", "resolved", "unknown", "listening"}],
              chan' \in [Streams -> Seq(Events)],
              \A s \in Streams : Open(s)' <=> Open(s),
              \A s \in Streams : chan'[s] # <<>> => Open(s),
              \A s \in Streams : worker'[s] # "none" /\ worker[s] = "none" => Open(s)
       PROVE  TabInv'
  <2>1. StreamsOk'
    BY <1>a, <1>10 DEF TokenOfStream, ClosedIsQuiet, Forgotten
  <2>2. TabSafe'
    BY <1>10, SameIsSafe
  <2> QED BY <1>a, <1>10, <1>b, <2>1, <2>2
<1>11. ASSUME NEW s \in Streams, BrowserRetry(s) PROVE TabInv'
  BY <1>a, <1>10, <1>11 DEF BrowserRetry, tab, ClosedIsQuiet, Open
<1>12. ASSUME NEW s \in Streams, NEW from, NEW to,
              to \in {"none", "asked", "looking", "resolved", "unknown", "listening"},
              from # "none" \/ to = "none", Serve(s, from, to),
              chan' \in [Streams -> Seq(Events)],
              \A x \in Streams : chan'[x] # <<>> => Open(x)
       PROVE  TabInv'
  BY <1>a, <1>10, <1>12 DEF Serve, tab, Open
<1>13. ASSUME NEW s \in Streams, LookUp(s) \/ WorkerNoticesClose(s) PROVE TabInv'
  <2>1. chan' = chan
    BY <1>13 DEF LookUp, WorkerNoticesClose
  <2>2. chan' \in [Streams -> Seq(Events)] /\ \A x \in Streams : chan'[x] # <<>> => Open(x)
    BY <1>a, <2>1 DEF ClosedIsQuiet
  <2> QED BY <1>12, <1>13, <2>2 DEF LookUp, WorkerNoticesClose
<1>14. ASSUME NEW s \in Streams,
              \/ WorkerRefused(s) \/ WorkerFails(s) \/ WorkerStarts(s) \/ WorkerDeadline(s)
              \/ ResponseBreaks(s) \/ RequestLost(s)
       PROVE  TabInv'
  <2>0. /\ <<"refused">> \in Seq(Events) /\ <<"started">> \in Seq(Events)
        /\ <<"timeout", "end">> \in Seq(Events) /\ <<"pubsub-error", "end">> \in Seq(Events)
        /\ \A e \in {"end", "refused"} : <<e>> \in Seq(Events)
    BY DEF Events
  <2>1. PICK es1 \in Seq(Events) : Send(s, es1)
    <3>1. CASE WorkerRefused(s)
      BY <2>0, <3>1 DEF WorkerRefused
    <3>2. CASE WorkerFails(s)
      BY <2>0, <3>2 DEF WorkerFails
    <3>3. CASE WorkerStarts(s)
      BY <2>0, <3>3 DEF WorkerStarts
    <3>4. CASE WorkerDeadline(s)
      BY <2>0, <3>4 DEF WorkerDeadline
    <3>5. CASE ResponseBreaks(s) \/ RequestLost(s)
      BY <2>0, <3>5 DEF ResponseBreaks, RequestLost
    <3> QED BY <1>14, <3>1, <3>2, <3>3, <3>4, <3>5
  <2>2. chan' \in [Streams -> Seq(Events)] /\ \A x \in Streams : chan'[x] # <<>> => Open(x)
    BY <2>1, SendIs
  <2> QED BY <1>12, <1>14, <2>2
          DEF WorkerRefused, WorkerFails, WorkerStarts, WorkerDeadline, ResponseBreaks, RequestLost
<1>15. ASSUME BackendDies PROVE TabInv'
  <2>1. \A s \in Streams : Append(chan[s], "end") \in Seq(Events)
    BY <1>a DEF Events
  <2>2. chan' = [s \in Streams |-> IF Open(s) /\ worker[s] # "none"
                                   THEN Append(chan[s], "end") ELSE chan[s]]
        /\ worker' = [s \in Streams |-> "none"] /\ UNCHANGED <<tab, source, token, raced>>
    BY <1>15 DEF BackendDies
  <2>3. chan' \in [Streams -> Seq(Events)] /\ \A x \in Streams : chan'[x] # <<>> => Open(x)
    BY <1>a, <2>1, <2>2 DEF ClosedIsQuiet
  <2> QED BY <1>a, <1>10, <2>2, <2>3 DEF tab, Open
<1>16. ASSUME BackendStarts \/ CleanerRuns \/ UNCHANGED vars PROVE TabInv'
  <2>1. UNCHANGED <<tab, net, raced>>
    BY <1>16 DEF BackendStarts, CleanerRuns, vars
  <2> QED BY <1>a, <1>10, <2>1 DEF tab, net, ClosedIsQuiet, Open
<1> QED BY <1>1, <1>3, <1>4, <1>5, <1>6, <1>7, <1>8, <1>9, <1>11, <1>13, <1>14, <1>15, <1>16
        DEF Next, User, Registered, Handle, Worker

LEMMA TabInvariant == Spec => []TabInv
BY TabInit, TabNext, PTL DEF Spec

(* Nothing outlives an Unsubscribe, a fatal answer or the last reconnect.   *)
THEOREM StopIsFinal == Spec => []NothingOutlivesStop
BY TabInvariant, PTL DEF TabInv

(* A subscription delivers nothing twice, and never waits for nothing.      *)
THEOREM NeverTwice == Spec => []OneThingAtATime
BY TabInvariant, PTL DEF TabInv

-----------------------------------------------------------------------------
(* The tab and its streams use the registry as its specification says.      *)

LEMMA RegistryStep == TabInv /\ [Next]_vars => [RegistryNext]_registryVars
<1> SUFFICES ASSUME TabInv, [Next]_vars PROVE [RegistryNext]_registryVars
  OBVIOUS
<1>1. ASSUME NEW s \in Streams, NEW t \in Tokens, NEW c \in Connections, RegisterOk(s, t, c)
      PROVE  RegistryNext
  BY <1>1 DEF RegisterOk, RegistryNext
<1>2. ASSUME NEW s \in Streams, LookUp(s) PROVE RegistryNext
  <2>1. worker[s] = "asked" => token[s] \in Tokens
    BY DEF TabInv, TokenOfStream, Forgotten
  <2> QED BY <1>2, <2>1 DEF LookUp, Serve, Streams, RegistryNext
<1>3. ASSUME BackendDies \/ CleanerRuns PROVE RegistryNext
  BY <1>3 DEF BackendDies, CleanerRuns, RegistryNext
<1>4. ASSUME startSubscribe \/ ClickStop \/ Unmount \/ RegisterFails \/ BackendStarts
             \/ UNCHANGED vars
      PROVE  UNCHANGED registryVars
  BY <1>4 DEF startSubscribe, ClickStop, Unmount, RegisterFails, BackendStarts, vars, registry
<1>5. ASSUME NEW s \in Streams,
             \/ OnStarted(s) \/ OnFinal(s) \/ (\E state \in {"connecting", "closed"} : OnError(s, state))
             \/ BrowserRetry(s) \/ ReconnectTimer(s) \/ WorkerRefused(s) \/ WorkerFails(s)
             \/ WorkerStarts(s) \/ WorkerDeadline(s) \/ WorkerNoticesClose(s)
             \/ ResponseBreaks(s) \/ RequestLost(s)
      PROVE  UNCHANGED registryVars
  BY <1>5 DEF OnStarted, OnFinal, OnError, Broken, BrowserRetry, ReconnectTimer, WorkerRefused,
     WorkerFails, WorkerStarts, WorkerDeadline, WorkerNoticesClose, ResponseBreaks, RequestLost, registry
<1> QED BY <1>1, <1>2, <1>3, <1>4, <1>5 DEF Next, User, Registered, Handle, Worker

(* So a token that a subscription is using stays valid and its own.         *)
THEOREM SubscriptionsKeepTheirTokens == Spec => KeepsSessions
<1>1. Init => RegistryInit
  BY DEF Init
<1>2. TabInv /\ [Next]_vars => [RegistryNext]_registryVars
  BY RegistryStep
<1>3. Spec => RegistrySpec
  BY <1>1, <1>2, TabInvariant, PTL DEF Spec, RegistrySpec
<1> QED BY <1>3, TokensInUseStay

-----------------------------------------------------------------------------
(* Types.  Those of the tab and its streams are part of TabInv; the counter *)
(* of reconnects stays within its bound, and the registry knows exactly the *)
(* requests that the backend is looking up.                                 *)

Counters == attempt \in 0 .. MaxReconnects /\ pending \in 0 .. MaxPending

LookedUp == \A s \in Streams : got[s] # None <=> worker[s] = "looking"

RestTypes == mounted \in BOOLEAN /\ backendUp \in BOOLEAN /\ Counters /\ LookedUp

LEMMA CountersStep == Counters /\ [Next]_vars => Counters'
<1> SUFFICES ASSUME Counters, [Next]_vars PROVE Counters'
  OBVIOUS
<1> USE BoundsAssumption DEF Counters
<1>1. ASSUME startSubscribe \/ ClickStop \/ Unmount \/ RegisterFails PROVE Counters'
  BY <1>1 DEF startSubscribe, ClickStop, Unmount, RegisterFails, stopSubscribe
<1>2. ASSUME NEW s \in Streams, NEW t \in Tokens, NEW c \in Connections, RegisterOk(s, t, c)
      PROVE  Counters'
  BY <1>2 DEF RegisterOk
<1>3. ASSUME NEW s \in Streams, OnStarted(s) \/ OnFinal(s) PROVE Counters'
  BY <1>3 DEF OnStarted, OnFinal, stopSubscribe
<1>4. ASSUME NEW s \in Streams, NEW state \in {"connecting", "closed"}, OnError(s, state) PROVE Counters'
  BY <1>4 DEF OnError, Broken, stopSubscribe
<1>5. ASSUME NEW s \in Streams,
             \/ BrowserRetry(s) \/ ReconnectTimer(s) \/ Worker(s) \/ ResponseBreaks(s) \/ RequestLost(s)
      PROVE  Counters'
  BY <1>5 DEF BrowserRetry, ReconnectTimer, Worker, LookUp, WorkerRefused, WorkerFails, WorkerStarts,
     WorkerDeadline, WorkerNoticesClose, ResponseBreaks, RequestLost, Serve, tab
<1>6. ASSUME BackendDies \/ BackendStarts \/ CleanerRuns \/ UNCHANGED vars PROVE Counters'
  BY <1>6 DEF BackendDies, BackendStarts, CleanerRuns, vars, tab
<1> QED BY <1>1, <1>2, <1>3, <1>4, <1>5, <1>6 DEF Next, User, Registered, Handle

LEMMA FlagsStep ==
  mounted \in BOOLEAN /\ backendUp \in BOOLEAN /\ [Next]_vars => mounted' \in BOOLEAN /\ backendUp' \in BOOLEAN
<1> SUFFICES ASSUME mounted \in BOOLEAN, backendUp \in BOOLEAN, [Next]_vars
             PROVE  mounted' \in BOOLEAN /\ backendUp' \in BOOLEAN
  OBVIOUS
<1>1. ASSUME startSubscribe \/ ClickStop \/ Unmount \/ RegisterFails \/ BackendDies \/ BackendStarts
             \/ CleanerRuns \/ UNCHANGED vars
      PROVE  mounted' \in {mounted, FALSE} /\ backendUp' \in {backendUp, TRUE, FALSE}
  BY <1>1 DEF startSubscribe, ClickStop, Unmount, RegisterFails, BackendDies, BackendStarts,
     CleanerRuns, vars, tab
<1>2. ASSUME NEW s \in Streams, NEW t \in Tokens, NEW c \in Connections, RegisterOk(s, t, c)
      PROVE  UNCHANGED <<mounted, backendUp>>
  BY <1>2 DEF RegisterOk
<1>3. ASSUME NEW s \in Streams,
             \/ Handle(s) \/ BrowserRetry(s) \/ ReconnectTimer(s) \/ Worker(s) \/ ResponseBreaks(s)
             \/ RequestLost(s)
      PROVE  UNCHANGED <<mounted, backendUp>>
  BY <1>3 DEF Handle, OnStarted, OnFinal, OnError, Broken, BrowserRetry, ReconnectTimer, Worker, LookUp,
     WorkerRefused, WorkerFails, WorkerStarts, WorkerDeadline, WorkerNoticesClose, ResponseBreaks,
     RequestLost, Serve, tab
<1> QED BY <1>1, <1>2, <1>3 DEF Next, User, Registered

(* A request is looked up in its own two steps, and none is when the        *)
(* backend has gone.                                                        *)
LEMMA LookedUpStep == TabInv /\ RegistryInv /\ LookedUp /\ [Next]_vars => LookedUp'
<1> SUFFICES ASSUME TabInv, RegistryInv, LookedUp, [Next]_vars PROVE LookedUp'
  OBVIOUS
<1> USE DEF LookedUp, Streams
<1>a. worker \in [Requests -> {"none", "asked", "looking", "resolved", "unknown", "listening"}]
  BY DEF TabInv, TabTypes
<1>b. got \in [Requests -> Found \cup {None}]
  BY DEF RegistryInv, RegistryTypeOK
<1>1. ASSUME startSubscribe \/ ClickStop \/ Unmount \/ RegisterFails \/ BackendStarts \/ UNCHANGED vars
      PROVE  UNCHANGED <<worker, got>>
  BY <1>1 DEF startSubscribe, ClickStop, Unmount, RegisterFails, BackendStarts, vars, registry,
     registryVars, net
<1>2. ASSUME NEW s \in Requests, OnStarted(s) \/ OnFinal(s) \/ (\E state \in {"connecting", "closed"} : OnError(s, state))
      PROVE  UNCHANGED <<worker, got>>
  BY <1>2 DEF OnStarted, OnFinal, OnError, Broken, registry, registryVars
<1>3. CASE BackendDies
  BY <1>3 DEF BackendDies, Restart
<1>4. CASE CleanerRuns
  BY <1>4 DEF CleanerRuns, Cleaner, SweepTest, Age, SweepRemove, net
<1>5. ASSUME NEW s \in Requests, NEW t, doConnect(s, t), UNCHANGED got PROVE LookedUp'
  BY <1>5, <1>a DEF doConnect, Forgotten
<1>6. ASSUME NEW s \in Requests, NEW t \in Tokens, NEW c \in Connections, RegisterOk(s, t, c)
      PROVE  LookedUp'
  BY <1>5, <1>6 DEF RegisterOk, register
<1>7. ASSUME NEW s \in Requests, ReconnectTimer(s) PROVE LookedUp'
  BY <1>5, <1>7 DEF ReconnectTimer, registry, registryVars
<1>8. ASSUME NEW s \in Requests, LookUp(s) PROVE LookedUp'
  <2>1. CASE Serve(s, "asked", "looking") /\ GetRead(s, token[s])
    <3>1. got' = [got EXCEPT ![s] = [token |-> token[s], conn |-> map[token[s]].conn]]
          /\ map[token[s]] # None
      BY <2>1 DEF GetRead
    <3>2. token[s] \in Tokens
      BY <2>1 DEF TabInv, TokenOfStream, Forgotten, Serve
    <3>3. map[token[s]] \in Entry
      BY <3>1, <3>2 DEF RegistryInv, RegistryTypeOK
    <3>4. [token |-> token[s], conn |-> map[token[s]].conn] \in Found
      BY <3>2, <3>3 DEF Found, Entry
    <3>5. [token |-> token[s], conn |-> map[token[s]].conn] # None
      BY <3>4, NoEntryAssumption
    <3> QED BY <1>a, <1>b, <2>1, <3>1, <3>5 DEF Serve
  <2>2. CASE Serve(s, "looking", "resolved") /\ GetPut(s)
    BY <1>a, <1>b, <2>2 DEF Serve, GetPut
  <2>3. CASE Serve(s, "asked", "unknown") /\ GetNull(s, token[s])
    BY <1>a, <2>3 DEF Serve, GetNull, registryVars
  <2> QED BY <1>8, <2>1, <2>2, <2>3 DEF LookUp
<1>9. ASSUME NEW s \in Requests,
             \/ WorkerRefused(s) \/ WorkerFails(s) \/ WorkerStarts(s) \/ WorkerDeadline(s)
             \/ WorkerNoticesClose(s) \/ ResponseBreaks(s) \/ RequestLost(s) \/ BrowserRetry(s)
      PROVE  LookedUp'
  <2>1. /\ UNCHANGED got
        /\ worker[s] # "looking"
        /\ \E to \in {"none", "listening", "asked"} : worker' = [worker EXCEPT ![s] = to]
    BY <1>9 DEF WorkerRefused, WorkerFails, WorkerStarts, WorkerDeadline, WorkerNoticesClose,
       ResponseBreaks, RequestLost, BrowserRetry, Serve, registry, registryVars
  <2> QED BY <1>a, <2>1
<1> QED BY <1>1, <1>2, <1>3, <1>4, <1>6, <1>7, <1>8, <1>9 DEF Next, User, Registered, Handle, Worker

(* The counter of reconnects never passes its bound, a stream and a timer   *)
(* have a token or none, and the registry is asked by those streams whose   *)
(* request is being looked up.                                              *)
THEOREM TypeCorrect == Spec => []TypeOK
<1>1. Init => RegistryInv /\ RestTypes
  BY InvInit, BoundsAssumption DEF Init, RegistryInit, RestTypes, Counters, LookedUp, Streams
<1>2. TabInv /\ RegistryInv /\ RestTypes /\ [Next]_vars => RegistryInv' /\ RestTypes'
  BY RegistryStep, InvNext, CountersStep, FlagsStep, LookedUpStep DEF RestTypes
<1>3. TabInv /\ RegistryInv /\ RestTypes => TypeOK
  BY DEF TabInv, TabTypes, RegistryInv, RestTypes, Counters, LookedUp, TypeOK
<1> QED BY <1>1, <1>2, <1>3, TabInvariant, PTL DEF Spec

=============================================================================
