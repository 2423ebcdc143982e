---------------------------- MODULE PubSubStream ----------------------------
(***************************************************************************)
(* One Pub/Sub tab: the client (PubSubView.tsx), its EventSources, the     *)
(* workers of PubSubService that serve them, and the session registry in   *)
(* which the requests look up their connection.                            *)
(*                                                                         *)
(* A subscription registers a session once and uses its token for every    *)
(* reconnect.  The answer of the registration is ignored if the user has   *)
(* unsubscribed meanwhile, but not if the user has subscribed again.       *)
(***************************************************************************)
EXTENDS SessionRegistry, Sequences

CONSTANTS
  MaxReconnects,  \* MAX_RECONNECTS, 5 in the code
  MaxPending      \* bound: registrations awaited at once

Streams == Requests  \* EventSource objects, each with the request it made

ASSUME StreamsAssumption == None \notin Streams /\ None \notin Tokens
ASSUME BoundsAssumption == MaxReconnects \in Nat /\ MaxPending \in Nat

VARIABLES
  mounted,     \* the tab is on the page
  subscribed,  \* its subscribed flag; activeRef is always the same
  attempt,     \* reconnectCountRef
  es,          \* esRef: the stream the tab knows of, or None
  timer,       \* the token the armed reconnect timer will connect with, or None
  pending,     \* startSubscribe calls awaiting registerSession
  source,      \* stream -> EventSource readyState
  token,       \* stream -> the token of its URL
  worker,      \* stream -> what the backend does for its request
  chan,        \* stream -> events sent and not yet delivered
  backendUp,   \* the backend process is alive
  raced        \* history: Subscribe was clicked while a registration was awaited

registry == registryVars
tab      == <<mounted, subscribed, attempt, es, timer, pending>>
net      == <<source, token, worker, chan>>
vars     == <<registry, tab, net, backendUp, raced>>

-----------------------------------------------------------------------------
(* Messages are left out: they only fill the list.                          *)
Events == {"started", "timeout", "pubsub-error", "end", "refused"}

Open(s) == source[s] # "closed"

(* An EventSource that is closed and whose request is over.                 *)
Forgotten(s) == ~Open(s) /\ worker[s] = "none"

(* Tokens somebody may still use.                                           *)
Held == {timer} \cup {token[s] : s \in {x \in Streams : ~Forgotten(x)}}

TypeOK ==
  /\ RegistryTypeOK
  /\ mounted \in BOOLEAN /\ subscribed \in BOOLEAN
  /\ attempt \in 0 .. MaxReconnects
  /\ es \in Streams \cup {None} /\ timer \in Tokens \cup {None}
  /\ pending \in 0 .. MaxPending
  /\ source \in [Streams -> {"closed", "open", "connecting"}]
  /\ token \in [Streams -> Tokens \cup {None}]
  /\ worker \in [Streams -> {"none", "asked", "looking", "resolved", "unknown", "listening"}]
  /\ chan \in [Streams -> Seq(Events)]
  /\ backendUp \in BOOLEAN /\ raced \in BOOLEAN
  /\ \A s \in Streams : got[s] # None <=> worker[s] = "looking"

Init ==
  /\ RegistryInit
  /\ mounted = TRUE /\ subscribed = FALSE /\ attempt = 0
  /\ es = None /\ timer = None /\ pending = 0
  /\ source = [s \in Streams |-> "closed"] /\ token = [s \in Streams |-> None]
  /\ worker = [s \in Streams |-> "none"] /\ chan = [s \in Streams |-> <<>>]
  /\ backendUp = TRUE /\ raced = FALSE

-----------------------------------------------------------------------------
(* The client's own helpers.                                                *)

(* close() of the stream of esRef: nothing more of it is delivered.         *)
CloseKnown(readyState, queues) ==
  /\ source' = [s \in Streams |-> IF s = es THEN "closed" ELSE readyState[s]]
  /\ chan' = [s \in Streams |-> IF s = es THEN <<>> ELSE queues[s]]

(* stopSubscribe, but for the closing of the stream.                        *)
stopSubscribe ==
  /\ es' = None /\ timer' = None
  /\ attempt' = 0 /\ subscribed' = FALSE

doConnect_EvenIfStopped(s, t) ==
  /\ Forgotten(s)
  /\ timer' = None /\ es' = s
  /\ source' = [source EXCEPT ![s] = "open"]
  /\ token' = [token EXCEPT ![s] = t]
  /\ worker' = [worker EXCEPT ![s] = "asked"]

(* doConnect: nothing if the user has stopped; else a new EventSource, and  *)
(* the one that esRef named, if any, is not closed.                         *)
doConnect(s, t) ==
  IF ~subscribed
  THEN UNCHANGED <<timer, es, source, token, worker>>
  ELSE /\ Forgotten(s)
       /\ timer' = None /\ es' = s
       /\ source' = [source EXCEPT ![s] = "open"]
       /\ token' = [token EXCEPT ![s] = t]
       /\ worker' = [worker EXCEPT ![s] = "asked"]

-----------------------------------------------------------------------------
(* What the user does.                                                      *)

(* Up to the await.                                                         *)
startSubscribe ==
  /\ mounted /\ ~subscribed /\ pending < MaxPending
  /\ subscribed' = TRUE /\ pending' = pending + 1
  /\ raced' = (raced \/ pending > 0)
  /\ UNCHANGED <<registry, mounted, attempt, es, timer, net, backendUp>>

ClickStop ==
  /\ mounted /\ subscribed
  /\ stopSubscribe /\ CloseKnown(source, chan)
  /\ UNCHANGED <<registry, mounted, pending, token, worker, backendUp, raced>>

Unmount ==
  /\ mounted /\ mounted' = FALSE
  /\ stopSubscribe /\ CloseKnown(source, chan)
  /\ UNCHANGED <<registry, pending, token, worker, backendUp, raced>>

-----------------------------------------------------------------------------
(* Awaited registrations and the reconnect timer.                           *)

RegisterOk(s, t, c) ==
  /\ pending > 0 /\ backendUp /\ t \notin Held
  /\ register(t, c)
  /\ pending' = pending - 1
  /\ doConnect(s, t)
  /\ UNCHANGED <<mounted, subscribed, attempt, chan, backendUp, raced>>

(* The catch: the subscription ends, whichever one it is by now.            *)
RegisterFails ==
  /\ pending > 0
  /\ pending' = pending - 1
  /\ stopSubscribe /\ CloseKnown(source, chan)
  /\ UNCHANGED <<registry, mounted, token, worker, backendUp, raced>>

ReconnectTimer(s) ==
  /\ timer # None
  /\ doConnect(s, timer)
  /\ UNCHANGED <<registry, mounted, subscribed, attempt, pending, chan, backendUp, raced>>

-----------------------------------------------------------------------------
(* Events delivered to the client.                                          *)

Arrives(s, e) == chan[s] # <<>> /\ Head(chan[s]) = e
Rest(s) == [chan EXCEPT ![s] = Tail(chan[s])]

OnStarted(s) ==
  /\ Arrives(s, "started") /\ chan' = Rest(s)
  /\ attempt' = 0
  /\ UNCHANGED <<registry, mounted, subscribed, es, timer, pending, source, token, worker,
                 backendUp, raced>>

(* timeout and pubsub-error stop the subscription; only the stream of esRef *)
(* is closed, whichever reports.                                            *)
OnFinal(s) ==
  /\ Arrives(s, "timeout") \/ Arrives(s, "pubsub-error")
  /\ stopSubscribe /\ CloseKnown(source, Rest(s))
  /\ UNCHANGED <<registry, mounted, pending, token, worker, backendUp, raced>>

(* A response that ended leaves the EventSource CONNECTING, an HTTP error   *)
(* CLOSED.                                                                  *)
Broken(s, state) ==
  /\ Arrives(s, IF state = "connecting" THEN "end" ELSE "refused")
  /\ UNCHANGED <<registry, mounted, pending, token, worker, backendUp, raced>>

After(s, state) == [source EXCEPT ![s] = state]
Quiet(s) == [chan EXCEPT ![s] = <<>>]

OnError_NeverGivesUp(s, state) ==
  /\ Broken(s, state)
  /\ IF es = None
     THEN /\ source' = After(s, state) /\ chan' = Quiet(s)
          /\ UNCHANGED <<subscribed, attempt, es, timer>>
     ELSE /\ CloseKnown(After(s, state), Quiet(s))
          /\ es' = None /\ timer' = token[es] /\ UNCHANGED <<subscribed, attempt>>

OnError_LeavesItOpen(s, state) ==
  /\ Broken(s, state)
  /\ source' = After(s, state) /\ chan' = Quiet(s)
  /\ IF es = None
     THEN UNCHANGED <<subscribed, attempt, es, timer>>
     ELSE IF attempt + 1 > MaxReconnects
          THEN stopSubscribe
          ELSE /\ attempt' = attempt + 1
               /\ es' = None /\ timer' = token[s] /\ UNCHANGED subscribed

(* onerror: closes the stream of esRef, whoever reports, and reconnects     *)
(* with the token of the one that reports.                                  *)
OnError(s, state) ==
  /\ Broken(s, state)
  /\ IF es = None
     THEN /\ source' = After(s, state) /\ chan' = Quiet(s)
          /\ UNCHANGED <<subscribed, attempt, es, timer>>
     ELSE /\ CloseKnown(After(s, state), Quiet(s))
          /\ IF attempt + 1 > MaxReconnects
             THEN stopSubscribe
             ELSE /\ attempt' = attempt + 1
                  /\ es' = None /\ timer' = token[s] /\ UNCHANGED subscribed

(* An EventSource left in CONNECTING asks again by itself.                  *)
BrowserRetry(s) ==
  /\ source[s] = "connecting" /\ worker[s] = "none"
  /\ source' = [source EXCEPT ![s] = "open"]
  /\ worker' = [worker EXCEPT ![s] = "asked"]
  /\ UNCHANGED <<registry, tab, token, chan, backendUp, raced>>

-----------------------------------------------------------------------------
(* The backend: the request's get, then PubSubService's worker.  What is    *)
(* sent reaches only an open stream.                                        *)

Send(s, es1) == chan' = [chan EXCEPT ![s] = IF Open(s) THEN @ \o es1 ELSE <<>>]

Serve(s, from, to) ==
  /\ worker[s] = from /\ worker' = [worker EXCEPT ![s] = to]
  /\ UNCHANGED <<tab, source, token, backendUp, raced>>

LookUp(s) ==
  /\ backendUp
  /\ \/ Serve(s, "asked", "looking") /\ GetRead(s, token[s])
     \/ Serve(s, "looking", "resolved") /\ GetPut(s)
     \/ Serve(s, "asked", "unknown") /\ GetNull(s, token[s])
  /\ UNCHANGED chan

(* No SSH tunnel: the request is answered with an HTTP error.               *)
WorkerRefused(s) ==
  /\ Serve(s, "resolved", "none") /\ Send(s, <<"refused">>)
  /\ UNCHANGED registry

(* A cluster, or a Redis that cannot be reached; an unknown token makes a   *)
(* connection without a host, which never can.                              *)
WorkerFails(s) ==
  /\ Serve(s, "resolved", "none") \/ Serve(s, "unknown", "none")
  /\ Send(s, <<"pubsub-error", "end">>)
  /\ UNCHANGED registry

WorkerStarts(s) ==
  /\ Serve(s, "resolved", "listening") /\ Send(s, <<"started">>)
  /\ UNCHANGED registry

WorkerDeadline(s) ==
  /\ Serve(s, "listening", "none") /\ Send(s, <<"timeout", "end">>)
  /\ UNCHANGED registry

(* A ping to a closed stream fails, or the emitter says it is over.         *)
WorkerNoticesClose(s) ==
  /\ worker[s] # "looking" /\ ~Open(s)
  /\ Serve(s, worker[s], "none")
  /\ UNCHANGED <<registry, chan>>

-----------------------------------------------------------------------------
(* The environment.                                                         *)

(* The network or a proxy drops the response.                               *)
ResponseBreaks(s) ==
  /\ Open(s) /\ worker[s] \notin {"none", "looking"}
  /\ Serve(s, worker[s], "none") /\ Send(s, <<"end">>)
  /\ UNCHANGED registry

BackendDies ==
  /\ backendUp /\ backendUp' = FALSE
  /\ Restart
  /\ worker' = [s \in Streams |-> "none"]
  /\ chan' = [s \in Streams |-> IF Open(s) /\ worker[s] # "none"
                                THEN Append(chan[s], "end") ELSE chan[s]]
  /\ UNCHANGED <<tab, source, token, raced>>

BackendStarts ==
  /\ ~backendUp /\ backendUp' = TRUE
  /\ UNCHANGED <<registry, tab, net, raced>>

(* A request to a backend that is down, through a proxy or not.             *)
RequestLost(s) ==
  /\ ~backendUp
  /\ Serve(s, "asked", "none")
  /\ \E e \in {"end", "refused"} : Send(s, <<e>>)
  /\ UNCHANGED registry

CleanerRuns ==
  /\ backendUp /\ Cleaner
  /\ UNCHANGED <<tab, net, backendUp, raced>>

-----------------------------------------------------------------------------
User == startSubscribe \/ ClickStop \/ Unmount

Registered ==
  \E s \in Streams, t \in Tokens, c \in Connections : RegisterOk(s, t, c)

Handle(s) ==
  OnStarted(s) \/ OnFinal(s) \/ \E state \in {"connecting", "closed"} : OnError(s, state)

Worker(s) ==
  \/ LookUp(s) \/ WorkerRefused(s) \/ WorkerFails(s) \/ WorkerStarts(s)
  \/ WorkerDeadline(s) \/ WorkerNoticesClose(s)

Next ==
  \/ User \/ Registered \/ RegisterFails
  \/ BackendDies \/ BackendStarts \/ CleanerRuns
  \/ \E s \in Streams :
       \/ Handle(s) \/ BrowserRetry(s) \/ ReconnectTimer(s)
       \/ Worker(s) \/ ResponseBreaks(s) \/ RequestLost(s)

Spec == Init /\ [][Next]_vars

(* Timers fire, events are delivered, and without a backend every request   *)
(* fails.  Nothing is assumed of a backend that is there.                   *)
FairSpec ==
  /\ Spec
  /\ WF_vars(~backendUp /\ RegisterFails)
  /\ WF_vars(\E s \in Streams : ReconnectTimer(s))
  /\ \A s \in Streams : WF_vars(Handle(s)) /\ WF_vars(RequestLost(s))

-----------------------------------------------------------------------------
(* Properties.                                                              *)

(* Unless the user has subscribed again during a registration, the tab      *)
(* knows every open EventSource, and a subscription that was stopped, by    *)
(* the user or by an error, holds none and has no timer, even if its        *)
(* registration was awaited when it ended.                                  *)
NothingOutlivesStop ==
  ~raced => /\ \A s \in Streams : Open(s) => s = es
            /\ ~subscribed => es = None /\ timer = None

(* Unless he has, a subscription does exactly one thing: it awaits its      *)
(* token, has a stream, or waits to reconnect.  Two streams would deliver   *)
(* every message twice, none would deliver nothing for ever.                *)
OneThingAtATime ==
  ~raced /\ subscribed =>
    \/ pending = 1 /\ timer = None /\ \A s \in Streams : ~Open(s)
    \/ pending = 0 /\ timer = None /\ \E s \in Streams : \A x \in Streams : Open(x) <=> x = s
    \/ pending = 0 /\ timer # None /\ \A s \in Streams : ~Open(s)

(* "Auto-reconnect on disconnect (max 5 retries)": a subscription whose     *)
(* backend is gone ends, although a started stream resets the counter.      *)
GivesUpWithoutBackend == <>[]~backendUp => []<>~subscribed
=============================================================================
