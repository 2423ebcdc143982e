--------------------------- MODULE MonitorStream ---------------------------
(***************************************************************************)
(* One Monitor tab: the client (MonitorView.tsx), its EventSources, and    *)
(* the workers that serve them (MonitorService.java behind the SSE         *)
(* endpoint of RedisController.java).                                      *)
(*                                                                         *)
(* connectStream awaits the registration of a session before it opens its  *)
(* EventSource, and checks nothing when it resumes: every click, timer and *)
(* event may come in between.  An EventSource that nobody closes re-issues *)
(* its request by itself after its response ends.                          *)
(***************************************************************************)
EXTENDS Naturals, Sequences, FiniteSets

CONSTANTS
  Streams,       \* EventSource objects; one is used again once it is forgotten
  MaxReconnect,  \* MAX_RECONNECT, 5 in the code
  MaxPending,    \* bound: registrations awaited at once
  None           \* no stream

ASSUME MaxAssumption == MaxReconnect \in Nat /\ MaxPending \in Nat
ASSUME NoneAssumption == None \notin Streams

VARIABLES
  mounted,   \* the component is on the page
  running,   \* its running flag: the Stop button is shown
  timed,     \* autoStop > 0
  attempt,   \* attemptRef
  es,        \* esRef: the stream the component knows of, or None
  timer,     \* a reconnect timer is armed and reconnectTimerRef names it
  stray,     \* armed reconnect timers that reconnectTimerRef no longer names
  pending,   \* connectStream calls awaiting registerSession
  shown,     \* the error bar: why the monitor stopped
  source,    \* stream -> EventSource readyState
  worker,    \* stream -> the worker serving its current request
  chan,      \* stream -> events sent and not yet delivered
  redisUp,   \* the Redis process is alive
  raced,     \* history: a click, timer or stop came while a registration was pending
  regFailed  \* history: a registration of this run was rejected

client == <<mounted, running, timed, attempt, es, timer, stray, pending, shown>>
net    == <<source, worker, chan>>
vars   == <<client, net, redisUp, raced, regFailed>>

-----------------------------------------------------------------------------
Events == {"monitor", "timeout-deadline", "timeout-eof", "fatal-error", "monitor-error", "end", "refused"}

Open(s) == source[s] # "closed"
(* An EventSource object that is closed and whose request is over.          *)
Forgotten(s) == ~Open(s) /\ worker[s] = "none"

TypeOK ==
  /\ mounted \in BOOLEAN /\ running \in BOOLEAN /\ timed \in BOOLEAN
  /\ attempt \in 0 .. MaxReconnect
  /\ es \in Streams \cup {None}
  /\ timer \in BOOLEAN /\ stray \in 0 .. 1
  /\ pending \in 0 .. MaxPending
  /\ shown \in {"none", "auto-stopped", "fatal", "lost"}
  /\ source \in [Streams -> {"closed", "open", "connecting"}]
  /\ worker \in [Streams -> {"none", "starting", "reading"}]
  /\ chan \in [Streams -> Seq(Events)]
  /\ redisUp \in BOOLEAN
  /\ raced \in BOOLEAN /\ regFailed \in BOOLEAN

Init ==
  /\ mounted = TRUE /\ running = FALSE /\ timed = FALSE
  /\ attempt = 0 /\ es = None /\ timer = FALSE /\ stray = 0 /\ pending = 0
  /\ shown = "none"
  /\ source = [s \in Streams |-> "closed"]
  /\ worker = [s \in Streams |-> "none"]
  /\ chan = [s \in Streams |-> <<>>]
  /\ redisUp = TRUE /\ raced = FALSE /\ regFailed = FALSE

-----------------------------------------------------------------------------
(* The client's own helpers, as relations on the variables they assign.     *)

(* es.close() on a set of streams: nothing more of theirs is delivered.     *)
Close(S) ==
  /\ source' = [s \in Streams |-> IF s \in S THEN "closed" ELSE source[s]]
  /\ chan' = [s \in Streams |-> IF s \in S THEN <<>> ELSE chan[s]]

Known == {es} \ {None}

stopMonitor_KeepsTheTimer ==
  /\ es' = None /\ UNCHANGED <<timer, stray>>
  /\ attempt' = 0 /\ running' = FALSE
  /\ raced' = (raced \/ pending > 0)

(* stopMonitor without the closing of esRef.current (Close(Known)).         *)
stopMonitor ==
  /\ es' = None
  /\ timer' = FALSE /\ UNCHANGED stray
  /\ attempt' = 0 /\ running' = FALSE
  /\ raced' = (raced \/ pending > 0)

(* connectStream up to its await.                                           *)
connectStream ==
  /\ pending < MaxPending
  /\ pending' = pending + 1
  /\ es' = None
  /\ Close(Known)
  /\ raced' = (raced \/ pending > 0)

scheduleReconnect_NeverGivesUp ==
  /\ attempt' = IF attempt < MaxReconnect THEN attempt + 1 ELSE attempt
  /\ timer' = TRUE
  /\ stray' = IF timer THEN 1 ELSE stray
  /\ UNCHANGED <<running, shown>>

scheduleReconnect_OneTooMany ==
  /\ attempt <= MaxReconnect
  /\ attempt' = attempt + 1
  /\ timer' = TRUE
  /\ stray' = IF timer THEN 1 ELSE stray
  /\ UNCHANGED <<running, shown>>

scheduleReconnect_StaysRunning ==
  /\ IF attempt + 1 > MaxReconnect
     THEN attempt' = 0 /\ shown' = "lost" /\ UNCHANGED <<timer, stray>>
     ELSE /\ attempt' = attempt + 1 /\ timer' = TRUE
          /\ stray' = IF timer THEN 1 ELSE stray
          /\ UNCHANGED shown
  /\ UNCHANGED running

(* scheduleReconnect: give up after MAX_RECONNECT, else arm a timer (the    *)
(* timer already armed, if any, is not cleared).                            *)
scheduleReconnect ==
  \/ /\ attempt + 1 > MaxReconnect
     /\ attempt' = 0 /\ running' = FALSE /\ shown' = "lost"
     /\ UNCHANGED <<timer, stray>>
  \/ /\ attempt + 1 <= MaxReconnect
     /\ attempt' = attempt + 1
     /\ timer' = TRUE
     /\ stray' = IF timer THEN 1 ELSE stray
     /\ UNCHANGED <<running, shown>>

-----------------------------------------------------------------------------
(* What the user does.                                                      *)

(* Start, with one of the auto-stop options (0 is "Unlimited").             *)
startMonitor(withTimeout) ==
  /\ mounted /\ ~running
  /\ running' = TRUE /\ timed' = withTimeout
  /\ attempt' = 0 /\ shown' = "none" /\ regFailed' = FALSE
  /\ connectStream
  /\ UNCHANGED <<mounted, timer, stray, worker, redisUp>>

ClickStop ==
  /\ mounted /\ running
  /\ stopMonitor /\ Close(Known)
  /\ UNCHANGED <<mounted, timed, pending, shown, worker, redisUp, regFailed>>

(* The connection is removed and its dashboard with it: the effect's cleanup. *)
Unmount ==
  /\ mounted /\ mounted' = FALSE
  /\ stopMonitor /\ Close(Known)
  /\ UNCHANGED <<timed, pending, shown, worker, redisUp, regFailed>>

-----------------------------------------------------------------------------
(* Timers and awaited registrations.                                        *)

ReconnectTimer ==
  /\ \/ timer /\ timer' = FALSE /\ UNCHANGED stray
     \/ stray > 0 /\ stray' = stray - 1 /\ UNCHANGED timer
  /\ connectStream
  /\ UNCHANGED <<mounted, running, timed, attempt, shown, worker, redisUp, regFailed>>

(* The token arrives: open an EventSource whatever has happened meanwhile.  *)
RegisterOk(s) ==
  /\ pending > 0 /\ Forgotten(s)
  /\ pending' = pending - 1
  /\ es' = s
  /\ source' = [source EXCEPT ![s] = "open"]
  /\ worker' = [worker EXCEPT ![s] = "starting"]
  /\ UNCHANGED <<mounted, running, timed, attempt, timer, stray, shown, chan, redisUp,
                 raced, regFailed>>

(* fetch rejects: connectStream's promise does too, and nobody handles it.  *)
RegisterFails ==
  /\ pending > 0
  /\ pending' = pending - 1
  /\ regFailed' = TRUE
  /\ UNCHANGED <<mounted, running, timed, attempt, es, timer, stray, shown, net, redisUp, raced>>

-----------------------------------------------------------------------------
(* Events delivered to the client.                                          *)

Next1(s, e) == chan[s] # <<>> /\ Head(chan[s]) = e
Take(s) == [chan EXCEPT ![s] = Tail(chan[s])]

(* A captured command ends a series of reconnects.                          *)
OnMonitor(s) ==
  /\ Next1(s, "monitor") /\ chan' = Take(s)
  /\ attempt' = 0
  /\ UNCHANGED <<mounted, running, timed, es, timer, stray, pending, shown, source, worker,
                 redisUp, raced, regFailed>>

(* "timeout" and "fatal-error" stop the monitor; what is closed is the      *)
(* stream of esRef, and only if that is s itself is s closed.               *)
OnFinal(s) ==
  /\ \/ (Next1(s, "timeout-deadline") \/ Next1(s, "timeout-eof")) /\ shown' = "auto-stopped"
     \/ Next1(s, "fatal-error") /\ shown' = "fatal"
  /\ stopMonitor
  /\ source' = [x \in Streams |-> IF x \in Known THEN "closed" ELSE source[x]]
  /\ chan' = [x \in Streams |-> IF x \in Known THEN <<>> ELSE Take(s)[x]]
  /\ UNCHANGED <<mounted, timed, pending, worker, redisUp, regFailed>>

(* monitor-error: closes the stream of esRef, whoever reports.              *)
OnMonitorError(s) ==
  /\ Next1(s, "monitor-error")
  /\ IF es = None
     THEN /\ chan' = Take(s)
          /\ UNCHANGED <<client, source, raced>>
     ELSE /\ source' = [source EXCEPT ![es] = "closed"]
          /\ chan' = [Take(s) EXCEPT ![es] = <<>>]
          /\ es' = None
          /\ scheduleReconnect
          /\ UNCHANGED <<mounted, timed, pending, raced>>
  /\ UNCHANGED <<worker, redisUp, regFailed>>

(* error: a response that ended leaves the EventSource CONNECTING, an HTTP  *)
(* error leaves it CLOSED.  The handler closes the stream of esRef, whoever *)
(* reports.                                                                 *)
OnError(s) ==
  \E state \in {"connecting", "closed"} :
    /\ Next1(s, IF state = "connecting" THEN "end" ELSE "refused")
    /\ IF es = None
       THEN /\ source' = [source EXCEPT ![s] = state]
            /\ chan' = [chan EXCEPT ![s] = <<>>]
            /\ UNCHANGED <<client, raced>>
       ELSE /\ source' = [[source EXCEPT ![s] = state] EXCEPT ![es] = "closed"]
            /\ chan' = [[chan EXCEPT ![s] = <<>>] EXCEPT ![es] = <<>>]
            /\ es' = None
            /\ scheduleReconnect
            /\ UNCHANGED <<mounted, timed, pending, raced>>
    /\ UNCHANGED <<worker, redisUp, regFailed>>

(* An EventSource left in CONNECTING asks again by itself.                  *)
BrowserRetry(s) ==
  /\ source[s] = "connecting" /\ worker[s] = "none"
  /\ source' = [source EXCEPT ![s] = "open"]
  /\ worker' = [worker EXCEPT ![s] = "starting"]
  /\ UNCHANGED <<client, chan, redisUp, raced, regFailed>>

-----------------------------------------------------------------------------
(* MonitorService's worker.  What it sends reaches only an open stream.     *)

Send(s, es1) == chan' = [chan EXCEPT ![s] = IF Open(s) THEN @ \o es1 ELSE <<>>]

Serve(s, from, to) ==
  /\ worker[s] = from
  /\ worker' = [worker EXCEPT ![s] = to]
  /\ UNCHANGED <<client, source, redisUp, raced, regFailed>>

(* Connection type, TLS, AUTH or MONITOR refused: fatal-error, complete.    *)
WorkerRejected(s) ==
  /\ Serve(s, "starting", "none") /\ Send(s, <<"fatal-error", "end">>)

(* startMonitor throws before there is a worker (no SSH tunnel, a bad URL): *)
(* the request is answered with an HTTP error.                              *)
WorkerRefused(s) ==
  /\ Serve(s, "starting", "none") /\ Send(s, <<"refused">>)

(* Cannot connect, or an exception before or while reading: monitor-error.  *)
WorkerFails(s) ==
  /\ worker[s] # "none"
  /\ Serve(s, worker[s], "none") /\ Send(s, <<"monitor-error", "end">>)

(* The client has no listener for "started", which is sent here.            *)
WorkerStarts(s) ==
  /\ redisUp
  /\ Serve(s, "starting", "reading")
  /\ UNCHANGED chan

(* A line of Redis; at most one waits to be delivered.                      *)
WorkerLine(s) ==
  /\ redisUp /\ "monitor" \notin {chan[s][i] : i \in 1 .. Len(chan[s])}
  /\ Serve(s, "reading", "reading") /\ Send(s, <<"monitor">>)

(* The timeout event after the loop.  It does not say why the loop ended;   *)
(* the model tags it with the cause, which no action looks at.              *)
AfterLoop(why) == IF timed THEN <<why, "end">> ELSE <<"end">>

(* readLine returns null: Redis closed the connection; leave the loop.      *)
WorkerEof(s) ==
  /\ Serve(s, "reading", "none") /\ Send(s, AfterLoop("timeout-eof"))

(* The deadline passes: leave the loop.                                     *)
WorkerDeadline(s) ==
  /\ timed
  /\ Serve(s, "reading", "none") /\ Send(s, AfterLoop("timeout-deadline"))

(* A ping to a closed stream fails, or the emitter says it is over.         *)
WorkerNoticesClose(s) ==
  /\ worker[s] # "none" /\ ~Open(s)
  /\ Serve(s, worker[s], "none")
  /\ UNCHANGED chan

-----------------------------------------------------------------------------
(* The environment.                                                         *)

(* The network, a proxy or the backend drops the response.                  *)
ResponseBreaks(s) ==
  /\ Open(s) /\ worker[s] # "none"
  /\ Serve(s, worker[s], "none") /\ Send(s, <<"end">>)

(* The Redis process ends, for good; its sockets are closed with it.        *)
RedisDies ==
  /\ redisUp /\ redisUp' = FALSE
  /\ UNCHANGED <<client, net, raced, regFailed>>

User == \/ \E b \in BOOLEAN : startMonitor(b)
        \/ ClickStop
        \/ Unmount

Handle(s) ==
  \/ OnMonitor(s) \/ OnFinal(s) \/ OnMonitorError(s) \/ OnError(s)

Resume == (\E s \in Streams : RegisterOk(s)) \/ RegisterFails

Worker(s) ==
  \/ WorkerRejected(s) \/ WorkerRefused(s) \/ WorkerFails(s) \/ WorkerStarts(s)
  \/ WorkerEof(s) \/ WorkerDeadline(s) \/ WorkerNoticesClose(s)

Next ==
  \/ User \/ ReconnectTimer \/ Resume \/ RedisDies
  \/ \E s \in Streams :
       Handle(s) \/ BrowserRetry(s) \/ Worker(s) \/ WorkerLine(s) \/ ResponseBreaks(s)

Spec == Init /\ [][Next]_vars

(* Fetches settle, timers fire, events are delivered, and a worker whose    *)
(* Redis is gone leaves its read or its connect (5 s).                      *)
FairSpec ==
  /\ Spec
  /\ WF_vars(ReconnectTimer) /\ WF_vars(Resume)
  /\ \A s \in Streams :
       /\ WF_vars(Handle(s))
       /\ WF_vars(~redisUp /\ Worker(s))

-----------------------------------------------------------------------------
(* Properties.                                                              *)

Activities ==
  pending + (IF es # None THEN 1 ELSE 0) + (IF timer THEN 1 ELSE 0) + stray

(* As long as nothing came while a registration was pending, the page holds *)
(* no EventSource the component does not know of, and a stopped monitor has *)
(* none, no timer and no registration to come: nothing restarts by itself.  *)
NothingOutlivesStop ==
  ~raced => /\ \A s \in Streams : Open(s) => s = es
            /\ ~running => Activities = 0

(* A running monitor is doing exactly one thing about its stream: awaiting  *)
(* a registration, reading, or waiting to reconnect, unless a registration  *)
(* was rejected.                                                            *)
RunningDoesOneThing == ~raced /\ ~regFailed /\ running => Activities = 1

(* Once Redis is gone a running monitor gives up in the end (or its         *)
(* registration is rejected, which ends its attempts).                      *)
GivesUpWhenRedisIsGone == (~redisUp /\ running) ~> (~running \/ regFailed)

(* "Transient errors (Redis down, network loss) — attempt reconnect": the   *)
(* monitor says it was auto-stopped only for a stream that ran its time.    *)
AutoStopIsTheDeadline ==
  [][shown' = "auto-stopped" /\ shown # shown'
       => \E s \in Streams : Next1(s, "timeout-deadline")]_vars
=============================================================================
