------------------------ MODULE MonitorStreamProofs ------------------------
(* What MonitorStream guarantees for any streams, MAX_RECONNECT and bound   *)
(* on pending registrations.                                                *)
EXTENDS MonitorStream, SequenceTheorems, TLAPS

(* What is known of the component while no click, timer or stop has come    *)
(* during a registration: it does at most one thing at a time, knows every  *)
(* open stream, and does nothing once stopped.                              *)
Quiet ==
  /\ stray = 0
  /\ pending \in {0, 1}
  /\ pending = 1 => es = None /\ ~timer
  /\ timer => es = None
  /\ \A s \in Streams : Open(s) => s = es
  /\ ~running => pending = 0 /\ es = None /\ ~timer
  /\ running /\ ~regFailed => pending = 1 \/ es # None \/ timer

(* A closed EventSource delivers nothing.                                   *)
ClosedIsSilent == \A s \in Streams : ~Open(s) => chan[s] = <<>>

QuietInv == TypeOK /\ ClosedIsSilent /\ (~raced => Quiet)

LEMMA Zeros == 0 \in 0 .. MaxReconnect /\ 0 \in 0 .. MaxPending /\ 0 \in 0 .. 1
  BY MaxAssumption

LEMMA TypeInit == Init => TypeOK
<1>1. <<>> \in Seq(Events)
  BY EmptySeq
<1>. QED BY <1>1, Zeros DEF Init, TypeOK

(* Sending appends events or drops them.                                    *)
LEMMA SendType ==
  ASSUME TypeOK, NEW s \in Streams, NEW q \in Seq(Events), Send(s, q)
  PROVE  chan' \in [Streams -> Seq(Events)]
  <1>1. chan[s] \in Seq(Events)
    BY DEF TypeOK
  <1>2. chan[s] \o q \in Seq(Events)
    BY <1>1, ConcatProperties
  <1>3. <<>> \in Seq(Events)
    BY EmptySeq
  <1>. QED BY <1>2, <1>3 DEF Send, TypeOK

(* Delivering an event shortens the channel.                                *)
LEMMA TakeType ==
  ASSUME TypeOK, NEW s \in Streams, chan[s] # <<>>
  PROVE  Take(s) \in [Streams -> Seq(Events)]
  <1>1. chan[s] \in Seq(Events)
    BY DEF TypeOK
  <1>2. Tail(chan[s]) \in Seq(Events)
    BY <1>1, HeadTailProperties
  <1>. QED BY <1>2 DEF Take, TypeOK

LEMMA CloseType ==
  ASSUME TypeOK, NEW S, Close(S)
  PROVE  /\ source' \in [Streams -> {"closed", "open", "connecting"}]
         /\ chan' \in [Streams -> Seq(Events)]
  <1>1. <<>> \in Seq(Events)
    BY EmptySeq
  <1>. QED BY <1>1 DEF Close, TypeOK

LEMMA HelperType ==
  ASSUME TypeOK
  PROVE  /\ stopMonitor => /\ es' \in Streams \cup {None} /\ timer' \in BOOLEAN
                           /\ stray' \in 0 .. 1 /\ attempt' \in 0 .. MaxReconnect
                           /\ running' \in BOOLEAN /\ raced' \in BOOLEAN
         /\ connectStream => /\ es' \in Streams \cup {None} /\ raced' \in BOOLEAN
                             /\ pending' \in 0 .. MaxPending
                             /\ source' \in [Streams -> {"closed", "open", "connecting"}]
                             /\ chan' \in [Streams -> Seq(Events)]
  <1>1. (raced \/ pending > 0) \in BOOLEAN
    OBVIOUS
  <1>2. ASSUME stopMonitor
        PROVE  /\ es' \in Streams \cup {None} /\ timer' \in BOOLEAN
               /\ stray' \in 0 .. 1 /\ attempt' \in 0 .. MaxReconnect
               /\ running' \in BOOLEAN /\ raced' \in BOOLEAN
    <2>1. raced' \in BOOLEAN
      BY <1>1, <1>2 DEF stopMonitor
    <2>. QED BY <1>2, <2>1, Zeros DEF stopMonitor, TypeOK
  <1>3. ASSUME connectStream
        PROVE  /\ es' \in Streams \cup {None} /\ raced' \in BOOLEAN
               /\ pending' \in 0 .. MaxPending
    <2>1. raced' \in BOOLEAN
      BY <1>1, <1>3 DEF connectStream
    <2>. QED BY <1>3, <2>1, MaxAssumption DEF connectStream, TypeOK
  <1>. QED BY <1>2, <1>3, CloseType DEF connectStream

LEMMA TypeStep == TypeOK /\ [Next]_vars => TypeOK'
<1> SUFFICES ASSUME TypeOK, [Next]_vars PROVE TypeOK'
  OBVIOUS
<1> USE MaxAssumption
<1>1. ASSUME NEW b \in BOOLEAN, startMonitor(b) PROVE TypeOK'
  <2>1. timed' \in BOOLEAN /\ running' = TRUE /\ regFailed' = FALSE
    BY <1>1 DEF startMonitor
  <2>. QED BY <1>1, <2>1, HelperType, Zeros DEF startMonitor, TypeOK
<1>2. ASSUME ClickStop \/ Unmount PROVE TypeOK'
  BY <1>2, CloseType, HelperType DEF ClickStop, Unmount, TypeOK
<1>3. ASSUME ReconnectTimer PROVE TypeOK'
  <2>1. stray' \in 0 .. 1 /\ timer' \in BOOLEAN
    <3>1. CASE timer /\ timer' = FALSE /\ UNCHANGED stray
      BY <3>1 DEF TypeOK
    <3>2. CASE stray > 0 /\ stray' = stray - 1 /\ UNCHANGED timer
      BY <3>2 DEF TypeOK
    <3>. QED BY <1>3, <3>1, <3>2 DEF ReconnectTimer
  <2>. QED BY <1>3, <2>1, HelperType DEF ReconnectTimer, TypeOK
<1>4. ASSUME NEW s \in Streams, RegisterOk(s) PROVE TypeOK'
  BY <1>4 DEF RegisterOk, TypeOK
<1>5. ASSUME RegisterFails PROVE TypeOK'
  BY <1>5 DEF RegisterFails, net, TypeOK
<1>6. ASSUME NEW s \in Streams, OnMonitor(s) PROVE TypeOK'
  BY <1>6, TakeType DEF OnMonitor, Next1, TypeOK
<1>7. ASSUME NEW s \in Streams, OnFinal(s) PROVE TypeOK'
  <2>1. chan[s] # <<>> /\ shown' \in {"none", "auto-stopped", "fatal", "lost"}
    BY <1>7 DEF OnFinal, Next1
  <2>2. chan' \in [Streams -> Seq(Events)]
    BY <1>7, <2>1, TakeType DEF OnFinal
  <2>. QED BY <1>7, <2>1, <2>2, HelperType DEF OnFinal, TypeOK
<1>8. ASSUME NEW s \in Streams, OnMonitorError(s) \/ OnError(s) PROVE TypeOK'
  <2>1. Take(s) \in [Streams -> Seq(Events)]
    BY <1>8, TakeType DEF OnMonitorError, OnError, Next1
  <2>2. [chan EXCEPT ![s] = <<>>] \in [Streams -> Seq(Events)]
    BY EmptySeq DEF TypeOK
  <2>3. PICK c \in {Take(s), [chan EXCEPT ![s] = <<>>]},
             r \in {source, [source EXCEPT ![s] = "connecting"], [source EXCEPT ![s] = "closed"]} :
          /\ es = None => chan' = c /\ source' = r /\ UNCHANGED <<client, raced>>
          /\ es # None => /\ chan' = [c EXCEPT ![es] = <<>>]
                         /\ source' = [r EXCEPT ![es] = "closed"]
                         /\ es' = None /\ scheduleReconnect
                         /\ UNCHANGED <<mounted, timed, pending, raced>>
          /\ UNCHANGED <<worker, redisUp, regFailed>>
    <3>1. CASE OnMonitorError(s)
      <4>1. WITNESS Take(s) \in {Take(s), [chan EXCEPT ![s] = <<>>]}
      <4>2. WITNESS source \in {source, [source EXCEPT ![s] = "connecting"],
                                [source EXCEPT ![s] = "closed"]}
      <4>. QED BY <3>1 DEF OnMonitorError
    <3>2. CASE OnError(s)
      BY <3>2 DEF OnError
    <3>. QED BY <1>8, <3>1, <3>2
  <2>4. c \in [Streams -> Seq(Events)] /\ r \in [Streams -> {"closed", "open", "connecting"}]
    BY <2>1, <2>2 DEF TypeOK
  <2>5. CASE es = None
    <3>1. chan' = c /\ source' = r
      BY <2>3, <2>5
    <3>2. UNCHANGED <<mounted, running, timed, attempt, es, timer, stray, pending, shown,
                      raced, worker, redisUp, regFailed>>
      BY <2>3, <2>5 DEF client
    <3>3. /\ chan' \in [Streams -> Seq(Events)]
          /\ source' \in [Streams -> {"closed", "open", "connecting"}]
      BY <2>4, <3>1
    <3>. QED BY <3>2, <3>3 DEF TypeOK
  <2>6. CASE es # None
    <3>1. chan' \in [Streams -> Seq(Events)]
      <4>1. chan' = [c EXCEPT ![es] = <<>>]
        BY <2>3, <2>6
      <4>2. <<>> \in Seq(Events)
        BY EmptySeq
      <4>. QED BY <2>4, <4>1, <4>2
    <3>2. source' \in [Streams -> {"closed", "open", "connecting"}]
      BY <2>3, <2>4, <2>6
    <3>3. /\ scheduleReconnect /\ es' = None
          /\ UNCHANGED <<mounted, timed, pending, raced, worker, redisUp, regFailed>>
      BY <2>3, <2>6
    <3>4. /\ attempt' \in 0 .. MaxReconnect /\ running' \in BOOLEAN /\ timer' \in BOOLEAN
          /\ stray' \in 0 .. 1 /\ shown' \in {"none", "auto-stopped", "fatal", "lost"}
      <4>1. CASE attempt + 1 > MaxReconnect
        <5>1. /\ attempt' = 0 /\ running' = FALSE /\ shown' = "lost"
              /\ timer' = timer /\ stray' = stray
          BY <3>3, <4>1 DEF scheduleReconnect, TypeOK
        <5>. QED BY <5>1, Zeros DEF TypeOK
      <4>2. CASE attempt + 1 <= MaxReconnect
        <5>1. /\ attempt' = attempt + 1 /\ timer' = TRUE
              /\ stray' = IF timer THEN 1 ELSE stray
              /\ running' = running /\ shown' = shown
          BY <3>3, <4>2 DEF scheduleReconnect, TypeOK
        <5>2. attempt' \in 0 .. MaxReconnect
          BY <4>2, <5>1 DEF TypeOK
        <5>3. stray' \in 0 .. 1
          BY <5>1 DEF TypeOK
        <5>. QED BY <5>1, <5>2, <5>3 DEF TypeOK
      <4>. QED BY <4>1, <4>2 DEF TypeOK
    <3>. QED BY <3>1, <3>2, <3>3, <3>4 DEF TypeOK
  <2>. QED BY <2>5, <2>6
<1>9. ASSUME NEW s \in Streams, BrowserRetry(s) PROVE TypeOK'
  BY <1>9 DEF BrowserRetry, client, TypeOK
<1>10. ASSUME NEW s \in Streams, Worker(s) \/ WorkerLine(s) \/ ResponseBreaks(s) PROVE TypeOK'
  <2>1. UNCHANGED <<client, source, redisUp, raced, regFailed>>
    BY <1>10 DEF Worker, WorkerRejected, WorkerRefused, WorkerFails, WorkerStarts, WorkerEof, WorkerDeadline,
                 WorkerNoticesClose, WorkerLine, ResponseBreaks, Serve
  <2>2. worker' \in [Streams -> {"none", "starting", "reading"}]
    BY <1>10 DEF Worker, WorkerRejected, WorkerRefused, WorkerFails, WorkerStarts, WorkerEof, WorkerDeadline,
                 WorkerNoticesClose, WorkerLine, ResponseBreaks, Serve, TypeOK
  <2>3. chan' = chan \/ \E q \in Seq(Events) : Send(s, q)
    <3>1. \A why \in {"timeout-eof", "timeout-deadline"} : AfterLoop(why) \in Seq(Events)
      <4>1. /\ <<"timeout-eof", "end">> \in Seq(Events) /\ <<"end">> \in Seq(Events)
            /\ <<"timeout-deadline", "end">> \in Seq(Events)
        BY DEF Events
      <4>. QED BY <4>1 DEF AfterLoop
    <3>2. /\ <<"fatal-error", "end">> \in Seq(Events) /\ <<"monitor-error", "end">> \in Seq(Events)
          /\ <<"monitor">> \in Seq(Events) /\ <<"end">> \in Seq(Events)
          /\ <<"refused">> \in Seq(Events)
      BY DEF Events
    <3>. QED BY <1>10, <3>1, <3>2 DEF Worker, WorkerRejected, WorkerRefused, WorkerFails, WorkerStarts,
                WorkerEof, WorkerDeadline, WorkerNoticesClose, WorkerLine, ResponseBreaks
  <2>4. chan' \in [Streams -> Seq(Events)]
    BY <2>3, SendType DEF TypeOK
  <2>. QED BY <2>1, <2>2, <2>4 DEF client, TypeOK
<1>11. ASSUME RedisDies \/ UNCHANGED vars PROVE TypeOK'
  BY <1>11, ZenonT(40) DEF RedisDies, vars, client, net, TypeOK
<1>. QED
  BY <1>1, <1>2, <1>3, <1>4, <1>5, <1>6, <1>7, <1>8, <1>9, <1>10, <1>11
  DEF Next, User, Resume, Handle

(* Every variable of the tab, its streams and workers keeps its type.       *)
THEOREM TypeCorrect == Spec => []TypeOK
  BY TypeInit, TypeStep, PTL DEF Spec

(* A closed EventSource stays silent: closing drops what was on its way,    *)
(* and nothing is sent to it.                                               *)
LEMMA SilentStep == TypeOK /\ ClosedIsSilent /\ [Next]_vars => ClosedIsSilent'
<1> SUFFICES ASSUME TypeOK, ClosedIsSilent, [Next]_vars PROVE ClosedIsSilent'
  OBVIOUS
<1>1. ASSUME NEW b \in BOOLEAN, startMonitor(b) PROVE ClosedIsSilent'
  BY <1>1 DEF startMonitor, connectStream, Close, ClosedIsSilent, Open, TypeOK
<1>2. ASSUME ClickStop \/ Unmount PROVE ClosedIsSilent'
  BY <1>2 DEF ClickStop, Unmount, Close, ClosedIsSilent, Open, TypeOK
<1>3. ASSUME ReconnectTimer PROVE ClosedIsSilent'
  BY <1>3 DEF ReconnectTimer, connectStream, Close, ClosedIsSilent, Open, TypeOK
<1>4. ASSUME NEW s \in Streams, RegisterOk(s) PROVE ClosedIsSilent'
  BY <1>4 DEF RegisterOk, ClosedIsSilent, Open, TypeOK
<1>5. ASSUME RegisterFails PROVE ClosedIsSilent'
  BY <1>5 DEF RegisterFails, net, ClosedIsSilent, Open
<1>6. ASSUME NEW s \in Streams, Handle(s) PROVE ClosedIsSilent'
  <2>1. chan[s] # <<>>
    BY <1>6 DEF Handle, OnMonitor, OnFinal, OnMonitorError, OnError, Next1
  <2>2. Open(s)
    BY <2>1 DEF ClosedIsSilent
  <2>3. \A x \in Streams \ {s} : Take(s)[x] = chan[x]
    BY DEF Take, TypeOK
  <2>4. CASE OnMonitor(s)
    BY <2>2, <2>3, <2>4 DEF OnMonitor, ClosedIsSilent, Open
  <2>5. CASE OnFinal(s)
    BY <2>2, <2>3, <2>5 DEF OnFinal, ClosedIsSilent, Open
  <2>6. CASE OnMonitorError(s) /\ es = None
    BY <2>2, <2>3, <2>6 DEF OnMonitorError, ClosedIsSilent, Open
  <2>7. CASE OnMonitorError(s) /\ es # None
    BY <2>2, <2>3, <2>7 DEF OnMonitorError, ClosedIsSilent, Open, Take, TypeOK
  <2>8. CASE OnError(s) /\ es = None
    BY <2>2, <2>3, <2>8 DEF OnError, ClosedIsSilent, Open, TypeOK
  <2>9. CASE OnError(s) /\ es # None
    BY <2>2, <2>3, <2>9 DEF OnError, ClosedIsSilent, Open, Take, TypeOK
  <2>. QED BY <1>6, <2>4, <2>5, <2>6, <2>7, <2>8, <2>9 DEF Handle
<1>7. ASSUME NEW s \in Streams, BrowserRetry(s) PROVE ClosedIsSilent'
  BY <1>7 DEF BrowserRetry, ClosedIsSilent, Open, TypeOK
<1>8. ASSUME NEW s \in Streams, Worker(s) \/ WorkerLine(s) \/ ResponseBreaks(s)
      PROVE  ClosedIsSilent'
  <2>1. source' = source
    BY <1>8 DEF Worker, WorkerRejected, WorkerRefused, WorkerFails, WorkerStarts, WorkerEof, WorkerDeadline,
                WorkerNoticesClose, WorkerLine, ResponseBreaks, Serve
  <2>2. chan' = chan \/ \E q : Send(s, q)
    BY <1>8 DEF Worker, WorkerRejected, WorkerRefused, WorkerFails, WorkerStarts, WorkerEof, WorkerDeadline,
                WorkerNoticesClose, WorkerLine, ResponseBreaks
  <2>. QED BY <2>1, <2>2 DEF Send, ClosedIsSilent, Open, TypeOK
<1>9. ASSUME RedisDies \/ UNCHANGED vars PROVE ClosedIsSilent'
  BY <1>9 DEF RedisDies, vars, client, net, ClosedIsSilent, Open
<1>. QED
  BY <1>1, <1>2, <1>3, <1>4, <1>5, <1>6, <1>7, <1>8, <1>9 DEF Next, User, Resume

(* Until something races with a registration, every step keeps the          *)
(* component quiet: what is delivered comes from the stream it knows.       *)
LEMMA QuietStep ==
  TypeOK /\ ClosedIsSilent /\ Quiet /\ ~raced /\ [Next]_vars => (~raced' => Quiet')
<1> SUFFICES ASSUME TypeOK, ClosedIsSilent, Quiet, ~raced, [Next]_vars, ~raced' PROVE Quiet'
  OBVIOUS
<1> USE NoneAssumption
<1>1. ASSUME NEW b \in BOOLEAN, startMonitor(b) PROVE Quiet'
  <2>1. pending = 0 /\ es = None /\ ~timer /\ stray = 0
    BY <1>1 DEF startMonitor, Quiet
  <2>2. /\ pending' = 1 /\ es' = None /\ timer' = timer /\ stray' = 0 /\ running' = TRUE
    BY <1>1, <2>1 DEF startMonitor, connectStream
  <2>3. \A s \in Streams : ~Open(s)
    BY <2>1 DEF Quiet
  <2>4. \A s \in Streams : ~Open(s)'
    BY <1>1, <2>3 DEF startMonitor, connectStream, Close, Open, TypeOK
  <2>. QED BY <2>1, <2>2, <2>4 DEF Quiet
<1>2. ASSUME ClickStop \/ Unmount PROVE Quiet'
  <2>1. ~(pending > 0)
    BY <1>2 DEF ClickStop, Unmount, stopMonitor
  <2>2. /\ pending' = 0 /\ es' = None /\ ~timer' /\ stray' = 0 /\ running' = FALSE
    BY <1>2, <2>1 DEF ClickStop, Unmount, stopMonitor, Quiet
  <2>3. \A s \in Streams : ~Open(s)'
    BY <1>2 DEF ClickStop, Unmount, Close, Known, Quiet, Open, TypeOK
  <2>. QED BY <2>2, <2>3 DEF Quiet
<1>3. ASSUME ReconnectTimer PROVE Quiet'
  <2>1. /\ timer /\ timer' = FALSE /\ stray' = 0 /\ es = None /\ running' = running
        /\ regFailed' = regFailed
    BY <1>3 DEF ReconnectTimer, Quiet
  <2>2. running
    BY <2>1 DEF Quiet
  <2>3. pending = 0
    BY <2>1 DEF Quiet
  <2>4. pending' = 1 /\ es' = None
    BY <1>3, <2>3 DEF ReconnectTimer, connectStream
  <2>5. \A s \in Streams : ~Open(s)'
    BY <1>3, <2>1 DEF ReconnectTimer, connectStream, Close, Quiet, Open, TypeOK
  <2>. QED BY <2>1, <2>2, <2>4, <2>5 DEF Quiet
<1>4. ASSUME NEW s \in Streams, RegisterOk(s) PROVE Quiet'
  <2>1. pending = 1 /\ es = None /\ ~timer
    BY <1>4 DEF RegisterOk, Quiet
  <2>2. running
    BY <2>1 DEF Quiet
  <2>3. /\ pending' = 0 /\ es' = s /\ timer' = timer /\ stray' = stray
        /\ running' = running /\ source' = [source EXCEPT ![s] = "open"]
    BY <1>4, <2>1 DEF RegisterOk
  <2>4. \A x \in Streams : Open(x)' => x = s
    BY <2>1, <2>3 DEF Quiet, Open, TypeOK
  <2>5. s # None
    OBVIOUS
  <2>. QED BY <2>1, <2>2, <2>3, <2>4, <2>5 DEF Quiet
<1>5. ASSUME RegisterFails PROVE Quiet'
  <2>1. pending = 1 /\ pending' = 0 /\ regFailed' = TRUE
    BY <1>5 DEF RegisterFails, Quiet
  <2>2. UNCHANGED <<running, es, timer, stray, source>>
    BY <1>5 DEF RegisterFails, net
  <2>. QED BY <2>1, <2>2 DEF Quiet, Open
<1>6. ASSUME NEW s \in Streams, Handle(s) PROVE Quiet'
  <2>1. chan[s] # <<>>
    BY <1>6 DEF Handle, OnMonitor, OnFinal, OnMonitorError, OnError, Next1
  <2>2. s = es /\ es # None
    BY <2>1 DEF ClosedIsSilent, Quiet
  <2>3. running /\ pending = 0 /\ ~timer /\ stray = 0
    BY <2>2 DEF Quiet
  <2>4. CASE OnMonitor(s)
    BY <2>4 DEF OnMonitor, Quiet, Open
  <2>5. CASE OnFinal(s)
    <3>1. /\ pending' = 0 /\ es' = None /\ ~timer' /\ stray' = 0 /\ running' = FALSE
      BY <2>3, <2>5 DEF OnFinal, stopMonitor
    <3>2. \A x \in Streams : ~Open(x)'
      BY <2>5 DEF OnFinal, Known, Quiet, Open, TypeOK
    <3>. QED BY <3>1, <3>2 DEF Quiet
  <2>6. CASE OnMonitorError(s) \/ OnError(s)
    <3>1. /\ scheduleReconnect /\ es' = None /\ pending' = 0 /\ regFailed' = regFailed
      BY <2>2, <2>3, <2>6 DEF OnMonitorError, OnError
    <3>2. \A x \in Streams : ~Open(x)'
      BY <2>2, <2>6 DEF OnMonitorError, OnError, Quiet, Open, TypeOK
    <3>3. stray' = 0
      BY <2>3, <3>1 DEF scheduleReconnect
    <3>4. (running' = FALSE /\ ~timer') \/ (running' = running /\ timer' = TRUE)
      BY <2>3, <3>1 DEF scheduleReconnect
    <3>5. (~running' /\ ~timer') \/ (running' /\ timer')
      BY <2>3, <3>4
    <3>. QED BY <3>1, <3>2, <3>3, <3>5 DEF Quiet
  <2>. QED BY <1>6, <2>4, <2>5, <2>6 DEF Handle
<1>7. ASSUME NEW s \in Streams, BrowserRetry(s) PROVE Quiet'
  BY <1>7 DEF BrowserRetry, client, Quiet, Open, TypeOK
<1>8. ASSUME NEW s \in Streams, Worker(s) \/ WorkerLine(s) \/ ResponseBreaks(s) PROVE Quiet'
  <2>1. UNCHANGED <<client, source, regFailed>>
    BY <1>8 DEF Worker, WorkerRejected, WorkerRefused, WorkerFails, WorkerStarts, WorkerEof, WorkerDeadline,
                WorkerNoticesClose, WorkerLine, ResponseBreaks, Serve
  <2>. QED BY <2>1 DEF client, Quiet, Open
<1>9. ASSUME RedisDies \/ UNCHANGED vars PROVE Quiet'
  BY <1>9 DEF RedisDies, vars, client, net, Quiet, Open
<1>. QED
  BY <1>1, <1>2, <1>3, <1>4, <1>5, <1>6, <1>7, <1>8, <1>9 DEF Next, User, Resume

(* A race is remembered.                                                    *)
LEMMA RacedStays == TypeOK /\ [Next]_vars => (raced => raced')
<1> SUFFICES ASSUME TypeOK, [Next]_vars, raced PROVE raced'
  OBVIOUS
<1>1. ASSUME NEW b \in BOOLEAN, startMonitor(b) PROVE raced'
  BY <1>1 DEF startMonitor, connectStream
<1>2. ASSUME ClickStop \/ Unmount \/ ReconnectTimer PROVE raced'
  BY <1>2 DEF ClickStop, Unmount, ReconnectTimer, stopMonitor, connectStream
<1>3. ASSUME NEW s \in Streams, Handle(s) PROVE raced'
  BY <1>3 DEF Handle, OnMonitor, OnFinal, OnMonitorError, OnError, stopMonitor
<1>4. ASSUME Resume \/ RedisDies \/ UNCHANGED vars PROVE raced'
  BY <1>4 DEF Resume, RegisterOk, RegisterFails, RedisDies, vars
<1>5. ASSUME NEW s \in Streams,
             BrowserRetry(s) \/ Worker(s) \/ WorkerLine(s) \/ ResponseBreaks(s)
      PROVE  raced'
  BY <1>5 DEF BrowserRetry, Worker, WorkerRejected, WorkerRefused, WorkerFails, WorkerStarts, WorkerEof,
              WorkerDeadline, WorkerNoticesClose, WorkerLine, ResponseBreaks, Serve
<1>. QED BY <1>1, <1>2, <1>3, <1>4, <1>5 DEF Next, User

LEMMA QuietInvHolds == Spec => []QuietInv
<1>1. Init => QuietInv
  <2>1. Init => ClosedIsSilent
    BY DEF Init, ClosedIsSilent
  <2>2. Init => Quiet
    BY DEF Init, Quiet, Open
  <2>. QED BY <2>1, <2>2, TypeInit DEF QuietInv
<1>2. QuietInv /\ [Next]_vars => QuietInv'
  BY TypeStep, SilentStep, QuietStep, RacedStays DEF QuietInv
<1>. QED BY <1>1, <1>2, PTL DEF Spec

(* As long as no click, timer or stop came during a registration, the page  *)
(* holds no stream the component does not know of, and once stopped nothing *)
(* restarts by itself.                                                      *)
THEOREM StopIsFinal == Spec => []NothingOutlivesStop
<1>1. QuietInv => NothingOutlivesStop
  BY DEF QuietInv, Quiet, NothingOutlivesStop, Activities
<1>. QED BY <1>1, QuietInvHolds, PTL

(* Under the same condition, and unless a registration was rejected, a      *)
(* running monitor does exactly one thing about its stream.                 *)
THEOREM OneThingAtATime == Spec => []RunningDoesOneThing
<1>1. QuietInv => RunningDoesOneThing
  BY DEF QuietInv, Quiet, RunningDoesOneThing, Activities
<1>. QED BY <1>1, QuietInvHolds, PTL
=============================================================================
