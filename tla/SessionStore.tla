---------------------------- MODULE SessionStore ----------------------------
(***************************************************************************)
(* What the streams need of ConnectionSessionRegistry: a token leads to    *)
(* the connection it was given out for, and is forgotten only when the     *)
(* backend restarts, or after it has not been used for half an hour.       *)
(***************************************************************************)
CONSTANTS Tokens, Connections, None

VARIABLES
  sessions,  \* token -> its connection, or None
  idle       \* tokens nobody has used for half an hour

vars == <<sessions, idle>>

Init == sessions = [t \in Tokens |-> None] /\ idle = {}

Register(t, c) ==
  /\ sessions[t] = None
  /\ sessions' = [sessions EXCEPT ![t] = c]
  /\ idle' = idle \ {t}

Use(t) ==
  /\ sessions[t] # None
  /\ idle' = idle \ {t} /\ UNCHANGED sessions

HalfAnHour(t) ==
  /\ sessions[t] # None
  /\ idle' = idle \cup {t} /\ UNCHANGED sessions

Forget(t) ==
  /\ t \in idle
  /\ sessions' = [sessions EXCEPT ![t] = None]
  /\ idle' = idle \ {t}

Restart == sessions' = [t \in Tokens |-> None] /\ idle' = {}

Next ==
  \/ \E t \in Tokens :
       \/ \E c \in Connections : Register(t, c)
       \/ Use(t) \/ HalfAnHour(t) \/ Forget(t)
  \/ Restart

Spec == Init /\ [][Next]_vars
=============================================================================
