SPECIFICATION FairSpec
CONSTANTS
  Tokens = {t1, t2}
  Connections = {c1}
  Requests = {s1, s2}
  MaxReconnects = 2
  MaxPending = 2
  None = None
INVARIANTS NothingOutlivesStop OneThingAtATime
PROPERTIES KeepsSessions GivesUpWithoutBackend
CHECK_DEADLOCK FALSE
