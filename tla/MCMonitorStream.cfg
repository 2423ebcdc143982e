SPECIFICATION FairSpec
CONSTANTS
  s1 = s1  s2 = s2
  Streams <- MCStreams
  MaxReconnect = 2
  MaxPending = 2
  None = None
INVARIANTS TypeOK NothingOutlivesStop RunningDoesOneThing
PROPERTIES GivesUpWhenRedisIsGone
CHECK_DEADLOCK FALSE
