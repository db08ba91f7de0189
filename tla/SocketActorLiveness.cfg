SPECIFICATION MCFairSpec
CONSTANTS
  Caller = {a, b}
  Actor = {A1}
  FirstActor = A1
  Ticket = {t1, t2}
  Heartbeat = beat
  Connection = {k1}
  JoinTimesOut = FALSE
  NoConnection = NoConnection
  None = None
  Events = 0
  Closers = {b}
CHECK_DEADLOCK FALSE
PROPERTY ActorIsFreed
PROPERTY CloseEnds
