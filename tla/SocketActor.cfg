SPECIFICATION MCSpec
CONSTANTS
  Caller = {a, b}
  Actor = {A1, A2}
  FirstActor = A1
  Ticket = {t1, t2}
  Heartbeat = beat
  Connection = {k1}
  JoinTimesOut = FALSE
  NoConnection = NoConnection
  None = None
  Events = 1
  Closers = {b}
CHECK_DEADLOCK FALSE
SYMMETRY Symmetry
INVARIANT TypeOK
INVARIANT SingleOwner
INVARIANT OwnAnswer
INVARIANT HandshakeFirst
INVARIANT NoSocketLeak
