SPECIFICATION MCFairSpec
CONSTANTS
  Caller = {a, b, c}
  PoolSize = 2
  MaxPending = 2
  Nobody = Nobody
  Shutdowns = 1
  Connector = {a}
  Timeouts = TRUE
CHECK_DEADLOCK FALSE
INVARIANT TypeOK
INVARIANT SlotAccounting
INVARIANT ExclusiveTransport
INVARIANT NoGhostWaiter
PROPERTY LeaseSpec
PROPERTY WaitersAreServed
