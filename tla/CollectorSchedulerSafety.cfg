SPECIFICATION MCSpec
CONSTANTS
  Task = {t1}
  DatasetTask = {}
  Run = {r1, r2}
  Submitter = {c1}
  Ticker = tick
  Worker = {w1, w2}
  ResourceGroup = {"g"}
  GroupOf <- OneGroup
  Limit <- LimitOne
  MaxRetries <- OneRetry
  NoRun = NoRun
  NoTask = NoTask
  Budget = 2
  Allowed = {"operator", "clock", "tick", "plugin", "cancel", "crash"}
CHECK_DEADLOCK FALSE
SYMMETRY Symmetry
INVARIANT TypeOK
INVARIANT LeaseAccounting
INVARIANT OneLiveRunPerTask
INVARIANT NoOrphanRun
INVARIANT OutcomeMatchesWork
PROPERTY RunsSpec
