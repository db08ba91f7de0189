SPECIFICATION MCSpec
CONSTANTS
  Task = {t1}
  DatasetTask = {}
  Run = {r1, r2}
  Submitter = {c1}
  Ticker = tick
  Worker = {w1, w2}
  ResourceGroup = {"g"}
  GroupOf <- OneGroup
  Limit <- LimitOne
  MaxRetries <- OneRetry
  NoRun = NoRun
  NoTask = NoTask
  Budget = 1
  Allowed = {"operator"}
CHECK_DEADLOCK FALSE
INVARIANT BackoffIsKept
