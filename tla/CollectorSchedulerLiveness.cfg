SPECIFICATION MCFairSpec
CONSTANTS
  Task = {t1}
  DatasetTask = {t1}
  Run = {r1, r2}
  Submitter = {c1}
  Ticker = tick
  Worker = {w1, w2}
  ResourceGroup = {"g"}
  GroupOf <- OneGroup
  Limit <- LimitOne
  MaxRetries <- OneRetry
  NoRun = NoRun
  NoTask = NoTask
  Budget = 1
  Allowed = {"cancel", "crash"}
CHECK_DEADLOCK FALSE
PROPERTY EveryRunEnds
PROPERTY EveryWaitEnds
