SPECIFICATION MCSpec
CONSTANTS
  Task = {t1}
  DatasetTask = {}
  Run = {r1, r2}
  Submitter = {c1, c2}
  Ticker = tick
  Worker = {w1, w2}
  ResourceGroup = {"g"}
  GroupOf <- OneGroup
  Limit <- LimitOne
  MaxRetries <- OneRetry
  NoRun = NoRun
  NoTask = NoTask
  Budget = 0
  Allowed = {}
CHECK_DEADLOCK FALSE
INVARIANT DuplicateIsNotRefused
