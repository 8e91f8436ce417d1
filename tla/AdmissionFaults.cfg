SPECIFICATION FaultSpec
CONSTANTS
  api = api
  worker = worker
  t1 = t1
  t2 = t2
  e1 = e1
  Processes = {api}
  Threads = {t1, t2}
  Editors = {e1}
  Budgets = {1}
  Costs = {1}
  MaxConcurrent = 1
  FailClosed = FALSE
  RedisFails = TRUE
  CommitFails = TRUE
  MaxCalls = 2
  MaxEdits = 1
  MaxLost = 1
INVARIANTS CallsAccounted
PROPERTIES CallsEnd
CHECK_DEADLOCK FALSE
