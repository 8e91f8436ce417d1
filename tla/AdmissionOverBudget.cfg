SPECIFICATION Spec
CONSTANTS
  api = api
  worker = worker
  t1 = t1
  t2 = t2
  e1 = e1
  Processes = {api, worker}
  Threads = {t1}
  Editors = {e1}
  Budgets = {1}
  Costs = {1}
  MaxConcurrent = 1
  FailClosed = TRUE
  RedisFails = FALSE
  CommitFails = FALSE
  MaxCalls = 3
  MaxEdits = 1
  MaxLost = 0
PROPERTIES HardBudget
CHECK_DEADLOCK FALSE
