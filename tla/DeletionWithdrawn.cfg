SPECIFICATION Spec
CONSTANTS
  asker = asker
  reviewer = reviewer
  NoKey = NoKey
  NoOne = NoOne
  Principals = {asker, reviewer}
  Requester = asker
  Workers = {w1}
  Requests = {q1}
  Keys = {k1}
  Objects = {o1}
  Uploads = {}
  MaxAttempts = 1
  MaxFaults = 2
PROPERTIES ApprovalRechecked
CHECK_DEADLOCK FALSE
