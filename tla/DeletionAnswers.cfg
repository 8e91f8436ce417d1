SPECIFICATION FairSpec
CONSTANTS
  asker = asker
  reviewer = reviewer
  NoKey = NoKey
  NoOne = NoOne
  Principals = {asker, reviewer}
  Requester = asker
  Workers = {w1}
  Requests = {q1}
  Keys = {k1}
  Objects = {o1}
  Uploads = {u1}
  MaxAttempts = 2
  MaxFaults = 2
PROPERTIES AllReturn
CHECK_DEADLOCK FALSE
