SPECIFICATION SpecAll
CONSTANTS
  asker = asker
  reviewer = reviewer
  NoKey = NoKey
  NoOne = NoOne
  Principals = {asker, reviewer}
  Requester = asker
  Workers = {w1, w2}
  Requests = {q1}
  Keys = {k1, k2}
  Objects = {o1}
  Uploads = {u1}
  MaxAttempts = 1
  MaxFaults = 2
  Reviewers = {ann, bob}
  Nobody = "nobody"
  Reviews = {w1, w2}
  MaxRecorded = 4
SYMMETRY Interchangeable
INVARIANTS DeletionSound ReviewsSound
PROPERTIES IndependentApproval
CHECK_DEADLOCK FALSE
