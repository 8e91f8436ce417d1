SPECIFICATION FairSpec
CONSTANTS
  d1 = d1
  d2 = d2
  q1 = q1
  Deliveries = {d1, d2}
  Requests = {q1}
  MaxAttempts = 2
  Operations = {"recover", "revokeAccess"}
  LostAt = {"started", "handler", "completing", "failing", "failWrite", "cancelWrite",
            "exhaustWrite", "claimWrite", "denied", "denyWrite",
            "enqueued", "record", "orphaned"}
  Redelivers = TRUE
  PublishFails = FALSE
  MaxResets = 0
  MaxFaults = 2
PROPERTIES RunningKeepsLease Settles
CHECK_DEADLOCK FALSE
