SPECIFICATION Spec
CONSTANTS
  d1 = d1
  d2 = d2
  q1 = q1
  Deliveries = {d1, d2}
  Requests = {q1}
  MaxAttempts = 2
  Operations = {"cancel", "retry"}
  LostAt = {}
  Redelivers = TRUE
  PublishFails = TRUE
  MaxResets = 1
  MaxFaults = 1
SYMMETRY Symmetry
INVARIANTS TokenFence CancellationSticks AttemptBudget
PROPERTIES ResultFromHolder ImplementsLease
CHECK_DEADLOCK FALSE
