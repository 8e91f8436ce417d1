SPECIFICATION SpecAll
CONSTANTS
  api = api
  worker = worker
  t1 = t1
  e1 = e1
  Processes = {api, worker}
  Threads = {t1}
  Editors = {e1}
  Budgets = {2}
  Costs = {1, 2}
  MaxConcurrent = 1
  FailClosed = TRUE
  RedisFails = TRUE
  CommitFails = FALSE
  MaxCalls = 2
  MaxEdits = 1
  MaxLost = 0
  Tenants = {"legacy", "acme"}
  Legacy = "legacy"
  Nothing = "nothing"
  Persons = {"pat"}
  Works = {api, worker}
  Pool = {x1, x2}
  Standings <- MCStandings
  Organizations = {"legacy", "acme"}
  LegacyOwner = "legacy"
  Nobody = "nobody"
  Projects = {"p1", "p2"}
  Servers = {api, worker}
  Members = {x1, x2}
  Sizes = {2}
  Offsets = {0, 1}
  Patience = 1
  WindowLength = 2
  Grace = 2
  LeaseLength = 4
  PerWindow = 2
  PerMember = 1
  PerTokens = 3
  Places = 1
  MaxTries = 3
  LastTick = 4
  Firms = {x1, x2}
  NoFirm = "none"
  Desks = {api, worker}
  LastPage = 2
  MaxEpochs = 3
  MaxSaves = 1
  MaxTroubles = 1
SYMMETRY GovernanceSymmetry
INVARIANTS ReservationsOwned TenancyKept OwnershipInherited LimitsKept ConsoleSound
PROPERTIES ReservedUnderPolicy
CHECK_DEADLOCK FALSE
