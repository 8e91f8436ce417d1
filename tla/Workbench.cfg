SPECIFICATION Spec
CONSTANTS
    Principals = {olga, omar}
    Founders = {olga}
    Requests = {r1, r2}
    Grants = {"owner", "admin"}
    MaxRequests = 3
    People = {ann, bob}
    Known = {ann}
    Logins = {l1}
    Codes = {k1, k2}
    Callbacks = {b1, b2}
    Sessions = {s1, s2}
    Provisionings = {"existing_only", "auto_pending"}
    LoginLife = 2
    TokenLife = 2
    SessionLife = 2
    LastTime = 2
    Keys = {"key1", "key2"}
    JwksTTL = 3
    MetadataTTL = 4
    UnknownTTL = 2
    EndOfTime = 5
    Versions = {v1, v2}
    Contents = {plain, strict}
    Deployments = {{plain, strict}, {plain}}
    Edits = {e1, e2}
    MaxEdits = 3
    MaxBindings = 2
    MaxSnapshots = 1
    Clients = {c1, c2}
    Actors = {amy, ben}
    JobKeys = {key}
    Payloads = {this, that}
    MaxAttempts = 2
    MaxLost = 1
    Resources = {doc}
    Migrators = {m1, m2}
    AuditCalls = {q1, q2}
    Together = {q1}
    EventIds = {1, 2, 3}
    PageSize = 1
    MaxRows = 1
    MaxExports = 2
    MaxAged = 1
    LastMoment = 1
    Starters = {p1, p2}
    Releases = {"old", "new", "careless"}
    Ships <- MCShips
    PromptsOf <- MCPrompts
    Writers = {acme}
    MaxStarts = 3
    MaxClones = 1
INVARIANTS
    OwnerRemains SessionsEarned TemplatesSound
    ExportsSound ContentKept TrailComplete SeedingSound
PROPERTIES
    AuthorizedChanges RevokedStaysRevoked AnswersSound
SYMMETRY WorkbenchSymmetry
CHECK_DEADLOCK FALSE
