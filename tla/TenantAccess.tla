---------------------------- MODULE TenantAccess ----------------------------
(***************************************************************************)
(* Which rows a database session reads and writes.  A request, a job or a  *)
(* service opens a session, sets its tenant context and takes pooled       *)
(* connections for its transactions; row-level security filters by the     *)
(* settings of the transaction (db.py, services/tenancy.py,                *)
(* services/authentication.py, services/authorization.py).                 *)
(*                                                                         *)
(* Every organization has one project, named like it.                      *)
(***************************************************************************)
EXTENDS Naturals, FiniteSets

CONSTANTS
    Tenants,     \* organizations
    Legacy,      \* LEGACY_ORGANIZATION_ID, one of them
    Nothing,     \* a NULL, or a header that is not sent
    Persons,     \* principals
    Works,       \* sessions: requests, jobs and services
    Pool,        \* pooled connections
    Standings    \* what memberships persons may have: Persons -> Tenants -> Standing

\* What a membership gives: nothing when it is absent, when it is suspended and
\* when its organization is archived.
Standing == {"none", "suspended", "archived", "learner", "examiner"}

ASSUME TenantAssumption ==
    /\ Legacy \in Tenants /\ Nothing \notin Tenants \cup Persons \cup Pool
    /\ Standings \subseteq [Persons -> [Tenants -> Standing]]

VARIABLES
    authMode,     \* settings.auth_mode; security is enforced with "oidc"
    standing,     \* memberships
    connections,  \* per connection, the settings of its transaction
    works,        \* per session, what it does
    governed,     \* organizations whose model policy row is committed
    errands       \* committed background jobs: [project, org]

tenantVars == <<authMode, standing, connections, works, governed, errands>>
schemaVars == <<authMode, standing>>

Context(org, who) == [org |-> org, who |-> who]
NoContext == Context(Nothing, Nothing)
OffWork ==
    [at |-> "off", kind |-> "v1", who |-> Nothing, asked |-> Nothing, info |-> NoContext,
     conn |-> Nothing, granted |-> Nothing, seen |-> {}, adds |-> {}, policy |-> FALSE, job |-> {}]

InitTenants ==
    /\ authMode \in {"oidc", "disabled"}
    /\ standing \in Standings
    /\ connections = [c \in Pool |-> NoContext]
    /\ works = [w \in Works |-> OffWork]
    /\ governed = {} /\ errands = {}

----------------------------------------------------------------------------
(* Row-level security *)

Enforced == authMode = "oidc"
Begun(w) == works[w].conn # Nothing
Settings(w) == connections[works[w].conn]

\* tenant_isolation: a row of the organization in the settings.
OwnRow(w, t) == Enforced => Settings(w).org = t

\* membership_self_discovery: and, with no organization set, one's own active
\* memberships.
SeesMembership(w, p, t) ==
    \/ OwnRow(w, t)
    \/ Settings(w) = Context(Nothing, p) /\ standing[p][t] \notin {"none", "suspended"}

\* organization_self_discovery: and the organizations they are in.
SeesOrganization(w, t) ==
    OwnRow(w, t) \/ \E p \in Persons : Settings(w).who = p /\ SeesMembership(w, p, t)

VisibleProjects(w) == {t \in Tenants : OwnRow(w, t)}

\* The check of the policy, and the composite foreign key of a child.
Storable(w, row) == OwnRow(w, row.org) /\ row.org = row.project

----------------------------------------------------------------------------
(* Sessions and connections *)

\* after_begin: the first statement of a transaction takes a connection and
\* sets the context of the session on it.
Begin(w, c) ==
    /\ works[w].at \notin {"off", "done"} /\ ~Begun(w)
    /\ \A v \in Works : works[v].conn # c
    /\ works' = [works EXCEPT ![w].conn = c]
    /\ connections' = [connections EXCEPT ![c] = works[w].info]
    /\ UNCHANGED <<schemaVars, governed, errands>>

\* Variant: the context reaches the connection with the next transaction.
SettingsAfterLater(w, context) == connections

\* set_tenant_context also sets it on the transaction that runs.
SettingsAfter(w, context) ==
    IF Begun(w) THEN [connections EXCEPT ![works[w].conn] = context] ELSE connections

\* Variant: the settings outlive the transaction.
SettingsEndedLater(w) == connections

\* The end of a transaction takes its local settings with it.
SettingsEnded(w) ==
    IF Begun(w) THEN [connections EXCEPT ![works[w].conn] = NoContext] ELSE connections

\* A session is closed, whatever it was doing: what it did not commit is gone.
Close(w) ==
    /\ works[w].at # "off"
    /\ works' = [works EXCEPT ![w] = OffWork]
    /\ connections' = SettingsEnded(w)
    /\ UNCHANGED <<schemaVars, governed, errands>>

\* An exception of the handler or of an authorization: the session is rolled
\* back when it is closed.
Refused(w) == works' = [works EXCEPT ![w].at = "done"] /\ UNCHANGED connections

\* The context changes, and the work goes on as in "next".
Enters(w, context, next) ==
    /\ works' = [works EXCEPT ![w] = [next EXCEPT !.info = context]]
    /\ connections' = SettingsAfter(w, context)

----------------------------------------------------------------------------
(* Who asks, and for which organization *)

\* get_db, and the headers of a request.  Without credentials only a learner's
\* request goes on.
Arrive(w, kind, who, asked) ==
    /\ works[w].at = "off"
    /\ (authMode = "oidc" /\ who = Nothing) => kind = "learner"
    /\ works' = [works EXCEPT ![w] =
         [OffWork EXCEPT !.kind = kind, !.who = who, !.asked = asked,
              !.at = IF authMode = "oidc" /\ who # Nothing THEN "authenticating" ELSE "authorizing",
              !.info = Context(IF authMode = "disabled" THEN Legacy ELSE Nothing, Nothing)]]
    /\ UNCHANGED <<schemaVars, connections, governed, errands>>

\* current_authentication reads the session or the principal, and binds the
\* principal without an organization.
Authenticate(w) ==
    /\ works[w].at = "authenticating" /\ Begun(w)
    /\ Enters(w, Context(Nothing, works[w].who), [works[w] EXCEPT !.at = "authorizing"])
    /\ UNCHANGED <<schemaVars, governed, errands>>

\* The memberships found when no organization is named.
Found(w) == {t \in Tenants :
                /\ standing[works[w].who][t] \in {"learner", "examiner"}
                /\ SeesMembership(w, works[w].who, t) /\ SeesOrganization(w, t)}

\* A principal who named no organization, on the routes that look for one.
Undecided(w) ==
    /\ works[w].who # Nothing /\ works[w].asked = Nothing
    /\ works[w].kind = "learner" \/ (works[w].kind = "workbench" /\ authMode = "disabled")

\* require_workbench_capability and assignment_learner_access take the only
\* organization such a principal is in.
Discover(w) ==
    /\ works[w].at = "authorizing" /\ Begun(w) /\ Undecided(w)
    /\ works' = [works EXCEPT ![w] = [@ EXCEPT
         !.at = "resolving",
         !.asked = IF Cardinality(Found(w)) = 1 THEN CHOOSE t \in Found(w) : TRUE ELSE Nothing]]
    /\ UNCHANGED <<schemaVars, connections, governed, errands>>

\* The role bundles: a learner attempts assignments, an examiner works too.
Can(role, kind) == role = "examiner" \/ (role = "learner" /\ kind = "learner")

\* The local workspace without headers, and a learner without an account.
OfWorkspace(w) ==
    /\ works[w].kind = "workbench" /\ authMode = "disabled"
    /\ works[w].who = Nothing /\ works[w].asked = Nothing
Anonymous(w) == works[w].kind = "learner" /\ works[w].who = Nothing

\* resolve_authorization_context sets the context before it reads the
\* organization, which is then visible, and the membership.
AdmitMember(w) ==
    LET work == works[w]
        admitted == Can(standing[work.who][work.asked], work.kind)
    IN /\ Begun(w)
       /\ work.at = "resolving" \/ (work.at = "authorizing" /\ ~Undecided(w))
       /\ ~OfWorkspace(w) /\ ~Anonymous(w)
       /\ IF Nothing \in {work.asked, work.who} THEN Refused(w)
          ELSE Enters(w, Context(work.asked, work.who),
                      IF admitted THEN [work EXCEPT !.at = "handling", !.granted = work.asked]
                      ELSE [work EXCEPT !.at = "done"])
       /\ UNCHANGED <<schemaVars, governed, errands>>

EnterWorkspace(w) ==
    /\ works[w].at = "authorizing" /\ OfWorkspace(w)
    /\ Enters(w, Context(Legacy, Nothing), [works[w] EXCEPT !.at = "handling", !.granted = Legacy])
    /\ UNCHANGED <<schemaVars, governed, errands>>

\* A learner without an account names the organization of the assignment.
EnterAnonymously(w) ==
    LET t == IF works[w].asked = Nothing THEN Legacy ELSE works[w].asked IN
    /\ works[w].at = "authorizing" /\ Anonymous(w)
    /\ Enters(w, Context(t, Nothing), [works[w] EXCEPT !.at = "handling", !.granted = t])
    /\ UNCHANGED <<schemaVars, governed, errands>>

\* _tenant_session of a worker, for the organization of a job.
TakeErrand(w, job) ==
    /\ works[w].at = "off" /\ job \in errands
    /\ works' = [works EXCEPT ![w] =
         [OffWork EXCEPT !.kind = "job", !.at = "handling", !.granted = job.org, !.job = {job},
                         !.info = Context(job.org, Nothing)]]
    /\ UNCHANGED <<schemaVars, connections, governed, errands>>

----------------------------------------------------------------------------
(* What a handler does *)

Handling(w) == works[w].at = "handling" /\ Begun(w)

\* Routes that compare the organization of the row they loaded with the granted
\* one; the others leave it to the database.
ReadProject(w, t, compares) ==
    /\ Handling(w)
    /\ works[w].job # {} => \E job \in works[w].job : t = job.project /\ compares
    /\ IF OwnRow(w, t) /\ (compares => t = works[w].granted)
       THEN works' = [works EXCEPT ![w].seen = @ \cup {t}] /\ UNCHANGED connections
       ELSE Refused(w)
    /\ UNCHANGED <<schemaVars, governed, errands>>

\* before_flush: a new row without an organization gets the session's.
Owner(w, row) ==
    IF row.org # Nothing THEN row.org
    ELSE IF works[w].info.org # Nothing THEN works[w].info.org ELSE Legacy

\* A child of a project the handler loaded, with or without an organization.
AddDocument(w, t, explicit) ==
    LET row == [project |-> t, org |-> Owner(w, [org |-> IF explicit THEN t ELSE Nothing])] IN
    /\ Handling(w) /\ t \in works[w].seen
    /\ IF Storable(w, row)
       THEN works' = [works EXCEPT ![w].adds = @ \cup {row}] /\ UNCHANGED connections
       ELSE Refused(w)
    /\ UNCHANGED <<schemaVars, governed, errands>>

\* Variant: the job goes to the organization of the context.
ErrandOfContext(w, t) == [project |-> t, org |-> Owner(w, [org |-> Nothing])]

\* enqueue_job gives a job the organization of its project ...
Errand(w, t) == [project |-> t, org |-> t]

\* ... and refuses when the context is another's.
EnqueueErrand(w, t) ==
    /\ Handling(w) /\ works[w].kind # "job" /\ t \in works[w].seen
    /\ IF works[w].info.org \in {Nothing, Errand(w, t).org}
       THEN /\ errands' = errands \cup {Errand(w, t)}
            /\ governed' = IF works[w].policy THEN governed \cup {works[w].granted} ELSE governed
            /\ works' = [works EXCEPT ![w] = [@ EXCEPT !.conn = Nothing, !.adds = {}, !.policy = FALSE]]
            /\ connections' = SettingsEnded(w)
       ELSE Refused(w) /\ UNCHANGED <<governed, errands>>
    /\ UNCHANGED schemaVars

\* ensure_model_policy finds no row and inserts one in a savepoint.  The insert
\* waits for another's; if that is committed, the savepoint is rolled back and
\* the row is read.
MissPolicy(w) ==
    /\ Handling(w) /\ ~works[w].policy /\ works[w].granted \notin governed
    /\ works' = [works EXCEPT ![w].at = "ensuring"]
    /\ UNCHANGED <<schemaVars, connections, governed, errands>>

EnsurePolicy(w) ==
    LET t == works[w].granted IN
    /\ works[w].at = "ensuring"
    /\ \A v \in Works \ {w} : ~(works[v].policy /\ works[v].granted = t)
    /\ works' = [works EXCEPT ![w] = [@ EXCEPT !.at = "handling", !.policy = t \notin governed]]
    /\ UNCHANGED <<schemaVars, connections, governed, errands>>

\* The transaction ends; the rows the session loaded stay in it.
Commit(w) ==
    /\ Handling(w)
    /\ governed' = IF works[w].policy THEN governed \cup {works[w].granted} ELSE governed
    /\ works' = [works EXCEPT ![w] = [@ EXCEPT !.conn = Nothing, !.adds = {}, !.policy = FALSE]]
    /\ connections' = SettingsEnded(w)
    /\ UNCHANGED <<schemaVars, errands>>

NextTenants ==
    \E w \in Works :
        \/ \E kind \in {"v1", "workbench", "learner"}, who \in Persons \cup {Nothing},
              asked \in Tenants \cup {Nothing} : Arrive(w, kind, who, asked)
        \/ \E job \in errands : TakeErrand(w, job)
        \/ \E c \in Pool : Begin(w, c)
        \/ Authenticate(w) \/ Discover(w) \/ AdmitMember(w) \/ EnterWorkspace(w) \/ EnterAnonymously(w)
        \/ \E t \in Tenants, flag \in BOOLEAN : ReadProject(w, t, flag) \/ AddDocument(w, t, flag)
        \/ \E t \in Tenants : EnqueueErrand(w, t)
        \/ MissPolicy(w) \/ EnsurePolicy(w) \/ Commit(w) \/ Close(w)

TenantsSpec == InitTenants /\ [][NextTenants]_tenantVars

----------------------------------------------------------------------------
(* Properties *)

TenantsTypeOK ==
    /\ \A w \in Works :
         /\ works[w].at \in {"off", "authenticating", "authorizing", "resolving", "handling",
                             "ensuring", "done"}
         /\ works[w].conn \in Pool \cup {Nothing}
         /\ works[w].granted \in Tenants \cup {Nothing}
         /\ works[w].seen \subseteq Tenants
    /\ \A c \in Pool : connections[c].org \in Tenants \cup {Nothing}
    /\ governed \subseteq Tenants

\* A handler's transaction shows the projects of the organization it was granted,
\* all of them and no other's, in its first transaction and in those after its
\* commits, on whichever connection; before that it shows none.  And what a
\* session wrote belongs to the organization of the project it is below, with
\* or without security, for the worker that later takes the job too
\* (db.py:48-79, services/tenancy.py:62-87, services/jobs.py:62-84).
TenantIsolation ==
    /\ Enforced => \A w \in Works :
         /\ works[w].seen \subseteq {works[w].granted}
         /\ Begun(w) => VisibleProjects(w) = {works[w].granted} \ {Nothing}
                        \/ works[w].at = "done"
    /\ \A row \in errands \cup UNION {works[w].adds : w \in Works} : row.org = row.project

\* Before an organization is chosen, the database shows a person their own active
\* memberships and no one else's; and a connection that is returned to the pool
\* carries nothing of the session that used it (migration 0017, db.py:48-61).
DiscoveryIsOwn ==
    /\ Enforced => \A w \in Works : Begun(w) /\ works[w].at = "authorizing" =>
         \A p \in Persons, t \in Tenants :
            SeesMembership(w, p, t) => p = works[w].who /\ standing[p][t] # "suspended"
    /\ \A c \in Pool : (\A w \in Works : works[w].conn # c) => connections[c] = NoContext

\* Whatever a session does, it stays within its organization.
TenancyKept == TenantIsolation /\ DiscoveryIsOwn
=============================================================================
