------------------------- MODULE TenantAccessProofs -------------------------
(***************************************************************************)
(* Theorems about TenantAccess, for every set of organizations, persons,   *)
(* sessions and pooled connections, and all the memberships there may be,  *)
(* about OrganizationConsole, for every number of handlers, and about      *)
(* TenantOwnership, for every database the upgrade may find.               *)
(*                                                                         *)
(* A transaction's settings are always the context of the one session that *)
(* has the connection, and that context names no organization until one    *)
(* is granted; what a session may read and write follows from that.        *)
(***************************************************************************)
EXTENDS TenantAccess, TenantOwnership, OrganizationConsole, FiniteSetTheorems, TLAPS

Setting == [org : Tenants \cup {Nothing}, who : Persons \cup {Nothing}]
Child == [project : Tenants, org : Tenants]
Work ==
    [at : {"off", "authenticating", "authorizing", "resolving", "handling", "ensuring", "done"},
     kind : {"v1", "workbench", "learner", "job"},
     who : Persons \cup {Nothing}, asked : Tenants \cup {Nothing}, info : Setting,
     conn : Pool \cup {Nothing}, granted : Tenants \cup {Nothing}, seen : SUBSET Tenants,
     adds : SUBSET Child, policy : BOOLEAN, job : SUBSET Child]

Typed ==
    /\ authMode \in {"oidc", "disabled"}
    /\ standing \in [Persons -> [Tenants -> Standing]]
    /\ connections \in [Pool -> Setting]
    /\ works \in [Works -> Work]
    /\ governed \subseteq Tenants
    /\ errands \subseteq Child
    /\ \A row \in errands : row.org = row.project

\* A connection has the context of the session whose transaction is on it.
Wired ==
    /\ \A w \in Works : Begun(w) => Settings(w) = works[w].info
    /\ \A v, w \in Works : v # w /\ Begun(v) => works[v].conn # works[w].conn
    /\ \A c \in Pool : (\A w \in Works : works[w].conn # c) => connections[c] = NoContext

\* What a session has at each stage.
Staged(work) ==
    /\ work.at = "off" => work.conn = Nothing
    /\ work.at \in {"off", "authenticating", "authorizing", "resolving"} =>
         /\ work.seen = {} /\ work.granted = Nothing
         /\ Enforced => work.info.org = Nothing
    /\ work.at = "authorizing" /\ Enforced => work.info.who = work.who
    /\ work.at \in {"handling", "ensuring"} =>
         work.granted \in Tenants /\ work.info.org = work.granted
    /\ Enforced => work.seen \subseteq {work.granted}
    /\ \A row \in work.adds : row.org = row.project

Tenanted == Typed /\ Wired /\ \A w \in Works : Staged(works[w])

----------------------------------------------------------------------------
(* A step changes what one session has, and with it at most the settings   *)
(* of the connection that session has.                                     *)

Advances(w) ==
    /\ works' = [works EXCEPT ![w] = works'[w]]
    /\ works'[w] \in Work /\ Staged(works'[w])
    /\ UNCHANGED schemaVars
    /\ governed' \subseteq Tenants /\ errands' \subseteq Child
    /\ \A row \in errands' : row.org = row.project

LEMMA OthersStay ==
    ASSUME Tenanted, NEW w \in Works, Advances(w)
    PROVE  /\ authMode' \in {"oidc", "disabled"} /\ works' \in [Works -> Work]
           /\ \A v \in Works : v # w => works'[v] = works[v]
           /\ \A v \in Works : Staged(works[v])' /\ works[v].conn \in Pool \cup {Nothing}
           /\ \A v \in Works : works'[v].conn \in Pool \cup {Nothing}
           /\ connections' \in [Pool -> Setting] => Typed'
<1> USE DEF Tenanted, Advances, schemaVars
<1>1. works' \in [Works -> Work] /\ \A v \in Works : v # w => works'[v] = works[v]
  BY DEF Typed
<1>2. \A v \in Works : Staged(works[v])'
  BY <1>1 DEF Staged, Enforced
<1>3. \A v \in Works : works[v].conn \in Pool \cup {Nothing} /\ works'[v].conn \in Pool \cup {Nothing}
  BY <1>1 DEF Typed, Work
<1> QED BY <1>1, <1>2, <1>3 DEF Typed

\* The connection and the context stay.
LEMMA StaysWired ==
    ASSUME TenantAssumption, Tenanted, NEW w \in Works, Advances(w), UNCHANGED connections,
           works'[w].conn = works[w].conn,
           Begun(w) => works'[w].info = works[w].info
    PROVE  Tenanted'
<1>1. \A v \in Works : works'[v].conn = works[v].conn /\ (Begun(v) => works'[v].info = works[v].info)
  BY OthersStay
<1>2. Wired'
  BY <1>1 DEF Tenanted, Wired, Begun, Settings
<1>3. Typed'
  BY OthersStay DEF Tenanted, Typed
<1> QED BY <1>2, <1>3, OthersStay DEF Tenanted

\* The context changes, on the connection too.
LEMMA EntersWired ==
    ASSUME TenantAssumption, Tenanted, NEW w \in Works, Advances(w),
           works'[w].conn = works[w].conn, connections' = SettingsAfter(w, works'[w].info)
    PROVE  Tenanted'
<1>1. \A v \in Works : works'[v].conn = works[v].conn
  BY OthersStay
<1>2. connections \in [Pool -> Setting] /\ works'[w].info \in Setting
  BY OthersStay DEF Tenanted, Typed, Advances, Work
<1>3. CASE Begun(w)
  <2>1. connections' = [connections EXCEPT ![works[w].conn] = works'[w].info]
    BY <1>3 DEF SettingsAfter
  <2>2. works[w].conn \in Pool
    BY <1>3, OthersStay DEF Begun
  <2>3. Wired'
    <3>1. \A v \in Works : Begun(v)' => Settings(v)' = works'[v].info
      BY <1>1, <1>2, <2>1, <2>2, OthersStay DEF Tenanted, Wired, Begun, Settings
    <3>2. \A u, v \in Works : u # v /\ Begun(u)' => works'[u].conn # works'[v].conn
      BY <1>1 DEF Tenanted, Wired, Begun
    <3>3. \A c \in Pool : (\A v \in Works : works'[v].conn # c) => connections'[c] = NoContext
      BY <1>1, <1>2, <2>1, <2>2 DEF Tenanted, Wired
    <3> QED BY <3>1, <3>2, <3>3 DEF Wired
  <2>4. Typed'
    BY <1>2, <2>1, <2>2, OthersStay
  <2> QED BY <2>3, <2>4, OthersStay DEF Tenanted
<1>4. CASE ~ Begun(w)
  BY <1>4, StaysWired DEF SettingsAfter
<1> QED BY <1>3, <1>4

\* The transaction ends.
LEMMA EndsWired ==
    ASSUME TenantAssumption, Tenanted, NEW w \in Works, Advances(w),
           works'[w].conn = Nothing, connections' = SettingsEnded(w)
    PROVE  Tenanted'
<1>1. \A v \in Works : v # w => works'[v] = works[v]
  BY OthersStay
<1>2. connections \in [Pool -> Setting] /\ NoContext \in Setting
  BY DEF Tenanted, Typed, NoContext, Context, Setting
<1>3. CASE Begun(w)
  <2>1. connections' = [connections EXCEPT ![works[w].conn] = NoContext]
    BY <1>3 DEF SettingsEnded
  <2>2. works[w].conn \in Pool
    BY <1>3, OthersStay DEF Begun
  <2>3. Wired'
    <3>1. ~ Begun(w)'
      BY DEF Begun
    <3>2. \A v \in Works : Begun(v)' => Settings(v)' = works'[v].info
      BY <1>1, <1>2, <1>3, <2>1, <2>2, <3>1, OthersStay DEF Tenanted, Wired, Begun, Settings
    <3>3. \A u, v \in Works : u # v /\ Begun(u)' => works'[u].conn # works'[v].conn
      BY <1>1, <3>1 DEF Tenanted, Wired, Begun
    <3>4. \A c \in Pool : (\A v \in Works : works'[v].conn # c) => connections'[c] = NoContext
      <4> SUFFICES ASSUME NEW c \in Pool, \A v \in Works : works'[v].conn # c
                   PROVE  connections'[c] = NoContext
        OBVIOUS
      <4>1. CASE c = works[w].conn
        BY <1>2, <2>1, <4>1
      <4>2. CASE c # works[w].conn
        <5>1. \A v \in Works : works[v].conn # c
          BY <1>1, <4>2
        <5> QED BY <1>2, <2>1, <4>2, <5>1 DEF Tenanted, Wired
      <4> QED BY <4>1, <4>2
    <3> QED BY <3>2, <3>3, <3>4 DEF Wired
  <2>4. Typed'
    BY <1>2, <2>1, <2>2, OthersStay
  <2> QED BY <2>3, <2>4, OthersStay DEF Tenanted
<1>4. CASE ~ Begun(w)
  BY <1>4, StaysWired DEF SettingsEnded, Begun
<1> QED BY <1>3, <1>4

----------------------------------------------------------------------------
(* Every step keeps the invariant. *)

\* A session, and what a step that leaves the rows alone needs to say of it.
LEMMA WorkOf ==
    ASSUME Tenanted, NEW w \in Works
    PROVE  /\ works \in [Works -> Work] /\ works[w] \in Work /\ Staged(works[w])
           /\ governed \subseteq Tenants /\ errands \subseteq Child
           /\ \A row \in errands : row.org = row.project
BY DEF Tenanted, Typed

LEMMA BlankWork ==
    ASSUME TenantAssumption
    PROVE  OffWork \in Work /\ Staged(OffWork) /\ OffWork.conn = Nothing
           /\ OffWork.seen = {} /\ OffWork.granted = Nothing /\ OffWork.adds = {}
<1>1. NoContext \in Setting /\ NoContext.org = Nothing
  BY DEF NoContext, Context, Setting
<1>2. OffWork \in Work
  BY <1>1 DEF OffWork, Work
<1> QED BY <1>1, <1>2 DEF OffWork, Staged

LEMMA BeginKeeps ==
    ASSUME TenantAssumption, Tenanted, NEW w \in Works, NEW c \in Pool, Begin(w, c)
    PROVE  Tenanted'
<1>1. works' = [works EXCEPT ![w] = [works[w] EXCEPT !.conn = c]]
      /\ connections' = [connections EXCEPT ![c] = works[w].info]
      /\ works[w].at # "off" /\ \A v \in Works : works[v].conn # c
      /\ UNCHANGED <<authMode, standing, governed, errands>>
  BY DEF Begin, schemaVars
<1>2. [works[w] EXCEPT !.conn = c] \in Work
  BY WorkOf DEF Work
<1>3. works'[w] = [works[w] EXCEPT !.conn = c]
  BY <1>1, WorkOf
<1>4. works'[w].conn = c /\ works'[w].info = works[w].info
  BY <1>3, WorkOf DEF Work
<1>5. Staged(works'[w])
  BY <1>1, <1>3, WorkOf DEF Staged, Work, Enforced
<1>6. Advances(w)
  BY <1>1, <1>2, <1>3, <1>5, WorkOf DEF Advances, schemaVars
<1>7. \A v \in Works : v # w => works'[v] = works[v]
  BY <1>6, OthersStay
<1>8. c # Nothing /\ works[w].info \in Setting /\ connections \in [Pool -> Setting]
  BY WorkOf DEF TenantAssumption, Work, Tenanted, Typed
<1>9. Wired'
  <2>1. \A v \in Works : Begun(v)' => Settings(v)' = works'[v].info
    BY <1>1, <1>4, <1>7, <1>8, OthersStay, <1>6 DEF Tenanted, Wired, Begun, Settings
  <2>2. \A u, v \in Works : u # v /\ Begun(u)' => works'[u].conn # works'[v].conn
    BY <1>1, <1>4, <1>7 DEF Tenanted, Wired, Begun
  <2>3. \A d \in Pool : (\A v \in Works : works'[v].conn # d) => connections'[d] = NoContext
    <3> SUFFICES ASSUME NEW d \in Pool, \A v \in Works : works'[v].conn # d
                 PROVE  connections'[d] = NoContext
      OBVIOUS
    <3>1. d # c
      BY <1>4
    <3>2. CASE \A v \in Works : works[v].conn # d
      BY <1>1, <1>8, <3>1, <3>2 DEF Tenanted, Wired
    <3>3. CASE \E v \in Works : works[v].conn = d
      <4>1. works[w].conn = d
        BY <1>7, <3>3
      <4>2. works[w].conn = Nothing
        BY DEF Begin, Begun
      <4> QED BY <4>1, <4>2 DEF TenantAssumption
    <3> QED BY <3>2, <3>3
  <2> QED BY <2>1, <2>2, <2>3 DEF Wired
<1>10. Typed'
  <2>1. connections' \in [Pool -> Setting]
    BY <1>1, <1>8
  <2> QED BY <1>6, <2>1, OthersStay
<1> QED BY <1>6, <1>9, <1>10, OthersStay DEF Tenanted

LEMMA CloseKeeps ==
    ASSUME TenantAssumption, Tenanted, NEW w \in Works, Close(w)
    PROVE  Tenanted'
<1>1. works' = [works EXCEPT ![w] = OffWork] /\ connections' = SettingsEnded(w)
      /\ UNCHANGED <<authMode, standing, governed, errands>>
  BY DEF Close, schemaVars
<1>2. works'[w] = OffWork
  BY <1>1, WorkOf
<1>3. Advances(w)
  BY <1>1, <1>2, BlankWork, WorkOf DEF Advances, schemaVars
<1> QED BY <1>1, <1>2, <1>3, BlankWork, EndsWired

LEMMA RefusedKeeps ==
    ASSUME TenantAssumption, Tenanted, NEW w \in Works, works[w].at # "off", Refused(w),
           UNCHANGED <<authMode, standing, governed, errands>>
    PROVE  Tenanted'
<1>1. works' = [works EXCEPT ![w] = [works[w] EXCEPT !.at = "done"]] /\ UNCHANGED connections
  BY DEF Refused
<1>2. works'[w] = [works[w] EXCEPT !.at = "done"] /\ [works[w] EXCEPT !.at = "done"] \in Work
  <2>1. works[w] \in Work
    BY WorkOf
  <2>2. works'[w] = [works[w] EXCEPT !.at = "done"]
    BY <1>1, WorkOf
  <2>3. [works[w] EXCEPT !.at = "done"] \in Work
    BY <2>1, SMTT(30) DEF Work
  <2> QED BY <2>2, <2>3
<1>3. Staged(works'[w]) /\ works'[w].conn = works[w].conn /\ works'[w].info = works[w].info
  BY <1>2, WorkOf DEF Staged, Work, Enforced
<1>4. Advances(w)
  BY <1>1, <1>2, <1>3, WorkOf DEF Advances, schemaVars
<1> QED BY <1>1, <1>3, <1>4, StaysWired

LEMMA ArriveKeeps ==
    ASSUME TenantAssumption, Tenanted, NEW w \in Works,
           NEW kind \in {"v1", "workbench", "learner"}, NEW who \in Persons \cup {Nothing},
           NEW asked \in Tenants \cup {Nothing}, Arrive(w, kind, who, asked)
    PROVE  Tenanted'
<1> DEFINE at == IF authMode = "oidc" /\ who # Nothing THEN "authenticating" ELSE "authorizing"
           info == Context(IF authMode = "disabled" THEN Legacy ELSE Nothing, Nothing)
           work == [OffWork EXCEPT !.kind = kind, !.who = who, !.asked = asked, !.at = at, !.info = info]
<1>1. works' = [works EXCEPT ![w] = work] /\ works[w].at = "off"
      /\ UNCHANGED <<authMode, standing, connections, governed, errands>>
  BY DEF Arrive, schemaVars
<1>2. info \in Setting /\ (Enforced => info.org = Nothing) /\ info.who = Nothing
  BY DEF Context, Setting, TenantAssumption, Enforced
<1>3. at \in {"authenticating", "authorizing"}
      /\ (at = "authorizing" /\ Enforced => who = Nothing)
  BY DEF Enforced
<1> HIDE DEF at, info
<1>4. work \in Work
  BY <1>2, <1>3, BlankWork DEF Work
<1>5. /\ work.at = at /\ work.info = info /\ work.who = who
      /\ work.conn = Nothing /\ work.seen = {} /\ work.granted = Nothing /\ work.adds = {}
  BY BlankWork DEF Work
<1> HIDE DEF work
<1>6. works'[w] = work
  BY <1>1, WorkOf
<1>7. Staged(work)
  BY <1>2, <1>3, <1>5 DEF Staged
<1>8. works[w].conn = Nothing
  BY <1>1, WorkOf DEF Staged
<1>9. Advances(w)
  BY <1>1, <1>4, <1>6, <1>7, WorkOf DEF Advances, schemaVars
<1> QED BY <1>1, <1>5, <1>6, <1>8, <1>9, StaysWired DEF Begun

LEMMA TakeErrandKeeps ==
    ASSUME TenantAssumption, Tenanted, NEW w \in Works, NEW job \in errands, TakeErrand(w, job)
    PROVE  Tenanted'
<1> DEFINE info == Context(job.org, Nothing)
           work == [OffWork EXCEPT !.kind = "job", !.at = "handling", !.granted = job.org,
                                   !.job = {job}, !.info = info]
<1>1. works' = [works EXCEPT ![w] = work] /\ works[w].at = "off"
      /\ UNCHANGED <<authMode, standing, connections, governed, errands>>
  BY DEF TakeErrand, schemaVars
<1>2. job \in Child /\ job.org \in Tenants
  BY WorkOf DEF Child
<1>3. info \in Setting /\ info.org = job.org
  BY <1>2 DEF Context, Setting
<1> HIDE DEF info
<1>4. work \in Work
  BY <1>2, <1>3, BlankWork DEF Work
<1>5. /\ work.at = "handling" /\ work.info = info /\ work.conn = Nothing
      /\ work.seen = {} /\ work.granted = job.org /\ work.adds = {}
  BY BlankWork DEF Work
<1> HIDE DEF work
<1>6. works'[w] = work
  BY <1>1, WorkOf
<1>7. Staged(work)
  BY <1>2, <1>3, <1>5 DEF Staged
<1>8. works[w].conn = Nothing
  BY <1>1, WorkOf DEF Staged
<1>9. Advances(w)
  BY <1>1, <1>4, <1>6, <1>7, WorkOf DEF Advances, schemaVars
<1> QED BY <1>1, <1>5, <1>6, <1>8, <1>9, StaysWired DEF Begun

LEMMA AuthenticateKeeps ==
    ASSUME TenantAssumption, Tenanted, NEW w \in Works, Authenticate(w)
    PROVE  Tenanted'
<1> DEFINE info == Context(Nothing, works[w].who)
           next == [works[w] EXCEPT !.at = "authorizing"]
           work == [next EXCEPT !.info = info]
<1>1. works' = [works EXCEPT ![w] = work] /\ connections' = SettingsAfter(w, info)
      /\ works[w].at = "authenticating" /\ UNCHANGED <<authMode, standing, governed, errands>>
  BY DEF Authenticate, Enters, schemaVars
<1>2. info \in Setting /\ info.org = Nothing /\ info.who = works[w].who
  BY WorkOf DEF Context, Setting, Work
<1> HIDE DEF info
<1>3. work \in Work
  <2>1. next \in Work
    BY WorkOf DEF Work
  <2> HIDE DEF next
  <2> QED BY <1>2, <2>1 DEF Work
<1>4. /\ work.at = "authorizing" /\ work.info = info /\ work.who = works[w].who
      /\ work.conn = works[w].conn /\ work.seen = works[w].seen
      /\ work.granted = works[w].granted /\ work.adds = works[w].adds
  BY WorkOf DEF Work
<1> HIDE DEF work
<1>5. works'[w] = work
  BY <1>1, WorkOf
<1>6. Staged(work)
  BY <1>1, <1>2, <1>4, WorkOf DEF Staged
<1>7. Advances(w)
  BY <1>1, <1>3, <1>5, <1>6, WorkOf DEF Advances, schemaVars
<1> QED BY <1>1, <1>4, <1>5, <1>7, EntersWired

LEMMA DiscoverKeeps ==
    ASSUME TenantAssumption, Tenanted, NEW w \in Works, Discover(w)
    PROVE  Tenanted'
<1> DEFINE only == IF Cardinality(Found(w)) = 1 THEN CHOOSE t \in Found(w) : TRUE ELSE Nothing
           work == [works[w] EXCEPT !.at = "resolving", !.asked = only]
<1>1. works' = [works EXCEPT ![w] = work] /\ works[w].at = "authorizing"
      /\ UNCHANGED <<authMode, standing, connections, governed, errands>>
  BY DEF Discover, schemaVars
<1>2. only \in Tenants \cup {Nothing}
  <2>1. CASE Cardinality(Found(w)) = 1
    <3>1. Found(w) # {}
      BY <2>1, FS_EmptySet
    <3>2. Found(w) \subseteq Tenants
      BY DEF Found
    <3> QED BY <2>1, <3>1, <3>2
  <2> QED BY <2>1
<1> HIDE DEF only
<1>3. work \in Work
  <2>1. works[w] \in Work
    BY WorkOf
  <2> QED BY <1>2, <2>1 DEF Work
<1>4. /\ work.at = "resolving" /\ work.info = works[w].info
      /\ work.conn = works[w].conn /\ work.seen = works[w].seen
      /\ work.granted = works[w].granted /\ work.adds = works[w].adds
  BY WorkOf DEF Work
<1> HIDE DEF work
<1>5. works'[w] = work
  BY <1>1, WorkOf
<1>6. Staged(work)
  BY <1>1, <1>4, WorkOf DEF Staged
<1>7. Advances(w)
  BY <1>1, <1>3, <1>5, <1>6, WorkOf DEF Advances, schemaVars
<1> QED BY <1>1, <1>4, <1>5, <1>7, StaysWired

LEMMA AdmitMemberKeeps ==
    ASSUME TenantAssumption, Tenanted, NEW w \in Works, AdmitMember(w)
    PROVE  Tenanted'
<1>1. works[w].at \in {"resolving", "authorizing"}
      /\ UNCHANGED <<authMode, standing, governed, errands>>
  BY DEF AdmitMember, schemaVars
<1>2. CASE Nothing \in {works[w].asked, works[w].who}
  <2>1. Refused(w)
    BY <1>2 DEF AdmitMember
  <2> QED BY <1>1, <2>1, RefusedKeeps
<1>3. CASE Nothing \notin {works[w].asked, works[w].who}
  <2> DEFINE info == Context(works[w].asked, works[w].who)
             admitted == Can(standing[works[w].who][works[w].asked], works[w].kind)
             taken == [works[w] EXCEPT !.at = "handling", !.granted = works[w].asked]
             turned == [works[w] EXCEPT !.at = "done"]
             next == IF admitted THEN taken ELSE turned
             work == [next EXCEPT !.info = info]
  <2>1. works' = [works EXCEPT ![w] = work] /\ connections' = SettingsAfter(w, info)
    BY <1>3 DEF AdmitMember, Enters
  <2>2. info \in Setting /\ info.org = works[w].asked /\ works[w].asked \in Tenants
    BY <1>3, WorkOf DEF Context, Setting, Work
  <2> HIDE DEF info, admitted
  <2>3. CASE admitted
    <3>1. work = [taken EXCEPT !.info = info] /\ taken \in Work
          /\ taken.at = "handling" /\ taken.granted = works[w].asked /\ taken.conn = works[w].conn
          /\ taken.seen = works[w].seen /\ taken.adds = works[w].adds
      <4>1. works[w] \in Work
        BY WorkOf
      <4>2. taken \in Work
        BY <2>2, <4>1, ZenonT(40) DEF Work
      <4>3. /\ taken.at = "handling" /\ taken.granted = works[w].asked
            /\ taken.conn = works[w].conn /\ taken.seen = works[w].seen
            /\ taken.adds = works[w].adds
        BY <4>1, SMTT(30) DEF Work
      <4> QED BY <2>3, <4>2, <4>3
    <3> HIDE DEF taken, next
    <3>2. work \in Work
      BY <2>2, <3>1 DEF Work
    <3>3. /\ work.at = "handling" /\ work.info = info /\ work.granted = works[w].asked
          /\ work.conn = works[w].conn /\ work.seen = works[w].seen /\ work.adds = works[w].adds
      BY <3>1, WorkOf DEF Work
    <3>4. works'[w] = work
      BY <2>1, WorkOf
    <3> HIDE DEF work
    <3>5. Staged(work)
      BY <1>1, <2>2, <3>3, WorkOf DEF Staged
    <3>6. Advances(w)
      BY <1>1, <2>1, <3>2, <3>4, <3>5, WorkOf DEF Advances, schemaVars
    <3> QED BY <2>1, <3>3, <3>4, <3>6, EntersWired
  <2>4. CASE ~ admitted
    <3>1. work = [turned EXCEPT !.info = info] /\ turned \in Work
          /\ turned.at = "done" /\ turned.granted = works[w].granted /\ turned.conn = works[w].conn
          /\ turned.seen = works[w].seen /\ turned.adds = works[w].adds
      <4>1. works[w] \in Work
        BY WorkOf
      <4>2. turned \in Work
        BY <4>1, SMTT(30) DEF Work
      <4>3. /\ turned.at = "done" /\ turned.granted = works[w].granted
            /\ turned.conn = works[w].conn /\ turned.seen = works[w].seen
            /\ turned.adds = works[w].adds
        BY <4>1, SMTT(30) DEF Work
      <4> QED BY <2>4, <4>2, <4>3
    <3> HIDE DEF turned, next
    <3>2. work \in Work
      BY <2>2, <3>1 DEF Work
    <3>3. /\ work.at = "done" /\ work.info = info /\ work.granted = works[w].granted
          /\ work.conn = works[w].conn /\ work.seen = works[w].seen /\ work.adds = works[w].adds
      BY <3>1, WorkOf DEF Work
    <3>4. works'[w] = work
      BY <2>1, WorkOf
    <3> HIDE DEF work
    <3>5. Staged(work)
      BY <1>1, <2>2, <3>3, WorkOf DEF Staged
    <3>6. Advances(w)
      BY <1>1, <2>1, <3>2, <3>4, <3>5, WorkOf DEF Advances, schemaVars
    <3> QED BY <2>1, <3>3, <3>4, <3>6, EntersWired
  <2> QED BY <2>3, <2>4
<1> QED BY <1>2, <1>3

\* A session that is let in without a membership: t is granted.
LEMMA AdmissionKeeps ==
    ASSUME TenantAssumption, Tenanted, NEW w \in Works, NEW t \in Tenants,
           works[w].at = "authorizing",
           Enters(w, Context(t, Nothing), [works[w] EXCEPT !.at = "handling", !.granted = t]),
           UNCHANGED <<authMode, standing, governed, errands>>
    PROVE  Tenanted'
<1> DEFINE info == Context(t, Nothing)
           next == [works[w] EXCEPT !.at = "handling", !.granted = t]
           work == [next EXCEPT !.info = info]
<1>1. works' = [works EXCEPT ![w] = work] /\ connections' = SettingsAfter(w, info)
  BY DEF Enters
<1>2. info \in Setting /\ info.org = t
  BY DEF Context, Setting
<1> HIDE DEF info
<1>3. work \in Work
  <2>1. next \in Work
    <3>1. works[w] \in Work /\ t \in Tenants \cup {Nothing}
      BY WorkOf
    <3> QED BY <3>1 DEF Work
  <2> HIDE DEF next
  <2> QED BY <1>2, <2>1 DEF Work
<1>4. /\ work.at = "handling" /\ work.info = info /\ work.granted = t
      /\ work.conn = works[w].conn /\ work.seen = works[w].seen /\ work.adds = works[w].adds
  BY WorkOf DEF Work
<1> HIDE DEF work
<1>5. works'[w] = work
  BY <1>1, WorkOf
<1>6. Staged(work)
  BY <1>2, <1>4, WorkOf DEF Staged
<1>7. Advances(w)
  BY <1>1, <1>3, <1>5, <1>6, WorkOf DEF Advances, schemaVars
<1> QED BY <1>1, <1>4, <1>5, <1>7, EntersWired

LEMMA EnterWorkspaceKeeps ==
    ASSUME TenantAssumption, Tenanted, NEW w \in Works, EnterWorkspace(w)
    PROVE  Tenanted'
BY AdmissionKeeps DEF EnterWorkspace, TenantAssumption, schemaVars

LEMMA EnterAnonymouslyKeeps ==
    ASSUME TenantAssumption, Tenanted, NEW w \in Works, EnterAnonymously(w)
    PROVE  Tenanted'
<1> DEFINE t == IF works[w].asked = Nothing THEN Legacy ELSE works[w].asked
<1>1. t \in Tenants
  BY WorkOf DEF Work, TenantAssumption
<1>2. works[w].at = "authorizing" /\ UNCHANGED <<authMode, standing, governed, errands>>
      /\ Enters(w, Context(t, Nothing), [works[w] EXCEPT !.at = "handling", !.granted = t])
  BY DEF EnterAnonymously, schemaVars
<1> HIDE DEF t
<1>3. PICK org \in Tenants : org = t
  BY <1>1
<1> QED BY <1>2, <1>3, AdmissionKeeps

\* What the database shows a handler is what it was granted.
LEMMA OwnIsGranted ==
    ASSUME TenantAssumption, Tenanted, NEW w \in Works, Begun(w),
           works[w].at \in {"handling", "ensuring"}, NEW t \in Tenants
    PROVE  OwnRow(w, t) <=> (Enforced => t = works[w].granted)
BY WorkOf DEF Tenanted, Wired, Staged, OwnRow

LEMMA ReadProjectKeeps ==
    ASSUME TenantAssumption, Tenanted, NEW w \in Works, NEW t \in Tenants,
           NEW compares \in BOOLEAN, ReadProject(w, t, compares)
    PROVE  Tenanted'
<1>1. works[w].at = "handling" /\ Begun(w) /\ UNCHANGED <<authMode, standing, governed, errands>>
  BY DEF ReadProject, Handling, schemaVars
<1>2. CASE Refused(w)
  BY <1>1, <1>2, RefusedKeeps
<1>3. CASE OwnRow(w, t) /\ UNCHANGED connections
           /\ works' = [works EXCEPT ![w] = [works[w] EXCEPT !.seen = works[w].seen \cup {t}]]
  <2> DEFINE work == [works[w] EXCEPT !.seen = works[w].seen \cup {t}]
  <2>1. works[w] \in Work /\ works[w].seen \cup {t} \subseteq Tenants
    BY WorkOf DEF Work
  <2>2. work \in Work
    BY <2>1 DEF Work
  <2>3. /\ work.at = "handling" /\ work.info = works[w].info /\ work.granted = works[w].granted
        /\ work.conn = works[w].conn /\ work.seen = works[w].seen \cup {t}
        /\ work.adds = works[w].adds
    BY <1>1, <2>1 DEF Work
  <2> HIDE DEF work
  <2>4. Enforced => t = works[w].granted
    BY <1>1, <1>3, OwnIsGranted
  <2>5. Staged(work)
    BY <1>1, <2>3, <2>4, WorkOf DEF Staged
  <2>6. works'[w] = work /\ works' = [works EXCEPT ![w] = work]
    BY <1>3, WorkOf DEF work
  <2>7. Advances(w)
    BY <1>1, <2>2, <2>5, <2>6, WorkOf DEF Advances, schemaVars
  <2> QED BY <1>3, <2>3, <2>6, <2>7, StaysWired
<1> QED BY <1>2, <1>3 DEF ReadProject

LEMMA AddDocumentKeeps ==
    ASSUME TenantAssumption, Tenanted, NEW w \in Works, NEW t \in Tenants,
           NEW explicit \in BOOLEAN, AddDocument(w, t, explicit)
    PROVE  Tenanted'
<1> DEFINE org == Owner(w, [org |-> IF explicit THEN t ELSE Nothing])
           row == [project |-> t, org |-> org]
<1>1. works[w].at = "handling" /\ Begun(w) /\ UNCHANGED <<authMode, standing, governed, errands>>
  BY DEF AddDocument, Handling, schemaVars
<1>2. CASE Refused(w)
  BY <1>1, <1>2, RefusedKeeps
<1>3. CASE Storable(w, row) /\ UNCHANGED connections
           /\ works' = [works EXCEPT ![w] = [works[w] EXCEPT !.adds = works[w].adds \cup {row}]]
  <2> DEFINE work == [works[w] EXCEPT !.adds = works[w].adds \cup {row}]
  <2>1. row \in Child /\ row.org = row.project
    BY <1>3 DEF Storable, Child
  <2> HIDE DEF row
  <2>2. works[w] \in Work /\ works[w].adds \cup {row} \subseteq Child
    BY <2>1, WorkOf DEF Work
  <2>3. work \in Work
    BY <2>2 DEF Work
  <2>4. /\ work.at = "handling" /\ work.info = works[w].info /\ work.granted = works[w].granted
        /\ work.conn = works[w].conn /\ work.seen = works[w].seen
        /\ work.adds = works[w].adds \cup {row}
    BY <1>1, <2>2 DEF Work
  <2> HIDE DEF work
  <2>5. Staged(work)
    BY <1>1, <2>1, <2>4, WorkOf DEF Staged
  <2>6. works'[w] = work /\ works' = [works EXCEPT ![w] = work]
    BY <1>3, WorkOf DEF work
  <2>7. Advances(w)
    BY <1>1, <2>3, <2>5, <2>6, WorkOf DEF Advances, schemaVars
  <2> QED BY <1>3, <2>4, <2>6, <2>7, StaysWired
<1> QED BY <1>2, <1>3 DEF AddDocument

\* The end of a handler's transaction.
LEMMA CommittedKeeps ==
    ASSUME TenantAssumption, Tenanted, NEW w \in Works, works[w].at = "handling",
           works' = [works EXCEPT ![w] =
                        [works[w] EXCEPT !.conn = Nothing, !.adds = {}, !.policy = FALSE]],
           connections' = SettingsEnded(w), UNCHANGED <<authMode, standing>>,
           governed' = IF works[w].policy THEN governed \cup {works[w].granted} ELSE governed,
           errands' \subseteq Child, \A row \in errands' : row.org = row.project
    PROVE  Tenanted'
<1> DEFINE work == [works[w] EXCEPT !.conn = Nothing, !.adds = {}, !.policy = FALSE]
<1>1. works[w] \in Work
  BY WorkOf
<1>2. work \in Work
  BY <1>1 DEF Work
<1>3. /\ work.at = "handling" /\ work.info = works[w].info /\ work.granted = works[w].granted
      /\ work.conn = Nothing /\ work.seen = works[w].seen /\ work.adds = {}
  BY <1>1 DEF Work
<1>4. works'[w] = work /\ works' = [works EXCEPT ![w] = work]
  BY WorkOf
<1> HIDE DEF work
<1>5. Staged(work)
  BY <1>3, WorkOf DEF Staged
<1>6. governed' \subseteq Tenants
  BY WorkOf DEF Staged
<1>7. Advances(w)
  BY <1>2, <1>4, <1>5, <1>6 DEF Advances, schemaVars
<1> QED BY <1>3, <1>4, <1>7, EndsWired

LEMMA EnqueueErrandKeeps ==
    ASSUME TenantAssumption, Tenanted, NEW w \in Works, NEW t \in Tenants, EnqueueErrand(w, t)
    PROVE  Tenanted'
<1>1. works[w].at = "handling" /\ UNCHANGED <<authMode, standing>>
  BY DEF EnqueueErrand, Handling, schemaVars
<1>2. CASE works[w].info.org \in {Nothing, Errand(w, t).org}
  <2>1. Errand(w, t) \in Child /\ Errand(w, t).org = Errand(w, t).project
    BY DEF Errand, Child
  <2>2. errands' = errands \cup {Errand(w, t)}
        /\ governed' = (IF works[w].policy THEN governed \cup {works[w].granted} ELSE governed)
        /\ works' = [works EXCEPT ![w] =
                        [works[w] EXCEPT !.conn = Nothing, !.adds = {}, !.policy = FALSE]]
        /\ connections' = SettingsEnded(w)
    BY <1>2 DEF EnqueueErrand
  <2>3. errands' \subseteq Child /\ \A row \in errands' : row.org = row.project
    BY <2>1, <2>2, WorkOf
  <2> QED BY <1>1, <2>2, <2>3, CommittedKeeps
<1>3. CASE ~ (works[w].info.org \in {Nothing, Errand(w, t).org})
  <2>1. Refused(w) /\ UNCHANGED <<governed, errands>>
    BY <1>3 DEF EnqueueErrand
  <2> QED BY <1>1, <2>1, RefusedKeeps
<1> QED BY <1>2, <1>3

LEMMA CommitKeeps ==
    ASSUME TenantAssumption, Tenanted, NEW w \in Works, Commit(w)
    PROVE  Tenanted'
<1>1. errands' \subseteq Child /\ \A row \in errands' : row.org = row.project
  BY WorkOf DEF Commit
<1> QED BY <1>1, CommittedKeeps DEF Commit, Handling, schemaVars

\* Looking for the policy leaves what a session may reach alone.
LEMMA MissPolicyKeeps ==
    ASSUME TenantAssumption, Tenanted, NEW w \in Works, MissPolicy(w)
    PROVE  Tenanted'
<1> DEFINE work == [works[w] EXCEPT !.at = "ensuring"]
<1>1. works' = [works EXCEPT ![w] = work] /\ works[w].at = "handling"
      /\ UNCHANGED <<authMode, standing, connections, governed, errands>>
  BY DEF MissPolicy, Handling, schemaVars
<1>2. work \in Work
  <2>1. works[w] \in Work
    BY WorkOf
  <2> QED BY <2>1 DEF Work
<1>3. /\ work.at = "ensuring" /\ work.info = works[w].info /\ work.granted = works[w].granted
      /\ work.conn = works[w].conn /\ work.seen = works[w].seen /\ work.adds = works[w].adds
  BY WorkOf DEF Work
<1> HIDE DEF work
<1>4. works'[w] = work
  BY <1>1, WorkOf
<1>5. Staged(work)
  BY <1>1, <1>3, WorkOf DEF Staged
<1>6. Advances(w)
  BY <1>1, <1>2, <1>4, <1>5, WorkOf DEF Advances, schemaVars
<1> QED BY <1>1, <1>3, <1>4, <1>6, StaysWired

LEMMA EnsurePolicyKeeps ==
    ASSUME TenantAssumption, Tenanted, NEW w \in Works, EnsurePolicy(w)
    PROVE  Tenanted'
<1>1. PICK absent \in BOOLEAN :
        works' = [works EXCEPT ![w] = [works[w] EXCEPT !.at = "handling", !.policy = absent]]
  BY Zenon DEF EnsurePolicy
<1> DEFINE work == [works[w] EXCEPT !.at = "handling", !.policy = absent]
<1>2. works[w].at = "ensuring" /\ UNCHANGED <<authMode, standing, connections, governed, errands>>
  BY DEF EnsurePolicy, schemaVars
<1>3. work \in Work
  <2>1. works[w] \in Work
    BY WorkOf
  <2> QED BY <1>1, <2>1 DEF Work
<1>4. /\ work.at = "handling" /\ work.info = works[w].info /\ work.granted = works[w].granted
      /\ work.conn = works[w].conn /\ work.seen = works[w].seen /\ work.adds = works[w].adds
  BY WorkOf DEF Work
<1> HIDE DEF work
<1>5. works'[w] = work /\ works' = [works EXCEPT ![w] = work]
  BY <1>1, WorkOf DEF work
<1>6. Staged(work)
  BY <1>2, <1>4, WorkOf DEF Staged
<1>7. Advances(w)
  BY <1>2, <1>3, <1>5, <1>6, WorkOf DEF Advances, schemaVars
<1> QED BY <1>2, <1>4, <1>5, <1>7, StaysWired

LEMMA TenantedInit ==
    ASSUME TenantAssumption, InitTenants
    PROVE  Tenanted
<1> USE DEF InitTenants
<1>1. NoContext \in Setting
  BY DEF NoContext, Context, Setting
<1>2. Typed
  <2>1. standing \in [Persons -> [Tenants -> Standing]]
    BY DEF TenantAssumption
  <2>2. works \in [Works -> Work]
    BY BlankWork
  <2>3. connections \in [Pool -> Setting]
    BY <1>1
  <2> QED BY <2>1, <2>2, <2>3 DEF Typed
<1>3. Wired
  BY BlankWork DEF Wired, Begun
<1>4. \A w \in Works : Staged(works[w])
  BY BlankWork
<1> QED BY <1>2, <1>3, <1>4 DEF Tenanted

LEMMA TenantedStep ==
    ASSUME TenantAssumption, Tenanted, [NextTenants]_tenantVars
    PROVE  Tenanted'
<1>1. ASSUME NEW w \in Works,
             \/ \E kind \in {"v1", "workbench", "learner"}, who \in Persons \cup {Nothing},
                   asked \in Tenants \cup {Nothing} : Arrive(w, kind, who, asked)
             \/ \E job \in errands : TakeErrand(w, job)
             \/ \E c \in Pool : Begin(w, c)
      PROVE  Tenanted'
  BY <1>1, TenantAssumption, ArriveKeeps, TakeErrandKeeps, BeginKeeps
<1>2. ASSUME NEW w \in Works,
             Authenticate(w) \/ Discover(w) \/ AdmitMember(w) \/ EnterWorkspace(w) \/ EnterAnonymously(w)
      PROVE  Tenanted'
  BY <1>2, TenantAssumption, AuthenticateKeeps, DiscoverKeeps, AdmitMemberKeeps,
     EnterWorkspaceKeeps, EnterAnonymouslyKeeps
<1>3. ASSUME NEW w \in Works, NEW t \in Tenants,
             EnqueueErrand(w, t)
             \/ \E flag \in BOOLEAN : ReadProject(w, t, flag) \/ AddDocument(w, t, flag)
      PROVE  Tenanted'
  BY <1>3, TenantAssumption, EnqueueErrandKeeps, ReadProjectKeeps, AddDocumentKeeps
<1>4. ASSUME NEW w \in Works, MissPolicy(w) \/ EnsurePolicy(w) \/ Commit(w) \/ Close(w)
      PROVE  Tenanted'
  BY <1>4, TenantAssumption, MissPolicyKeeps, EnsurePolicyKeeps, CommitKeeps, CloseKeeps
<1>5. CASE UNCHANGED tenantVars
  BY <1>5 DEF tenantVars, Tenanted, Typed, Wired, Staged, Begun, Settings, Enforced
<1> QED BY <1>1, <1>2, <1>3, <1>4, <1>5 DEF NextTenants

----------------------------------------------------------------------------
(* What follows for the properties. *)

LEMMA TenantedTypes == ASSUME TenantAssumption, Tenanted PROVE TenantsTypeOK
<1>1. \A w \in Works : works[w] \in Work
  BY WorkOf
<1>2. \A c \in Pool : connections[c].org \in Tenants \cup {Nothing}
  BY DEF Tenanted, Typed, Setting
<1> QED BY <1>1, <1>2 DEF TenantsTypeOK, Work, Tenanted, Typed

LEMMA TenantedIsolates == ASSUME TenantAssumption, Tenanted PROVE TenantIsolation
<1>1. ASSUME Enforced, NEW w \in Works
      PROVE  /\ works[w].seen \subseteq {works[w].granted}
             /\ Begun(w) => VisibleProjects(w) = {works[w].granted} \ {Nothing}
                            \/ works[w].at = "done"
  <2>1. works[w].seen \subseteq {works[w].granted}
    BY <1>1, WorkOf DEF Staged
  <2>2. ASSUME Begun(w), works[w].at # "done"
        PROVE  VisibleProjects(w) = {works[w].granted} \ {Nothing}
    <3>1. CASE works[w].at \in {"handling", "ensuring"}
      <4>1. works[w].granted \in Tenants
        BY <3>1, WorkOf DEF Staged
      <4>2. \A t \in Tenants : OwnRow(w, t) <=> t = works[w].granted
        BY <1>1, <2>2, <3>1, OwnIsGranted
      <4> QED BY <4>1, <4>2 DEF VisibleProjects, TenantAssumption
    <3>2. CASE works[w].at \in {"off", "authenticating", "authorizing", "resolving"}
      <4>1. works[w].granted = Nothing /\ works[w].info.org = Nothing
        BY <1>1, <3>2, WorkOf DEF Staged
      <4>2. Settings(w).org = Nothing
        BY <2>2, <4>1 DEF Tenanted, Wired
      <4>3. \A t \in Tenants : ~ OwnRow(w, t)
        BY <1>1, <4>2 DEF OwnRow, TenantAssumption
      <4> QED BY <4>1, <4>3 DEF VisibleProjects
    <3>3. works[w].at \in {"off", "authenticating", "authorizing", "resolving", "handling",
                           "ensuring", "done"}
      BY WorkOf DEF Work
    <3> QED BY <2>2, <3>1, <3>2, <3>3
  <2> QED BY <2>1, <2>2
<1>2. \A row \in errands \cup UNION {works[w].adds : w \in Works} : row.org = row.project
  <2>1. \A row \in errands : row.org = row.project
    BY DEF Tenanted, Typed
  <2>2. ASSUME NEW row \in UNION {works[w].adds : w \in Works}
        PROVE  row.org = row.project
    <3>1. PICK w \in Works : row \in works[w].adds
      OBVIOUS
    <3> QED BY <3>1, WorkOf DEF Staged
  <2> QED BY <2>1, <2>2
<1> QED BY <1>1, <1>2 DEF TenantIsolation

LEMMA TenantedDiscovers == ASSUME TenantAssumption, Tenanted PROVE DiscoveryIsOwn
<1>1. ASSUME Enforced, NEW w \in Works, Begun(w), works[w].at = "authorizing",
             NEW p \in Persons, NEW t \in Tenants, SeesMembership(w, p, t)
      PROVE  p = works[w].who /\ standing[p][t] # "suspended"
  <2>1. Settings(w).org = Nothing /\ Settings(w).who = works[w].who
    BY <1>1, WorkOf DEF Staged, Tenanted, Wired
  <2>2. ~ OwnRow(w, t)
    BY <1>1, <2>1 DEF OwnRow, TenantAssumption
  <2>3. Settings(w) = Context(Nothing, p) /\ standing[p][t] # "suspended"
    BY <1>1, <2>2 DEF SeesMembership
  <2> QED BY <2>1, <2>3 DEF Context
<1> QED BY <1>1 DEF DiscoveryIsOwn, Tenanted, Wired

\* The inductive invariant.
THEOREM TenantsInvariant == TenantsSpec => []Tenanted
<1>1. InitTenants => Tenanted
  BY TenantAssumption, TenantedInit
<1>2. Tenanted /\ [NextTenants]_tenantVars => Tenanted'
  BY TenantAssumption, TenantedStep
<1> QED BY <1>1, <1>2, PTL DEF TenantsSpec

\* Whatever sessions share the pool, and in whatever order they begin, commit and
\* close: a handler's transactions show the organization it was granted and no
\* other, what is written belongs to the organization of its project, a person
\* discovers only their own active memberships, and a returned connection carries
\* nothing (db.py:48-79, services/tenancy.py:62-87, services/jobs.py:62-84).
THEOREM TenancyHolds == TenantsSpec => []TenancyKept
<1>1. Tenanted => TenancyKept
  BY TenantAssumption, TenantedIsolates, TenantedDiscovers DEF TenancyKept
<1> QED BY <1>1, TenantsInvariant, PTL

----------------------------------------------------------------------------
(* The console: the inductive invariant *)

Nones == Firms \cup {NoFirm}
ItemKept == Nones \X {0, 1, 2}
Points == {"rest", "context", "overview", "overviewRest", "members", "audit", "policy", "saving",
           "lifecycle", "requests", "approving", "approved", "reviews", "detail", "confirming",
           "deciding"}
Desk == [at : Points, of : Nones, epoch : Nat, item : ItemKept, page : 0..LastPage,
         from : ItemKept, filter : Filters, answer : {"none", "ok", "aborted"}, value : Nat]
Page == [of : Nones, epoch : Nat, context : Nones, visible : BOOLEAN, view : Views, filter : Filters]
Part == [overview : Nones, members : Nones, reviews : Nones,
         requests : [of : Nones, filter : Filters], detail : ItemKept, selected : ItemKept,
         events : Seq([of : Nones, page : 0..LastPage]), cursor : 0..LastPage,
         form : [of : Nones, epoch : Nat, value : Nat]]

ConsoleTyped ==
    /\ console \in Page /\ shown \in Part /\ desks \in [Desks -> Desk]
    /\ policies \in [Firms -> Nat]
    /\ IsFiniteSet(saves) /\ troubles \in Nat

\* A handler at work asked under an epoch of the page: the present one, and then
\* for its organization, unless the request was aborted.
InLine(d) ==
    LET desk == desks[d] IN
    /\ desk.epoch <= console.epoch
    /\ desk.epoch = console.epoch /\ console.of \in Firms => desk.of \in {console.of, NoFirm}
    /\ desk.answer = "aborted" => desk.epoch < console.epoch
    /\ desk.at \notin {"rest", "confirming", "approving"} /\ desk.answer = "none"
         => desk.epoch = console.epoch
    /\ desk.at = "detail" => desk.item[1] = desk.of
    /\ desk.at \in {"context", "saving"} => desk.of \in Firms
    /\ desk.at \in {"confirming", "approving"} => console.of \in {desk.from[1], NoFirm}

\* What is shown is of the organization of the page.
PageOwn ==
    /\ console.visible => console.of \in Firms /\ console.context = console.of
    /\ shown.form.epoch <= console.epoch
    /\ console.of \in Firms =>
         /\ {shown.overview, shown.members, shown.reviews, shown.selected[1]}
              \subseteq {NoFirm, console.of}
         /\ shown.detail = NoCase \/ shown.detail[1] = console.of
         /\ shown.requests = NoList \/ shown.requests.of = console.of
         /\ \A i \in DOMAIN shown.events : shown.events[i].of = console.of
         /\ shown.form.epoch = console.epoch => shown.form.of = console.of
    /\ SavedOwn

Current(d) == desks[d].epoch = console.epoch

\* The pages of the trail that are shown, and the next one asked for.
TrailInOrder ==
    "audit" \in doubts \/
    /\ \A c, d \in Desks : desks[c].at = "audit" /\ desks[d].at = "audit" => c = d
    /\ \A i \in DOMAIN shown.events : shown.events[i].page = i
    /\ shown.cursor \in {NoCursor, Len(shown.events) + 1}
    /\ \A d \in Desks : desks[d].at = "audit" /\ Current(d) =>
         desks[d].page = IF desks[d].item = NoCase THEN First ELSE Len(shown.events) + 1

\* The form and the policy it was loaded from or is being saved to.
FormInStep ==
    "policy" \in doubts \/
    /\ \A c, d \in Desks : {desks[c].at, desks[d].at} \subseteq {"policy", "saving"} => c = d
    /\ \A d \in Desks : desks[d].at = "policy" /\ Current(d) /\ desks[d].answer = "ok"
                          /\ console.of \in Firms /\ desks[d].of = console.of
                        => desks[d].value = policies[console.of]
    /\ console.of \in Firms /\ shown.form.epoch = console.epoch =>
         \/ shown.form.value = policies[console.of]
         \/ \E d \in Desks : desks[d].at \in {"policy", "saving"} /\ Fresh(d)

\* The list of requests and the filter above it.
ListInStep ==
    "requests" \in doubts \/
    /\ \A c, d \in Desks : {desks[c].at, desks[d].at} \subseteq Listing => c = d
    /\ \A d \in Desks : desks[d].at \in Listing /\ Current(d) => desks[d].filter = console.filter
    /\ console.of \in Firms =>
         \/ shown.requests = NoList \/ shown.requests.filter = console.filter
         \/ \E d \in Desks : desks[d].at \in Listing /\ Fresh(d)

\* The case one sees, the one that is selected and the one being decided.
CaseInStep ==
    "detail" \in doubts \/
    /\ \A d \in Desks : desks[d].at = "detail" /\ Current(d) => desks[d].item = shown.selected
    /\ \A d \in Desks : desks[d].at = "confirming" => desks[d].from = shown.selected
    /\ console.of \in Firms =>
         \/ shown.detail \in {NoCase, shown.selected}
         \/ \E d \in Desks : desks[d].at = "detail" /\ Fresh(d)

ConsoleInvariant ==
    /\ ConsoleTyped /\ (\A d \in Desks : InLine(d)) /\ PageOwn
    /\ TrailInOrder /\ FormInStep /\ ListInStep /\ CaseInStep /\ DecidedShown

----------------------------------------------------------------------------
(* A handler's step changes its own request, and most of them little more. *)

\* Handler d goes on to another request, or to rest.
Moves(d) ==
    /\ desks' = [desks EXCEPT ![d] = desks'[d]] /\ desks'[d] \in Desk
    /\ console' \in Page /\ console'.epoch = console.epoch
    /\ console'.of \in {console.of, NoFirm}
    /\ doubts \subseteq doubts'

LEMMA MovesOne ==
    ASSUME ConsoleTyped, NEW d \in Desks, Moves(d)
    PROVE  /\ desks' \in [Desks -> Desk]
           /\ \A c \in Desks : c # d => desks'[c] = desks[c]
           /\ \A c \in Desks \ {d} : Fresh(c) /\ console'.of \in Firms => Fresh(c)'
           /\ \A c \in Desks : Current(c)' <=> desks'[c].epoch = console.epoch
PROOF
<1>1. desks \in [Desks -> Desk] /\ desks'[d] \in Desk /\ desks' = [desks EXCEPT ![d] = desks'[d]]
  BY DEF ConsoleTyped, Moves
<1>2. desks' \in [Desks -> Desk] /\ \A c \in Desks : c # d => desks'[c] = desks[c]
  BY <1>1
<1>3. console'.epoch = console.epoch /\ console'.of \in {console.of, NoFirm}
  BY DEF Moves
<1>4. \A c \in Desks \ {d} : Fresh(c) /\ console'.of \in Firms => Fresh(c)'
  BY <1>2, <1>3, ConsoleAssumption DEF Fresh
<1>5. \A c \in Desks : Current(c)' <=> desks'[c].epoch = console.epoch
  BY <1>3 DEF Current
<1> QED BY <1>2, <1>4, <1>5

LEMMA LineOfOne ==
    ASSUME ConsoleTyped, NEW d \in Desks, Moves(d), \A c \in Desks : InLine(c), InLine(d)'
    PROVE  \A c \in Desks : InLine(c)'
PROOF
<1>1. \A c \in Desks : c # d => desks'[c] = desks[c]
  BY MovesOne
<1>2. console'.epoch = console.epoch /\ console'.of \in {console.of, NoFirm}
  BY DEF Moves
<1>3. ASSUME NEW c \in Desks, c # d  PROVE InLine(c)'
  BY <1>1, <1>2, <1>3, ConsoleAssumption DEF InLine
<1> QED BY <1>3

LEMMA TrailLeft ==
    ASSUME ConsoleTyped, NEW d \in Desks, Moves(d), TrailInOrder,
           shown'.events = shown.events, shown'.cursor \in {shown.cursor, NoCursor},
           desks'[d].at = "audit" => /\ desks[d].at = "audit"
                                     /\ desks'[d].epoch = desks[d].epoch
                                     /\ desks'[d].page = desks[d].page
                                     /\ desks'[d].item = desks[d].item
    PROVE  TrailInOrder'
PROOF
<1>1. CASE "audit" \in doubts
  BY <1>1 DEF Moves, TrailInOrder
<1>2. CASE "audit" \notin doubts
  <2>1. \A c \in Desks : c # d => desks'[c] = desks[c]
    BY MovesOne
  <2>2. \A c \in Desks : Current(c)' <=> desks'[c].epoch = console.epoch
    BY MovesOne
  <2>3. \A c \in Desks : desks'[c].at = "audit" =>
          /\ desks[c].at = "audit" /\ desks'[c].epoch = desks[c].epoch
          /\ desks'[c].page = desks[c].page /\ desks'[c].item = desks[c].item
    BY <2>1
  <2> QED BY <1>2, <2>2, <2>3 DEF TrailInOrder, Current
<1> QED BY <1>1, <1>2

\* Handler d leaves the points of a part, if it was at one, for nothing it had
\* still to do there, or something was doubted.
Leaves(d, points, doubt) ==
    /\ desks'[d].at \notin points
    /\ desks[d].at \in points /\ Fresh(d) => console'.of \notin Firms \/ doubt \in doubts'

LEMMA FormLeft ==
    ASSUME ConsoleTyped, NEW d \in Desks, Moves(d), FormInStep, policies' = policies,
           shown'.form = shown.form, Leaves(d, {"policy", "saving"}, "policy")
    PROVE  FormInStep'
PROOF
<1>1. CASE "policy" \in doubts'
  BY <1>1 DEF FormInStep
<1>2. CASE "policy" \notin doubts'
  <2>1. /\ \A c \in Desks : c # d => desks'[c] = desks[c]
        /\ \A c \in Desks \ {d} : Fresh(c) /\ console'.of \in Firms => Fresh(c)'
        /\ \A c \in Desks : Current(c)' <=> desks'[c].epoch = console.epoch
    BY MovesOne
  <2>2. /\ "policy" \notin doubts /\ console'.epoch = console.epoch
        /\ console'.of \in Firms => console'.of = console.of
    BY <1>2, ConsoleAssumption DEF Moves
  <2>3. /\ desks'[d].at \notin {"policy", "saving"}
        /\ console'.of \in Firms /\ desks[d].at \in {"policy", "saving"} => ~Fresh(d)
    BY <1>2 DEF Leaves
  <2>4. \A c, e \in Desks : {desks'[c].at, desks'[e].at} \subseteq {"policy", "saving"} => c = e
    BY <2>1, <2>2, <2>3 DEF FormInStep
  <2>5. \A c \in Desks : desks'[c].at = "policy" /\ Current(c)' /\ desks'[c].answer = "ok"
                          /\ console'.of \in Firms /\ desks'[c].of = console'.of
                        => desks'[c].value = policies'[console'.of]
    BY <2>1, <2>2, <2>3 DEF FormInStep, Current
  <2>6. console'.of \in Firms /\ shown'.form.epoch = console'.epoch =>
          \/ shown'.form.value = policies'[console'.of]
          \/ \E c \in Desks : desks'[c].at \in {"policy", "saving"} /\ Fresh(c)'
    BY <2>1, <2>2, <2>3 DEF FormInStep
  <2> QED BY <2>4, <2>5, <2>6 DEF FormInStep
<1> QED BY <1>1, <1>2

LEMMA ListLeft ==
    ASSUME ConsoleTyped, NEW d \in Desks, Moves(d), ListInStep,
           shown'.requests = shown.requests, console'.filter = console.filter,
           Leaves(d, Listing, "requests")
    PROVE  ListInStep'
PROOF
<1>1. CASE "requests" \in doubts'
  BY <1>1 DEF ListInStep
<1>2. CASE "requests" \notin doubts'
  <2>1. /\ \A c \in Desks : c # d => desks'[c] = desks[c]
        /\ \A c \in Desks \ {d} : Fresh(c) /\ console'.of \in Firms => Fresh(c)'
        /\ \A c \in Desks : Current(c)' <=> desks'[c].epoch = console.epoch
    BY MovesOne
  <2>2. /\ "requests" \notin doubts /\ console'.epoch = console.epoch
        /\ console'.of \in Firms => console'.of = console.of
    BY <1>2, ConsoleAssumption DEF Moves
  <2>3. /\ desks'[d].at \notin Listing
        /\ console'.of \in Firms /\ desks[d].at \in Listing => ~Fresh(d)
    BY <1>2 DEF Leaves
  <2>4. \A c, e \in Desks : {desks'[c].at, desks'[e].at} \subseteq Listing => c = e
    BY <2>1, <2>2, <2>3 DEF ListInStep
  <2>5. \A c \in Desks : desks'[c].at \in Listing /\ Current(c)' =>
          desks'[c].filter = console'.filter
    BY <2>1, <2>2, <2>3 DEF ListInStep, Current
  <2>6. console'.of \in Firms =>
          \/ shown'.requests = NoList \/ shown'.requests.filter = console'.filter
          \/ \E c \in Desks : desks'[c].at \in Listing /\ Fresh(c)'
    BY <2>1, <2>2, <2>3 DEF ListInStep
  <2> QED BY <2>4, <2>5, <2>6 DEF ListInStep
<1> QED BY <1>1, <1>2

LEMMA CaseLeft ==
    ASSUME ConsoleTyped, NEW d \in Desks, Moves(d), CaseInStep,
           shown'.detail = shown.detail, shown'.selected = shown.selected,
           Leaves(d, {"detail"}, "detail"), desks'[d].at # "confirming"
    PROVE  CaseInStep'
PROOF
<1>1. CASE "detail" \in doubts'
  BY <1>1 DEF CaseInStep
<1>2. CASE "detail" \notin doubts'
  <2>1. /\ \A c \in Desks : c # d => desks'[c] = desks[c]
        /\ \A c \in Desks \ {d} : Fresh(c) /\ console'.of \in Firms => Fresh(c)'
        /\ \A c \in Desks : Current(c)' <=> desks'[c].epoch = console.epoch
    BY MovesOne
  <2>2. /\ "detail" \notin doubts /\ console'.epoch = console.epoch
        /\ console'.of \in Firms => console'.of = console.of
    BY <1>2, ConsoleAssumption DEF Moves
  <2>3. /\ desks'[d].at # "detail"
        /\ console'.of \in Firms /\ desks[d].at = "detail" => ~Fresh(d)
    BY <1>2 DEF Leaves
  <2>4. \A c \in Desks : desks'[c].at = "detail" /\ Current(c)' => desks'[c].item = shown'.selected
    BY <2>1, <2>2, <2>3 DEF CaseInStep, Current
  <2>5. \A c \in Desks : desks'[c].at = "confirming" => desks'[c].from = shown'.selected
    BY <2>1, <2>2, <2>3 DEF CaseInStep
  <2>6. console'.of \in Firms =>
          \/ shown'.detail \in {NoCase, shown'.selected}
          \/ \E c \in Desks : desks'[c].at = "detail" /\ Fresh(c)'
    BY <2>1, <2>2, <2>3 DEF CaseInStep
  <2> QED BY <2>4, <2>5, <2>6 DEF CaseInStep
<1> QED BY <1>1, <1>2

\* What is shown stays, and a page that is hidden or signed out stays so.
LEMMA OwnLeft ==
    ASSUME ConsoleTyped, NEW d \in Desks, Moves(d), PageOwn, SavedOwn',
           shown'.form = shown.form,
           \A part \in {"overview", "members", "reviews", "requests", "detail", "selected"} :
             shown'[part] = shown[part],
           shown'.events = shown.events,
           console'.visible => /\ console.visible /\ console'.of = console.of
                               /\ console'.context = console.context
    PROVE  PageOwn'
PROOF
<1>1. /\ console'.epoch = console.epoch
      /\ console'.of \in Firms => console'.of = console.of
  BY ConsoleAssumption DEF Moves
<1>2. /\ shown'.overview = shown.overview /\ shown'.members = shown.members
      /\ shown'.reviews = shown.reviews /\ shown'.requests = shown.requests
      /\ shown'.detail = shown.detail /\ shown'.selected = shown.selected
  OBVIOUS
<1>3. console'.visible => console'.of \in Firms /\ console'.context = console'.of
  BY <1>1 DEF PageOwn
<1> QED BY <1>1, <1>2, <1>3 DEF PageOwn

LEMMA RestIsDesk == AtRest \in Desk /\ AtRest.at = "rest" /\ AtRest.epoch = 0
                      /\ AtRest.of = NoFirm /\ AtRest.answer = "none"
PROOF BY ConsoleAssumption DEF AtRest, Desk, Points, Nones, ItemKept, NoCase, NoCursor, Filters

LEMMA RestsMove ==
    ASSUME ConsoleTyped, NEW d \in Desks, Rests(d), console' \in Page,
           console'.epoch = console.epoch, console'.of \in {console.of, NoFirm},
           doubts \subseteq doubts'
    PROVE  Moves(d) /\ InLine(d)' /\ desks'[d] = AtRest
PROOF
<1>1. desks'[d] = AtRest
  BY DEF Rests, ConsoleTyped
<1>2. Moves(d)
  BY <1>1, RestIsDesk DEF Moves, Rests
<1>3. console'.epoch \in Nat
  BY DEF Page
<1>4. InLine(d)'
  BY <1>1, <1>3, RestIsDesk DEF InLine
<1> QED BY <1>1, <1>2, <1>4

\* A request that handler d sends: it captures the page.
LEMMA RequestIsDesk ==
    ASSUME ConsoleTyped, NEW at \in Points
    PROVE  LET r == Request(at) IN
           /\ r \in Desk /\ r.at = at /\ r.of = console.of /\ r.epoch = console.epoch
           /\ r.answer = "none" /\ r.item = NoCase /\ r.from = NoCase /\ r.filter = "any"
           /\ r.page = NoCursor /\ r.value = 0
PROOF
<1>1. console.of \in Nones /\ console.epoch \in Nat
  BY DEF ConsoleTyped, Page
<1>2. Request(at) \in Desk
  BY <1>1, RestIsDesk DEF Request, Desk
<1>3. /\ Request(at).at = at /\ Request(at).of = console.of
      /\ Request(at).epoch = console.epoch
  BY DEF Request, AtRest
<1>4. /\ Request(at).answer = "none" /\ Request(at).item = NoCase
      /\ Request(at).from = NoCase /\ Request(at).filter = "any"
      /\ Request(at).page = NoCursor /\ Request(at).value = 0
  BY DEF Request, AtRest
<1> QED BY <1>2, <1>3, <1>4

LEMMA SendsMove ==
    ASSUME ConsoleTyped, NEW d \in Desks, NEW r \in Desk,
           desks' = [desks EXCEPT ![d] = r], console' \in Page,
           console'.epoch = console.epoch, console'.of = console.of, doubts \subseteq doubts',
           r.of = console.of, r.epoch = console.epoch, r.answer = "none",
           r.at \notin {"rest", "confirming", "approving", "context"},
           r.at = "saving" => console.of \in Firms,
           r.at = "detail" => r.item[1] = console.of
    PROVE  Moves(d) /\ InLine(d)' /\ desks'[d] = r
PROOF
<1>1. desks'[d] = r
  BY DEF ConsoleTyped
<1>2. Moves(d)
  BY <1>1 DEF Moves
<1>3. console'.epoch \in Nat
  BY DEF Page
<1>4. InLine(d)'
  BY <1>1, <1>3 DEF InLine
<1> QED BY <1>1, <1>2, <1>4

LEMMA DecidedLeft ==
    ASSUME DecidedShown, decided' = decided, doubts \subseteq doubts'
    PROVE  DecidedShown'
PROOF BY DEF DecidedShown

LEMMA DoubtsGrow ==
    ASSUME NEW what, NEW if \in BOOLEAN, Doubted(what, if)
    PROVE  doubts \subseteq doubts' /\ (if => what \in doubts')
PROOF BY DEF Doubted

\* The page as it is typed, and a step that leaves it alone.
LEMMA SamePage ==
    ASSUME ConsoleInvariant, UNCHANGED console
    PROVE  console' \in Page /\ console'.epoch = console.epoch
             /\ console'.of \in {console.of, NoFirm} /\ console'.of = console.of
             /\ console'.filter = console.filter
PROOF BY DEF ConsoleInvariant, ConsoleTyped

----------------------------------------------------------------------------
(* Answers, errors, and requests that are given up *)

LEMMA AnswersKeeps ==
    ASSUME ConsoleInvariant, NEW d \in Desks, Answers(d)
    PROVE  ConsoleInvariant'
PROOF
<1> DEFINE desk == desks[d]
           value == IF desk.of \in Firms THEN policies'[desk.of] ELSE desk.value
<1>0. ConsoleTyped /\ desk \in Desk /\ InLine(d)
  BY DEF ConsoleInvariant, ConsoleTyped
<1>1. /\ UNCHANGED <<console, shown, decided, saves, doubts, troubles>>
      /\ desk.answer = "none" /\ desk.at \notin {"rest", "confirming", "approving"}
      /\ policies' = IF desk.at = "saving" THEN [policies EXCEPT ![desk.of] = desk.value]
                     ELSE policies
      /\ desks' = [desks EXCEPT ![d] = [desk EXCEPT !.answer = "ok", !.value = value]]
  BY <1>0 DEF Answers, Underway, ConsoleTyped
<1>2. desk.at = "saving" => desk.of \in Firms
  BY <1>0 DEF InLine
<1>3. policies' \in [Firms -> Nat]
  BY <1>0, <1>1, <1>2 DEF ConsoleTyped, Desk
<1>4. value \in Nat
  BY <1>0, <1>3 DEF Desk
<1>5. [desk EXCEPT !.answer = "ok", !.value = value] \in Desk
  BY <1>0, <1>4 DEF Desk
<1>6. /\ desks' \in [Desks -> Desk]
      /\ \A c \in Desks : /\ desks'[c].at = desks[c].at /\ desks'[c].of = desks[c].of
                          /\ desks'[c].epoch = desks[c].epoch /\ desks'[c].item = desks[c].item
                          /\ desks'[c].page = desks[c].page /\ desks'[c].from = desks[c].from
                          /\ desks'[c].filter = desks[c].filter
                          /\ c # d => desks'[c] = desks[c]
      /\ desks'[d].answer = "ok" /\ desks'[d].value = value
  BY <1>0, <1>1, <1>5 DEF ConsoleTyped, Desk
<1>7. ConsoleTyped'
  BY <1>0, <1>1, <1>3, <1>6 DEF ConsoleTyped
<1>8. \A c \in Desks : InLine(c)'
  BY <1>1, <1>6 DEF ConsoleInvariant, InLine
<1>9. PageOwn' /\ DecidedShown'
  BY <1>1 DEF ConsoleInvariant, PageOwn, SavedOwn, DecidedShown
<1>10. TrailInOrder'
  BY <1>1, <1>6 DEF ConsoleInvariant, TrailInOrder, Current
<1>11. ListInStep'
  BY <1>1, <1>6 DEF ConsoleInvariant, ListInStep, Current, Fresh
<1>12. CaseInStep'
  BY <1>1, <1>6 DEF ConsoleInvariant, CaseInStep, Current, Fresh
<1>13. FormInStep'
  <2>1. CASE "policy" \in doubts
    BY <2>1, <1>1 DEF FormInStep
  <2>2. CASE "policy" \notin doubts
    <3>0. FormInStep
      BY DEF ConsoleInvariant
    <3>1. \A c, e \in Desks : {desks'[c].at, desks'[e].at} \subseteq {"policy", "saving"} => c = e
      BY <3>0, <2>2, <1>6 DEF FormInStep
    <3>2. \A c \in Desks : Fresh(c)' <=> Fresh(c)
      BY <1>1, <1>6 DEF Fresh
    <3>3. desk.at # "saving" => policies' = policies
      BY <1>1
    <3>4. ASSUME NEW c \in Desks, desks'[c].at = "policy", Current(c)', desks'[c].answer = "ok",
                 console'.of \in Firms, desks'[c].of = console'.of
          PROVE  desks'[c].value = policies'[console'.of]
      <4>1. CASE c = d
        BY <4>1, <3>4, <1>6
      <4>2. CASE c # d
        <5>1. desk.at # "saving"
          BY <4>2, <3>4, <3>1, <1>6
        <5> QED BY <5>1, <4>2, <3>3, <3>4, <3>0, <2>2, <1>1, <1>6 DEF FormInStep, Current
      <4> QED BY <4>1, <4>2
    <3>5. ASSUME console'.of \in Firms, shown'.form.epoch = console'.epoch
          PROVE  \/ shown'.form.value = policies'[console'.of]
                 \/ \E c \in Desks : desks'[c].at \in {"policy", "saving"} /\ Fresh(c)'
      <4>1. CASE desk.at = "saving"
        <5>1. desk.epoch = console.epoch /\ desk.of \in {console.of, NoFirm}
          BY <1>0, <1>1, <3>5 DEF InLine
        <5>2. Fresh(d)
          BY <5>1, <1>2, <4>1, ConsoleAssumption DEF Fresh
        <5> QED BY <5>2, <4>1, <3>2, <1>6
      <4>2. CASE desk.at # "saving"
        BY <4>2, <3>0, <3>2, <3>3, <3>5, <2>2, <1>1, <1>6 DEF FormInStep
      <4> QED BY <4>1, <4>2
    <3> QED BY <3>1, <3>4, <3>5 DEF FormInStep
  <2> QED BY <2>1, <2>2
<1> QED BY <1>7, <1>8, <1>9, <1>10, <1>11, <1>12, <1>13 DEF ConsoleInvariant

\* A handler that ends while the page shows what it showed, unless it was signed
\* out: what it had still to do is doubted.
LEMMA EndsKeeps ==
    ASSUME ConsoleInvariant, NEW d \in Desks, Rests(d), UNCHANGED <<shown, decided, saves>>,
           console' \in Page, console'.epoch = console.epoch, console'.of \in {console.of, NoFirm},
           console'.filter = console.filter,
           console'.visible => console' = console,
           doubts \subseteq doubts', troubles' \in Nat, policies' \in [Firms -> Nat],
           policies' # policies => "policy" \in doubts',
           Leaves(d, {"policy", "saving"}, "policy"), Leaves(d, Listing, "requests"),
           Leaves(d, {"detail"}, "detail")
    PROVE  ConsoleInvariant'
PROOF
<1>0. /\ ConsoleTyped /\ PageOwn /\ TrailInOrder /\ FormInStep /\ ListInStep /\ CaseInStep
      /\ DecidedShown /\ \A c \in Desks : InLine(c)
  BY DEF ConsoleInvariant
<1>1. Moves(d) /\ InLine(d)' /\ desks'[d] = AtRest
  BY <1>0, RestsMove
<1>2. desks'[d].at = "rest"
  BY <1>1, RestIsDesk
<1>3. desks' \in [Desks -> Desk]
  BY <1>0, <1>1, MovesOne
<1>4. ConsoleTyped'
  BY <1>0, <1>3 DEF ConsoleTyped
<1>5. \A c \in Desks : InLine(c)'
  BY <1>0, <1>1, LineOfOne
<1>6. PageOwn'
  <2>1. SavedOwn'
    BY <1>0 DEF PageOwn, SavedOwn
  <2> QED BY <2>1, <1>0, <1>1, OwnLeft
<1>7. TrailInOrder'
  BY <1>0, <1>1, <1>2, TrailLeft
<1>8. FormInStep'
  <2>1. CASE policies' = policies
    BY <2>1, <1>0, <1>1, FormLeft
  <2>2. CASE policies' # policies
    BY <2>2 DEF FormInStep
  <2> QED BY <2>1, <2>2
<1>9. ListInStep' /\ CaseInStep'
  BY <1>0, <1>1, <1>2, ListLeft, CaseLeft
<1>10. DecidedShown'
  BY <1>0, DecidedLeft
<1> QED BY <1>4, <1>5, <1>6, <1>7, <1>8, <1>9, <1>10 DEF ConsoleInvariant

LEMMA ErrsKeeps ==
    ASSUME ConsoleInvariant, NEW d \in Desks, Errs(d)
    PROVE  ConsoleInvariant'
PROOF
<1>0. ConsoleTyped /\ InLine(d) /\ desks[d] \in Desk
  BY DEF ConsoleInvariant, ConsoleTyped
<1>1. /\ Rests(d) /\ UNCHANGED <<console, shown, decided, saves>>
      /\ doubts \subseteq doubts' /\ troubles' \in Nat
  BY <1>0 DEF Errs, ConsoleTyped
<1>2. /\ desks[d].at = "saving" => "policy" \in doubts'
      /\ desks[d].at = "policy" => "policy" \in doubts'
      /\ desks[d].at = "lifecycle" => "requests" \in doubts'
      /\ desks[d].at = "requests" => "requests" \in doubts'
      /\ desks[d].at = "detail" => "detail" \in doubts'
  BY DEF Errs
<1>3. \/ policies' = policies
      \/ desks[d].at = "saving" /\ policies' \in [Firms -> Nat]
  BY <1>0 DEF Errs, ConsoleTyped, Desk
<1>4. policies' \in [Firms -> Nat] /\ (policies' # policies => "policy" \in doubts')
  BY <1>0, <1>2, <1>3 DEF ConsoleTyped
<1>5. desks'[d].at = "rest"
  BY <1>0, <1>1, RestIsDesk DEF Rests, ConsoleTyped
<1>6. /\ Leaves(d, {"policy", "saving"}, "policy") /\ Leaves(d, Listing, "requests")
      /\ Leaves(d, {"detail"}, "detail")
  BY <1>2, <1>5 DEF Leaves, Listing
<1> QED BY <1>1, <1>4, <1>6, SamePage, EndsKeeps

LEMMA ExpiredKeeps ==
    ASSUME ConsoleInvariant, NEW d \in Desks, Expired(d)
    PROVE  ConsoleInvariant'
PROOF
<1>0. ConsoleTyped /\ InLine(d) /\ desks[d] \in Desk /\ console \in Page
  BY DEF ConsoleInvariant, ConsoleTyped
<1>1. /\ UNCHANGED <<shown, policies, decided, saves, doubts>> /\ troubles' \in Nat
      /\ console' = [console EXCEPT !.of = NoFirm, !.visible = FALSE]
  BY <1>0 DEF Expired, ConsoleTyped
<1>2. /\ console' \in Page /\ console'.epoch = console.epoch /\ console'.of = NoFirm
      /\ console'.visible = FALSE /\ console'.filter = console.filter
  BY <1>0, <1>1 DEF Page, Nones
<1>3. console'.of \notin Firms
  BY <1>2, ConsoleAssumption
<1>4. CASE desks[d].at # "overviewRest"
  <2>1. Rests(d)
    BY <1>4 DEF Expired
  <2>2. desks'[d].at = "rest"
    BY <1>0, <2>1, RestIsDesk DEF Rests, ConsoleTyped
  <2>3. /\ Leaves(d, {"policy", "saving"}, "policy") /\ Leaves(d, Listing, "requests")
        /\ Leaves(d, {"detail"}, "detail")
    BY <1>3, <2>2 DEF Leaves, Listing
  <2> QED BY <1>0, <1>1, <1>2, <2>1, <2>3, EndsKeeps DEF ConsoleTyped
<1>5. CASE desks[d].at = "overviewRest"
  <2>1. UNCHANGED desks
    BY <1>5 DEF Expired
  <2>2. ConsoleTyped'
    BY <1>0, <1>1, <1>2, <2>1 DEF ConsoleTyped
  <2>3. \A c \in Desks : InLine(c)'
    BY <1>2, <1>3, <2>1 DEF ConsoleInvariant, InLine
  <2>4. PageOwn' /\ DecidedShown'
    BY <1>1, <1>2, <1>3 DEF ConsoleInvariant, PageOwn, SavedOwn, DecidedShown
  <2>5. TrailInOrder'
    BY <1>1, <1>2, <2>1 DEF ConsoleInvariant, TrailInOrder, Current
  <2>6. FormInStep' /\ ListInStep' /\ CaseInStep'
    BY <1>1, <1>2, <1>3, <2>1 DEF ConsoleInvariant, FormInStep, ListInStep, CaseInStep, Current
  <2> QED BY <2>2, <2>3, <2>4, <2>5, <2>6 DEF ConsoleInvariant
<1> QED BY <1>4, <1>5

LEMMA StaleKeeps ==
    ASSUME ConsoleInvariant, NEW d \in Desks, Stale(d) \/ ServedLate(d)
    PROVE  ConsoleInvariant'
PROOF
<1>0. ConsoleTyped /\ InLine(d) /\ desks[d] \in Desk
  BY DEF ConsoleInvariant, ConsoleTyped
<1>1. /\ Rests(d) /\ UNCHANGED <<console, shown, decided, saves, troubles>>
      /\ doubts \subseteq doubts'
      /\ desks[d].answer = "aborted" \/ ~Fresh(d)
  BY DEF Stale, ServedLate
<1>2. ~Fresh(d)
  BY <1>0, <1>1 DEF InLine, Fresh, Desk, ConsoleTyped, Page
<1>3. \/ policies' = policies
      \/ desks[d].of \in Firms /\ policies' = [policies EXCEPT ![desks[d].of] = desks[d].value]
           /\ "policy" \in doubts'
  BY <1>0 DEF Stale, ServedLate, InLine
<1>4. policies' \in [Firms -> Nat] /\ (policies' # policies => "policy" \in doubts')
  BY <1>0, <1>3 DEF ConsoleTyped, Desk
<1>5. desks'[d].at = "rest"
  BY <1>0, <1>1, RestIsDesk DEF Rests, ConsoleTyped
<1>6. /\ Leaves(d, {"policy", "saving"}, "policy") /\ Leaves(d, Listing, "requests")
      /\ Leaves(d, {"detail"}, "detail")
  BY <1>2, <1>5 DEF Leaves, Listing
<1>7. troubles' \in Nat
  BY <1>0, <1>1 DEF ConsoleTyped
<1> QED BY <1>1, <1>4, <1>6, <1>7, SamePage, EndsKeeps

----------------------------------------------------------------------------
(* Handlers that load none of the parts that are in step with another *)

InStepPoints == {"audit", "policy", "saving", "lifecycle", "requests", "detail"}

LEMMA PassesKeeps ==
    ASSUME ConsoleInvariant, NEW d \in Desks, Moves(d), InLine(d)',
           desks[d].at \notin InStepPoints, desks'[d].at \notin InStepPoints \cup {"confirming"},
           UNCHANGED <<console, policies, saves, troubles>>,
           shown' \in Part, PageOwn', DecidedShown',
           \A part \in {"form", "events", "cursor", "requests", "detail", "selected"} :
             shown'[part] = shown[part]
    PROVE  ConsoleInvariant'
PROOF
<1>0. /\ ConsoleTyped /\ TrailInOrder /\ FormInStep /\ ListInStep /\ CaseInStep
      /\ \A c \in Desks : InLine(c)
  BY DEF ConsoleInvariant
<1>1. /\ shown'.form = shown.form /\ shown'.events = shown.events /\ shown'.cursor = shown.cursor
      /\ shown'.requests = shown.requests /\ shown'.detail = shown.detail
      /\ shown'.selected = shown.selected
  OBVIOUS
<1>2. ConsoleTyped'
  BY <1>0, MovesOne DEF ConsoleTyped
<1>3. \A c \in Desks : InLine(c)'
  BY <1>0, LineOfOne
<1>4. /\ Leaves(d, {"policy", "saving"}, "policy") /\ Leaves(d, Listing, "requests")
      /\ Leaves(d, {"detail"}, "detail")
  BY DEF Leaves, InStepPoints, Listing
<1>5. TrailInOrder'
  BY <1>0, <1>1, TrailLeft DEF InStepPoints
<1>6. FormInStep' /\ ListInStep'
  BY <1>0, <1>1, <1>4, FormLeft, ListLeft
<1>7. CaseInStep'
  BY <1>0, <1>1, <1>4, CaseLeft
<1> QED BY <1>2, <1>3, <1>5, <1>6, <1>7 DEF ConsoleInvariant

LEMMA OverviewKeeps ==
    ASSUME ConsoleInvariant, NEW d \in Desks, OverviewAnswered(d)
    PROVE  ConsoleInvariant'
PROOF
<1>0. ConsoleTyped /\ PageOwn /\ DecidedShown
  BY DEF ConsoleInvariant
<1>1. /\ UNCHANGED <<console, shown, policies, decided, saves, doubts, troubles>>
      /\ desks[d].at = "overview" /\ desks' = [desks EXCEPT ![d] = Request("overviewRest")]
  BY DEF OverviewAnswered, Answered, Sends
<1>2. Moves(d) /\ InLine(d)' /\ desks'[d].at = "overviewRest"
  <2>1. "overviewRest" \in Points
    BY DEF Points
  <2> QED BY <2>1, <1>0, <1>1, SamePage, RequestIsDesk, SendsMove
<1>3. PageOwn' /\ DecidedShown' /\ shown' \in Part
  BY <1>0, <1>1 DEF PageOwn, SavedOwn, DecidedShown, ConsoleTyped
<1> QED BY <1>1, <1>2, <1>3, PassesKeeps DEF InStepPoints

LEMMA OverviewShownKeeps ==
    ASSUME ConsoleInvariant, NEW d \in Desks, OverviewShown(d) \/ MembersShown(d)
    PROVE  ConsoleInvariant'
PROOF
<1>0. ConsoleTyped /\ PageOwn /\ DecidedShown /\ InLine(d) /\ desks[d] \in Desk /\ shown \in Part
  BY DEF ConsoleInvariant, ConsoleTyped
<1>1. /\ UNCHANGED <<console, policies, decided, saves, doubts, troubles>> /\ Rests(d)
      /\ desks[d].at \in {"overviewRest", "members"} /\ desks[d].of \in Nones
  BY <1>0 DEF OverviewShown, MembersShown, Answered, Desk
<1>2. /\ shown' \in {shown, [shown EXCEPT !.overview = desks[d].of],
                     [shown EXCEPT !.members = desks[d].of]}
      /\ shown' # shown => Current(d)
  BY DEF OverviewShown, MembersShown, Answered, Captured, Fresh, Current
<1>3. shown' # shown /\ console.of \in Firms => desks[d].of \in {console.of, NoFirm}
  BY <1>0, <1>2 DEF InLine, Current
<1>4. Moves(d) /\ InLine(d)' /\ desks'[d].at = "rest"
  BY <1>0, <1>1, SamePage, RestsMove, RestIsDesk
<1>5. /\ shown'.form = shown.form /\ shown'.events = shown.events /\ shown'.cursor = shown.cursor
      /\ shown'.requests = shown.requests /\ shown'.detail = shown.detail
      /\ shown'.selected = shown.selected /\ shown'.reviews = shown.reviews
      /\ shown' \in Part
  BY <1>0, <1>1, <1>2 DEF Part
<1>7. console.of \in Firms => {shown'.overview, shown'.members} \subseteq
                                {shown.overview, shown.members, console.of, NoFirm}
  <2>1. CASE shown' = shown
    BY <2>1
  <2>2. CASE shown' # shown
    <3>1. /\ shown'.overview \in {shown.overview, desks[d].of}
          /\ shown'.members \in {shown.members, desks[d].of}
      BY <1>0, <1>2 DEF Part
    <3> QED BY <3>1, <2>2, <1>3
  <2> QED BY <2>1, <2>2
<1>6. PageOwn' /\ DecidedShown'
  BY <1>0, <1>1, <1>5, <1>7 DEF PageOwn, SavedOwn, DecidedShown
<1> QED BY <1>1, <1>4, <1>5, <1>6, PassesKeeps DEF InStepPoints

LEMMA DecidingKeeps ==
    ASSUME ConsoleInvariant, NEW d \in Desks, Decided(d) \/ ConfirmRequest(d) \/ Confirm(d)
    PROVE  ConsoleInvariant'
PROOF
<1>0. ConsoleTyped /\ PageOwn /\ DecidedShown /\ InLine(d) /\ desks[d] \in Desk /\ CaseInStep
  BY DEF ConsoleInvariant, ConsoleTyped
<1>1. /\ UNCHANGED <<console, shown, policies, saves, doubts, troubles>>
      /\ desks[d].at \in {"deciding", "approving", "confirming"}
      /\ Rests(d) \/ Sends(d, "reviews") \/ Sends(d, "approved") \/ Sends(d, "deciding")
  BY DEF Decided, ConfirmRequest, Confirm, Answered
<1>2. Moves(d) /\ InLine(d)' /\ desks'[d].at \in {"rest", "reviews", "approved", "deciding"}
  <2>1. CASE Rests(d)
    BY <2>1, <1>0, <1>1, SamePage, RestsMove, RestIsDesk
  <2>2. ASSUME NEW at \in {"reviews", "approved", "deciding"}, Sends(d, at)
        PROVE  Moves(d) /\ InLine(d)' /\ desks'[d].at = at
    <3>1. at \in Points
      BY DEF Points
    <3> QED BY <2>2, <3>1, <1>0, <1>1, SamePage, RequestIsDesk, SendsMove DEF Sends
  <2> QED BY <2>1, <2>2, <1>1
<1>3. PageOwn' /\ shown' \in Part
  BY <1>0, <1>1 DEF PageOwn, SavedOwn, ConsoleTyped
<1>4. DecidedShown'
  <2>1. \/ decided' = decided
        \/ /\ desks[d].at \in {"approving", "confirming"}
           /\ decided' = decided \cup {[shown |-> desks[d].from, of |-> console.of,
                 case |-> IF desks[d].at = "approving" THEN desks[d].from ELSE shown.selected]}
    BY DEF Decided, ConfirmRequest, Confirm
  <2>2. desks[d].at \in {"approving", "confirming"} => console.of \in {desks[d].from[1], NoFirm}
    BY <1>0 DEF InLine
  <2>3. desks[d].at = "confirming" /\ "detail" \notin doubts => desks[d].from = shown.selected
    BY <1>0 DEF CaseInStep
  <2> QED BY <2>1, <2>2, <2>3, <1>0, <1>1 DEF DecidedShown
<1>5. desks[d].at \notin InStepPoints /\ desks'[d].at \notin InStepPoints \cup {"confirming"}
  BY <1>1, <1>2 DEF InStepPoints
<1> QED BY <1>1, <1>2, <1>3, <1>4, <1>5, PassesKeeps

LEMMA ClickRequestKeeps ==
    ASSUME ConsoleInvariant, NEW d \in Desks, ClickRequest(d)
    PROVE  ConsoleInvariant'
PROOF
<1> DEFINE r == [AtRest EXCEPT !.at = "approving", !.from = <<shown.requests.of, 1>>]
<1>0. ConsoleTyped /\ PageOwn /\ DecidedShown /\ shown \in Part /\ shown.requests.of \in Nones
  BY DEF ConsoleInvariant, ConsoleTyped, Part
<1>1. /\ UNCHANGED <<console, shown, policies, decided, saves, doubts, troubles>>
      /\ desks[d] = AtRest /\ console.visible /\ shown.requests # NoList
      /\ desks' = [desks EXCEPT ![d] = r]
  BY DEF ClickRequest, Clicks, Free
<1>2. /\ r \in Desk /\ r.at = "approving" /\ r.from[1] = shown.requests.of /\ r.epoch = 0
      /\ r.of = NoFirm /\ r.answer = "none"
  BY <1>0, RestIsDesk DEF Desk, Points, ItemKept
<1>3. desks'[d] = r
  BY <1>0, <1>1 DEF ConsoleTyped
<1>4. Moves(d)
  BY <1>1, <1>2, <1>3, SamePage DEF Moves
<1>5. shown.requests.of = console.of
  BY <1>0, <1>1 DEF PageOwn
<1>6. InLine(d)'
  <2>1. console'.of = console.of /\ console'.epoch \in Nat
    BY SamePage, <1>1 DEF Page
  <2> QED BY <1>2, <1>3, <1>5, <2>1 DEF InLine
<1>7. PageOwn' /\ DecidedShown' /\ shown' \in Part
  BY <1>0, <1>1 DEF PageOwn, SavedOwn, DecidedShown
<1> QED BY <1>1, <1>2, <1>3, <1>4, <1>6, <1>7, RestIsDesk, PassesKeeps DEF InStepPoints

----------------------------------------------------------------------------
(* What was asked for is shown *)

LEMMA AuditShownKeeps ==
    ASSUME ConsoleInvariant, NEW d \in Desks, AuditShown(d)
    PROVE  ConsoleInvariant'
PROOF
<1> DEFINE rows == [of |-> desks[d].of, page |-> desks[d].page]
           pages == IF desks[d].item = NoCase THEN <<rows>> ELSE Append(shown.events, rows)
           next == IF desks[d].page < LastPage THEN desks[d].page + 1 ELSE NoCursor
<1>0. /\ ConsoleTyped /\ PageOwn /\ DecidedShown /\ TrailInOrder /\ FormInStep /\ ListInStep
      /\ CaseInStep /\ shown \in Part /\ desks[d] \in Desk /\ \A c \in Desks : InLine(c)
  BY DEF ConsoleInvariant, ConsoleTyped
<1>1. /\ UNCHANGED <<console, policies, decided, saves, doubts, troubles>> /\ Rests(d)
      /\ desks[d].at = "audit" /\ Fresh(d)
      /\ shown' = [shown EXCEPT !.events = pages, !.cursor = next]
  BY DEF AuditShown, Answered
<1>2. Moves(d) /\ InLine(d)' /\ desks'[d].at = "rest"
  BY <1>0, <1>1, SamePage, RestsMove, RestIsDesk
<1>3. /\ shown.events \in Seq([of : Nones, page : 0..LastPage])
      /\ desks[d].of \in Nones /\ desks[d].page \in 0..LastPage /\ LastPage \in Nat \ {0}
  BY <1>0, ConsoleAssumption DEF Part, Desk
<1>4. rows \in [of : Nones, page : 0..LastPage] /\ rows.of = desks[d].of
        /\ rows.page = desks[d].page
  BY <1>3
<1> HIDE DEF rows
<1>5. pages \in Seq([of : Nones, page : 0..LastPage])
  <2>1. ASSUME NEW S, NEW e \in S, NEW q \in Seq(S)
        PROVE  <<e>> \in Seq(S) /\ Append(q, e) \in Seq(S)
    OBVIOUS
  <2> QED BY <2>1, <1>3, <1>4, ZenonT(30)
<1>6. next \in 0..LastPage
  BY <1>3 DEF NoCursor
<1> HIDE DEF next
<1>7. /\ shown'.form = shown.form /\ shown'.events = pages /\ shown'.cursor = next
      /\ shown'.requests = shown.requests /\ shown'.detail = shown.detail
      /\ shown'.selected = shown.selected /\ shown'.reviews = shown.reviews
      /\ shown'.overview = shown.overview /\ shown'.members = shown.members /\ shown' \in Part
  <2> HIDE DEF pages
  <2> QED BY <1>0, <1>1, <1>5, <1>6 DEF Part
<1>8. \A i \in DOMAIN pages : \/ i \in DOMAIN shown.events /\ pages[i] = shown.events[i]
                              \/ pages[i] = rows
  BY <1>3, <1>4
<1>9. ConsoleTyped'
  BY <1>0, <1>1, <1>2, <1>7, MovesOne DEF ConsoleTyped
<1>10. \A c \in Desks : InLine(c)'
  BY <1>0, <1>2, LineOfOne
<1>11. PageOwn'
  <2>1. console.of \in Firms => \A i \in DOMAIN pages : pages[i].of = console.of
    <3> HIDE DEF pages
    <3> QED BY <1>0, <1>1, <1>4, <1>8 DEF PageOwn, Fresh
  <2> HIDE DEF pages
  <2> QED BY <2>1, <1>0, <1>1, <1>7 DEF PageOwn, SavedOwn
<1>12. TrailInOrder'
  <2>1. CASE "audit" \in doubts
    BY <2>1, <1>1 DEF TrailInOrder
  <2>2. CASE "audit" \notin doubts
    <3>1. \A c \in Desks : desks'[c].at # "audit"
      BY <2>2, <1>0, <1>1, <1>2, MovesOne DEF TrailInOrder
    <3>2. desks[d].page = IF desks[d].item = NoCase THEN First ELSE Len(shown.events) + 1
      BY <2>2, <1>0, <1>1 DEF TrailInOrder, Fresh, Current
    <3>3. \A i \in DOMAIN shown.events : shown.events[i].page = i
      BY <2>2, <1>0 DEF TrailInOrder
    <3>4. Len(pages) = desks[d].page
      BY <3>2, <1>3, <1>4 DEF First
    <3>5. \A i \in DOMAIN pages : pages[i].page = i
      <4>1. CASE desks[d].item = NoCase
        BY <4>1, <3>2, <1>3, <1>4 DEF First
      <4>2. CASE desks[d].item # NoCase
        BY <4>2, <3>2, <3>3, <1>3, <1>4
      <4> QED BY <4>1, <4>2
    <3>6. next \in {NoCursor, Len(pages) + 1}
      BY <3>4 DEF next
    <3> HIDE DEF pages
    <3> QED BY <3>1, <3>5, <3>6, <1>7 DEF TrailInOrder
  <2> QED BY <2>1, <2>2
<1>13. /\ Leaves(d, {"policy", "saving"}, "policy") /\ Leaves(d, Listing, "requests")
       /\ Leaves(d, {"detail"}, "detail")
  BY <1>1, <1>2 DEF Leaves, Listing
<1>14. FormInStep' /\ ListInStep' /\ CaseInStep'
  <2> HIDE DEF pages
  <2> QED BY <1>0, <1>1, <1>2, <1>7, <1>13, FormLeft, ListLeft, CaseLeft
<1>15. DecidedShown'
  BY <1>0, <1>1 DEF DecidedShown
<1> QED BY <1>9, <1>10, <1>11, <1>12, <1>14, <1>15 DEF ConsoleInvariant

LEMMA PolicyShownKeeps ==
    ASSUME ConsoleInvariant, NEW d \in Desks, PolicyShown(d)
    PROVE  ConsoleInvariant'
PROOF
<1> DEFINE form == [of |-> desks[d].of, epoch |-> desks[d].epoch, value |-> desks[d].value]
<1>0. /\ ConsoleTyped /\ PageOwn /\ DecidedShown /\ TrailInOrder /\ FormInStep /\ ListInStep
      /\ CaseInStep /\ shown \in Part /\ desks[d] \in Desk /\ \A c \in Desks : InLine(c)
  BY DEF ConsoleInvariant, ConsoleTyped
<1>1. /\ UNCHANGED <<console, policies, decided, saves, doubts, troubles>> /\ Rests(d)
      /\ desks[d].at = "policy" /\ desks[d].answer = "ok"
      /\ desks[d].of = console.of /\ desks[d].epoch = console.epoch
      /\ shown' = [shown EXCEPT !.form = form]
  BY DEF PolicyShown, Answered, Fresh
<1>2. Moves(d) /\ InLine(d)' /\ desks'[d].at = "rest"
  BY <1>0, <1>1, SamePage, RestsMove, RestIsDesk
<1>3. form \in [of : Nones, epoch : Nat, value : Nat] /\ form.of = console.of
        /\ form.epoch = console.epoch /\ form.value = desks[d].value
  BY <1>0, <1>1 DEF Desk
<1> HIDE DEF form
<1>4. /\ shown'.form = form /\ shown'.events = shown.events /\ shown'.cursor = shown.cursor
      /\ shown'.requests = shown.requests /\ shown'.detail = shown.detail
      /\ shown'.selected = shown.selected /\ shown'.reviews = shown.reviews
      /\ shown'.overview = shown.overview /\ shown'.members = shown.members /\ shown' \in Part
  BY <1>0, <1>1, <1>3 DEF Part
<1>5. ConsoleTyped'
  BY <1>0, <1>1, <1>2, <1>4, MovesOne DEF ConsoleTyped
<1>6. \A c \in Desks : InLine(c)'
  BY <1>0, <1>2, LineOfOne
<1>7. PageOwn'
  <2>1. console.epoch <= console.epoch
    BY <1>0 DEF ConsoleTyped, Page
  <2> QED BY <2>1, <1>0, <1>1, <1>3, <1>4 DEF PageOwn, SavedOwn
<1>8. FormInStep'
  <2>1. CASE "policy" \in doubts
    BY <2>1, <1>1 DEF FormInStep
  <2>2. CASE "policy" \notin doubts
    <3>1. \A c \in Desks : desks'[c].at \notin {"policy", "saving"}
      BY <2>2, <1>0, <1>1, <1>2, MovesOne DEF FormInStep
    <3>2. console.of \in Firms => form.value = policies[console.of]
      BY <2>2, <1>0, <1>1, <1>3 DEF FormInStep, Current
    <3> QED BY <3>1, <3>2, <1>1, <1>4 DEF FormInStep
  <2> QED BY <2>1, <2>2
<1>9. Leaves(d, Listing, "requests") /\ Leaves(d, {"detail"}, "detail")
  BY <1>1, <1>2 DEF Leaves, Listing
<1>10. TrailInOrder' /\ ListInStep' /\ CaseInStep'
  BY <1>0, <1>1, <1>2, <1>4, <1>9, TrailLeft, ListLeft, CaseLeft
<1>11. DecidedShown'
  BY <1>0, <1>1 DEF DecidedShown
<1> QED BY <1>5, <1>6, <1>7, <1>8, <1>10, <1>11 DEF ConsoleInvariant

LEMMA RequestsShownKeeps ==
    ASSUME ConsoleInvariant, NEW d \in Desks, RequestsShown(d)
    PROVE  ConsoleInvariant'
PROOF
<1> DEFINE list == [of |-> desks[d].of, filter |-> desks[d].filter]
<1>0. /\ ConsoleTyped /\ PageOwn /\ DecidedShown /\ TrailInOrder /\ FormInStep /\ ListInStep
      /\ CaseInStep /\ shown \in Part /\ desks[d] \in Desk /\ \A c \in Desks : InLine(c)
  BY DEF ConsoleInvariant, ConsoleTyped
<1>1. /\ UNCHANGED <<console, policies, decided, saves, doubts, troubles>> /\ Rests(d)
      /\ desks[d].at \in Listing
      /\ desks[d].of = console.of /\ desks[d].epoch = console.epoch
      /\ shown' = [shown EXCEPT !.requests = list]
  BY DEF RequestsShown, Answered, Fresh, Listing
<1>2. Moves(d) /\ InLine(d)' /\ desks'[d].at = "rest"
  BY <1>0, <1>1, SamePage, RestsMove, RestIsDesk
<1>3. list \in [of : Nones, filter : Filters] /\ list.of = console.of
        /\ list.filter = desks[d].filter
  BY <1>0, <1>1 DEF Desk
<1> HIDE DEF list
<1>4. /\ shown'.form = shown.form /\ shown'.events = shown.events /\ shown'.cursor = shown.cursor
      /\ shown'.requests = list /\ shown'.detail = shown.detail
      /\ shown'.selected = shown.selected /\ shown'.reviews = shown.reviews
      /\ shown'.overview = shown.overview /\ shown'.members = shown.members /\ shown' \in Part
  BY <1>0, <1>1, <1>3 DEF Part
<1>5. ConsoleTyped'
  BY <1>0, <1>1, <1>2, <1>4, MovesOne DEF ConsoleTyped
<1>6. \A c \in Desks : InLine(c)'
  BY <1>0, <1>2, LineOfOne
<1>7. PageOwn'
  BY <1>0, <1>1, <1>3, <1>4 DEF PageOwn, SavedOwn
<1>8. ListInStep'
  <2>1. CASE "requests" \in doubts
    BY <2>1, <1>1 DEF ListInStep
  <2>2. CASE "requests" \notin doubts
    <3>1. \A c \in Desks : desks'[c].at \notin Listing
      <4>1. "rest" \notin Listing
        BY DEF Listing
      <4> QED BY <4>1, <2>2, <1>0, <1>1, <1>2, MovesOne DEF ListInStep
    <3>2. list.filter = console.filter
      BY <2>2, <1>0, <1>1, <1>3 DEF ListInStep, Current
    <3> QED BY <3>1, <3>2, <1>1, <1>4 DEF ListInStep
  <2> QED BY <2>1, <2>2
<1>9. Leaves(d, {"policy", "saving"}, "policy") /\ Leaves(d, {"detail"}, "detail")
  BY <1>1, <1>2 DEF Leaves, Listing
<1>10. TrailInOrder' /\ FormInStep' /\ CaseInStep'
  BY <1>0, <1>1, <1>2, <1>4, <1>9, TrailLeft, FormLeft, CaseLeft
<1>11. DecidedShown'
  BY <1>0, <1>1 DEF DecidedShown
<1> QED BY <1>5, <1>6, <1>7, <1>8, <1>10, <1>11 DEF ConsoleInvariant

LEMMA DetailShownKeeps ==
    ASSUME ConsoleInvariant, NEW d \in Desks, DetailShown(d)
    PROVE  ConsoleInvariant'
PROOF
<1>0. /\ ConsoleTyped /\ PageOwn /\ DecidedShown /\ TrailInOrder /\ FormInStep /\ ListInStep
      /\ CaseInStep /\ shown \in Part /\ desks[d] \in Desk /\ \A c \in Desks : InLine(c)
  BY DEF ConsoleInvariant, ConsoleTyped
<1>1. /\ UNCHANGED <<console, policies, decided, saves, doubts, troubles>> /\ Rests(d)
      /\ desks[d].at = "detail"
      /\ desks[d].of = console.of /\ desks[d].epoch = console.epoch
      /\ shown' = [shown EXCEPT !.detail = desks[d].item] /\ desks[d].item \in ItemKept
  BY <1>0 DEF DetailShown, Answered, Fresh, Desk
<1>2. Moves(d) /\ InLine(d)' /\ desks'[d].at = "rest"
  BY <1>0, <1>1, SamePage, RestsMove, RestIsDesk
<1>3. desks[d].item[1] = console.of
  BY <1>0, <1>1 DEF InLine
<1>4. /\ shown'.form = shown.form /\ shown'.events = shown.events /\ shown'.cursor = shown.cursor
      /\ shown'.requests = shown.requests /\ shown'.detail = desks[d].item
      /\ shown'.selected = shown.selected /\ shown'.reviews = shown.reviews
      /\ shown'.overview = shown.overview /\ shown'.members = shown.members /\ shown' \in Part
  BY <1>0, <1>1 DEF Part
<1>5. ConsoleTyped'
  BY <1>0, <1>1, <1>2, <1>4, MovesOne DEF ConsoleTyped
<1>6. \A c \in Desks : InLine(c)'
  BY <1>0, <1>2, LineOfOne
<1>7. PageOwn'
  BY <1>0, <1>1, <1>3, <1>4 DEF PageOwn, SavedOwn
<1>8. CaseInStep'
  <2>1. CASE "detail" \in doubts
    BY <2>1, <1>1 DEF CaseInStep
  <2>2. CASE "detail" \notin doubts
    <3>1. desks[d].item = shown.selected
      BY <2>2, <1>0, <1>1 DEF CaseInStep, Current
    <3>2. \A c \in Desks : c # d => desks'[c] = desks[c]
      BY <1>0, <1>2, MovesOne
    <3> QED BY <3>1, <3>2, <2>2, <1>0, <1>1, <1>2, <1>4 DEF CaseInStep, Current
  <2> QED BY <2>1, <2>2
<1>9. Leaves(d, {"policy", "saving"}, "policy") /\ Leaves(d, Listing, "requests")
  BY <1>1, <1>2 DEF Leaves, Listing
<1>10. TrailInOrder' /\ FormInStep' /\ ListInStep'
  BY <1>0, <1>1, <1>2, <1>4, <1>9, TrailLeft, FormLeft, ListLeft
<1>11. DecidedShown'
  BY <1>0, <1>1 DEF DecidedShown
<1> QED BY <1>5, <1>6, <1>7, <1>8, <1>10, <1>11 DEF ConsoleInvariant

----------------------------------------------------------------------------
(* What is asked for: the model policy, requests of data subjects, cases *)

LEMMA SavePolicyKeeps ==
    ASSUME ConsoleInvariant, NEW d \in Desks, SavePolicy(d)
    PROVE  ConsoleInvariant'
PROOF
<1> DEFINE nr == 1 + Cardinality(saves)
           r == [Request("saving") EXCEPT !.value = nr]
           save == [nr |-> nr, of |-> shown.form.of, to |-> console.of,
                    loaded |-> shown.form.epoch = console.epoch]
<1>0. /\ ConsoleTyped /\ PageOwn /\ DecidedShown /\ TrailInOrder /\ FormInStep /\ ListInStep
      /\ CaseInStep /\ shown \in Part /\ \A c \in Desks : InLine(c)
  BY DEF ConsoleInvariant, ConsoleTyped
<1>1. /\ UNCHANGED <<console, policies, decided, troubles>>
      /\ desks[d] = AtRest /\ console.visible
      /\ saves' = saves \cup {save}
      /\ shown' = [shown EXCEPT !.form = [shown.form EXCEPT !.value = nr]]
      /\ desks' = [desks EXCEPT ![d] = r]
      /\ Doubted("policy", Busy({"policy", "saving"}))
  BY DEF SavePolicy, Clicks, Free
<1>2. nr \in Nat
  <2>1. Cardinality(saves) \in Nat
    BY <1>0, FS_CardinalityType DEF ConsoleTyped
  <2> QED BY <2>1
<1> HIDE DEF nr
<1>3. /\ r \in Desk /\ r.at = "saving" /\ r.of = console.of /\ r.epoch = console.epoch
      /\ r.answer = "none"
  <2>1. "saving" \in Points
    BY DEF Points
  <2> QED BY <2>1, <1>0, <1>2, RequestIsDesk DEF Desk
<1>4. save.loaded => save.of = save.to
  BY <1>0, <1>1 DEF PageOwn
<1> HIDE DEF r, save
<1>5. /\ doubts \subseteq doubts'
      /\ "policy" \notin doubts' => \A c \in Desks : desks[c].at \notin {"policy", "saving"}
  BY <1>1 DEF Doubted, Busy
<1>6. console.of \in Firms
  BY <1>0, <1>1 DEF PageOwn
<1>7. Moves(d) /\ InLine(d)' /\ desks'[d] = r
  BY <1>0, <1>1, <1>3, <1>5, <1>6, SamePage, SendsMove
<1>8. /\ shown'.form.of = shown.form.of /\ shown'.form.epoch = shown.form.epoch
      /\ shown'.events = shown.events /\ shown'.cursor = shown.cursor
      /\ shown'.requests = shown.requests /\ shown'.detail = shown.detail
      /\ shown'.selected = shown.selected /\ shown'.reviews = shown.reviews
      /\ shown'.overview = shown.overview /\ shown'.members = shown.members /\ shown' \in Part
  BY <1>0, <1>1, <1>2 DEF Part
<1>9. ConsoleTyped'
  <2>1. IsFiniteSet(saves')
    BY <1>0, <1>1, FS_AddElement DEF ConsoleTyped
  <2> QED BY <2>1, <1>0, <1>1, <1>7, <1>8, MovesOne DEF ConsoleTyped
<1>10. \A c \in Desks : InLine(c)'
  BY <1>0, <1>7, LineOfOne
<1>11. PageOwn'
  <2>1. SavedOwn'
    BY <1>0, <1>1, <1>4 DEF PageOwn, SavedOwn
  <2> QED BY <2>1, <1>0, <1>1, <1>8 DEF PageOwn
<1>12. FormInStep'
  <2>1. CASE "policy" \in doubts'
    BY <2>1 DEF FormInStep
  <2>2. CASE "policy" \notin doubts'
    <3>1. \A c \in Desks : c # d => desks'[c].at \notin {"policy", "saving"}
      BY <2>2, <1>0, <1>5, <1>7, MovesOne
    <3>2. desks'[d].at = "saving" /\ Fresh(d)'
      BY <1>1, <1>3, <1>7 DEF Fresh
    <3> QED BY <3>1, <3>2 DEF FormInStep
  <2> QED BY <2>1, <2>2
<1>13. Leaves(d, Listing, "requests") /\ Leaves(d, {"detail"}, "detail")
  BY <1>1, <1>3, <1>7, RestIsDesk DEF Leaves, Listing
<1>14. TrailInOrder' /\ ListInStep' /\ CaseInStep'
  BY <1>0, <1>1, <1>3, <1>7, <1>8, <1>13, TrailLeft, ListLeft, CaseLeft
<1>15. DecidedShown'
  BY <1>0, <1>1, <1>5, DecidedLeft
<1> QED BY <1>9, <1>10, <1>11, <1>12, <1>14, <1>15 DEF ConsoleInvariant

LEMMA PolicySavedKeeps ==
    ASSUME ConsoleInvariant, NEW d \in Desks, PolicySaved(d)
    PROVE  ConsoleInvariant'
PROOF
<1> DEFINE r == Request("policy")
<1>0. /\ ConsoleTyped /\ PageOwn /\ DecidedShown /\ TrailInOrder /\ FormInStep /\ ListInStep
      /\ CaseInStep /\ \A c \in Desks : InLine(c)
  BY DEF ConsoleInvariant, ConsoleTyped
<1>1. /\ UNCHANGED <<console, shown, policies, decided, saves, troubles>>
      /\ desks[d].at = "saving" /\ desks' = [desks EXCEPT ![d] = r]
      /\ Doubted("policy", \E c \in Desks \ {d} : desks[c].at \in {"policy", "saving"})
  BY DEF PolicySaved, Answered, Sends
<1>2. /\ r \in Desk /\ r.at = "policy" /\ r.of = console.of /\ r.epoch = console.epoch
      /\ r.answer = "none"
  <2>1. "policy" \in Points
    BY DEF Points
  <2> QED BY <2>1, <1>0, RequestIsDesk
<1> HIDE DEF r
<1>3. /\ doubts \subseteq doubts'
      /\ "policy" \notin doubts' => \A c \in Desks \ {d} : desks[c].at \notin {"policy", "saving"}
  BY <1>1 DEF Doubted
<1>4. Moves(d) /\ InLine(d)' /\ desks'[d] = r
  BY <1>0, <1>1, <1>2, <1>3, SamePage, SendsMove
<1>5. ConsoleTyped'
  BY <1>0, <1>1, <1>4, MovesOne DEF ConsoleTyped
<1>6. \A c \in Desks : InLine(c)'
  BY <1>0, <1>4, LineOfOne
<1>7. PageOwn'
  BY <1>0, <1>1 DEF PageOwn, SavedOwn
<1>8. FormInStep'
  <2>1. CASE "policy" \in doubts'
    BY <2>1 DEF FormInStep
  <2>2. CASE "policy" \notin doubts'
    <3>1. \A c \in Desks : c # d => desks'[c].at \notin {"policy", "saving"}
      BY <2>2, <1>0, <1>3, <1>4, MovesOne
    <3>2. desks'[d].at = "policy" /\ Fresh(d)' /\ desks'[d].answer = "none"
      BY <1>1, <1>2, <1>4 DEF Fresh
    <3> QED BY <3>1, <3>2 DEF FormInStep
  <2> QED BY <2>1, <2>2
<1>9. Leaves(d, Listing, "requests") /\ Leaves(d, {"detail"}, "detail")
  BY <1>1, <1>2, <1>4 DEF Leaves, Listing
<1>10. TrailInOrder' /\ ListInStep' /\ CaseInStep'
  BY <1>0, <1>1, <1>2, <1>4, <1>9, TrailLeft, ListLeft, CaseLeft
<1>11. DecidedShown'
  BY <1>0, <1>1, <1>3, DecidedLeft
<1> QED BY <1>5, <1>6, <1>7, <1>8, <1>10, <1>11 DEF ConsoleInvariant

\* Handler d asks for the list of the filter that is set, and is the only one,
\* or two of them met.
LEMMA ListAsked ==
    ASSUME ConsoleTyped, NEW d \in Desks, Moves(d), console'.of = console.of,
           desks'[d].at \in Listing, desks'[d].filter = console'.filter, Fresh(d)',
           "requests" \notin doubts' => \A c \in Desks \ {d} : desks[c].at \notin Listing
    PROVE  ListInStep'
PROOF
<1>1. CASE "requests" \in doubts'
  BY <1>1 DEF ListInStep
<1>2. CASE "requests" \notin doubts'
  <2>1. \A c \in Desks : c # d => desks'[c].at \notin Listing
    BY <1>2, MovesOne
  <2> QED BY <2>1 DEF ListInStep, Listing
<1> QED BY <1>1, <1>2

LEMMA ListAskedKeeps ==
    ASSUME ConsoleInvariant, NEW d \in Desks,
           RequestApproved(d) \/ \E filter \in Filters : ChangeFilter(d, filter)
    PROVE  ConsoleInvariant'
PROOF
<1>0. /\ ConsoleTyped /\ PageOwn /\ DecidedShown /\ TrailInOrder /\ FormInStep /\ ListInStep
      /\ CaseInStep /\ console \in Page /\ \A c \in Desks : InLine(c)
  BY DEF ConsoleInvariant, ConsoleTyped
<1>1. PICK filter \in Filters :
        /\ UNCHANGED <<shown, policies, decided, saves, troubles>>
        /\ desks[d].at \in {"rest", "approved"}
        /\ console' = [console EXCEPT !.filter = filter]
        /\ desks' = [desks EXCEPT ![d] = [Request("requests") EXCEPT !.filter = filter]]
        /\ doubts \subseteq doubts'
        /\ "requests" \notin doubts' => \A c \in Desks \ {d} : desks[c].at \notin Listing
  <2>1. CASE RequestApproved(d)
    <3>1. console.filter \in Filters /\ console = [console EXCEPT !.filter = console.filter]
      BY <1>0 DEF Page
    <3> QED BY <2>1, <3>1 DEF RequestApproved, Refreshed, Doubted, Answered
  <2>2. ASSUME NEW filter \in Filters, ChangeFilter(d, filter)
        PROVE  /\ UNCHANGED <<shown, policies, decided, saves, troubles>>
               /\ desks[d].at \in {"rest", "approved"}
               /\ console' = [console EXCEPT !.filter = filter]
               /\ desks' = [desks EXCEPT ![d] = [Request("requests") EXCEPT !.filter = filter]]
               /\ doubts \subseteq doubts'
               /\ "requests" \notin doubts' => \A c \in Desks \ {d} : desks[c].at \notin Listing
    BY <2>2, RestIsDesk DEF ChangeFilter, Doubted, Busy, Clicks, Free
  <2> QED BY <2>1, <2>2
<1> DEFINE r == [Request("requests") EXCEPT !.filter = filter]
<1>2. /\ r \in Desk /\ r.at = "requests" /\ r.of = console.of /\ r.epoch = console.epoch
      /\ r.answer = "none" /\ r.filter = filter
  <2>1. "requests" \in Points
    BY DEF Points
  <2> QED BY <2>1, <1>0, RequestIsDesk DEF Desk
<1> HIDE DEF r
<1>3. /\ console' \in Page /\ console'.of = console.of /\ console'.epoch = console.epoch
      /\ console'.filter = filter /\ console'.visible = console.visible
      /\ console'.context = console.context
  BY <1>0, <1>1 DEF Page
<1>4. Moves(d) /\ InLine(d)' /\ desks'[d] = r
  <2>1. desks' = [desks EXCEPT ![d] = r]
    BY <1>1 DEF r
  <2> QED BY <2>1, <1>0, <1>1, <1>2, <1>3, SendsMove
<1>5. ConsoleTyped'
  BY <1>0, <1>1, <1>3, <1>4, MovesOne DEF ConsoleTyped
<1>6. \A c \in Desks : InLine(c)'
  BY <1>0, <1>4, LineOfOne
<1>7. PageOwn'
  BY <1>0, <1>1, <1>3 DEF PageOwn, SavedOwn
<1>8. ListInStep'
  <2>1. Fresh(d)'
    BY <1>2, <1>3, <1>4 DEF Fresh
  <2> QED BY <2>1, <1>0, <1>1, <1>2, <1>3, <1>4, ListAsked DEF Listing
<1>9. Leaves(d, {"policy", "saving"}, "policy") /\ Leaves(d, {"detail"}, "detail")
  BY <1>1, <1>2, <1>4 DEF Leaves
<1>10. TrailInOrder' /\ FormInStep' /\ CaseInStep'
  BY <1>0, <1>1, <1>2, <1>4, <1>9, TrailLeft, FormLeft, CaseLeft
<1>11. DecidedShown'
  BY <1>0, <1>1, DecidedLeft
<1> QED BY <1>5, <1>6, <1>7, <1>8, <1>10, <1>11 DEF ConsoleInvariant

LEMMA ClickNextKeeps ==
    ASSUME ConsoleInvariant, NEW d \in Desks, ClickNext(d)
    PROVE  ConsoleInvariant'
PROOF
<1> DEFINE item == <<console.of, 1>>
           r == [Request("audit") EXCEPT !.page = shown.cursor, !.item = item]
<1>0. /\ ConsoleTyped /\ PageOwn /\ DecidedShown /\ TrailInOrder /\ FormInStep /\ ListInStep
      /\ CaseInStep /\ \A c \in Desks : InLine(c)
      /\ console.of \in Nones /\ shown.cursor \in 0..LastPage
  BY DEF ConsoleInvariant, ConsoleTyped, Page, Part
<1>1. /\ UNCHANGED <<console, shown, policies, decided, saves, troubles>>
      /\ desks[d] = AtRest /\ console.visible /\ shown.cursor # NoCursor
      /\ desks' = [desks EXCEPT ![d] = r] /\ Doubted("audit", Busy({"audit"}))
  BY DEF ClickNext, Clicks, Free
<1>2. console.of \in Firms
  BY <1>0, <1>1 DEF PageOwn
<1>3. /\ r \in Desk /\ r.at = "audit" /\ r.of = console.of /\ r.epoch = console.epoch
      /\ r.answer = "none" /\ r.page = shown.cursor /\ r.item # NoCase
  <2>1. "audit" \in Points /\ item \in ItemKept /\ item # NoCase
    BY <1>0 DEF Points, ItemKept, NoCase
  <2> DEFINE q == Request("audit")
  <2>2. /\ q \in Desk /\ q.at = "audit" /\ q.of = console.of /\ q.epoch = console.epoch
        /\ q.answer = "none"
    BY <2>1, <1>0, RequestIsDesk
  <2> HIDE DEF item, q
  <2>5. [q EXCEPT !.page = shown.cursor, !.item = item] \in Desk
    <3> HIDE DEF r
    <3>1. \A r0 \in Desk, p \in 0..LastPage, i \in ItemKept :
            [r0 EXCEPT !.page = p, !.item = i] \in Desk
      BY DEF Desk
    <3> QED BY <3>1, <2>1, <2>2, <1>0
  <2>6. r = [q EXCEPT !.page = shown.cursor, !.item = item]
    BY DEF q
  <2>3. r \in Desk /\ r = [q EXCEPT !.page = shown.cursor, !.item = item]
    BY <2>5, <2>6
  <2>4. r.at = q.at /\ r.of = q.of /\ r.epoch = q.epoch /\ r.answer = q.answer
          /\ r.page = shown.cursor /\ r.item = item
    <3> HIDE DEF r
    <3> QED BY <2>2, <2>3 DEF Desk
  <2> QED BY <2>1, <2>2, <2>3, <2>4
<1> HIDE DEF r
<1>4. /\ doubts \subseteq doubts'
      /\ "audit" \notin doubts' => \A c \in Desks : desks[c].at # "audit"
  BY <1>1 DEF Doubted, Busy
<1>5. Moves(d) /\ InLine(d)' /\ desks'[d] = r
  BY <1>0, <1>1, <1>3, <1>4, SamePage, SendsMove
<1>6. ConsoleTyped'
  BY <1>0, <1>1, <1>5, MovesOne DEF ConsoleTyped
<1>7. \A c \in Desks : InLine(c)'
  BY <1>0, <1>5, LineOfOne
<1>8. PageOwn'
  BY <1>0, <1>1 DEF PageOwn, SavedOwn
<1>9. TrailInOrder'
  <2>1. CASE "audit" \in doubts'
    BY <2>1 DEF TrailInOrder
  <2>2. CASE "audit" \notin doubts'
    <3>1. \A c \in Desks : c # d => desks'[c].at # "audit"
      BY <2>2, <1>0, <1>4, <1>5, MovesOne
    <3>2. "audit" \notin doubts
      BY <2>2, <1>4
    <3> QED BY <3>1, <3>2, <1>0, <1>1, <1>3, <1>5 DEF TrailInOrder
  <2> QED BY <2>1, <2>2
<1>10. /\ Leaves(d, {"policy", "saving"}, "policy") /\ Leaves(d, Listing, "requests")
       /\ Leaves(d, {"detail"}, "detail")
  BY <1>1, <1>3, <1>5, RestIsDesk DEF Leaves, Listing
<1>11. FormInStep' /\ ListInStep' /\ CaseInStep'
  BY <1>0, <1>1, <1>3, <1>5, <1>10, FormLeft, ListLeft, CaseLeft
<1>12. DecidedShown'
  BY <1>0, <1>1, <1>4, DecidedLeft
<1> QED BY <1>6, <1>7, <1>8, <1>9, <1>11, <1>12 DEF ConsoleInvariant

\* Handler d asks for a case as it is selected; nothing is being decided, or the
\* case was the selected one.
LEMMA CaseAsked ==
    ASSUME ConsoleTyped, NEW d \in Desks, Moves(d), CaseInStep,
           desks'[d].at = "detail", desks'[d].item = shown'.selected, Fresh(d)',
           "detail" \notin doubts' =>
             \A c \in Desks : desks[c].at = "detail" => desks[c].item = shown'.selected,
           shown'.selected = shown.selected \/ \A c \in Desks : desks[c].at # "confirming"
    PROVE  CaseInStep'
PROOF
<1>1. CASE "detail" \in doubts'
  BY <1>1 DEF CaseInStep
<1>2. CASE "detail" \notin doubts'
  <2>1. \A c \in Desks : c # d => desks'[c] = desks[c]
    BY MovesOne
  <2>2. "detail" \notin doubts
    BY <1>2 DEF Moves
  <2>3. \A c \in Desks : desks'[c].at = "detail" /\ Current(c)' => desks'[c].item = shown'.selected
    BY <1>2, <2>1
  <2>4. \A c \in Desks : desks'[c].at = "confirming" => desks'[c].from = shown'.selected
    BY <2>1, <2>2 DEF CaseInStep
  <2> QED BY <2>3, <2>4 DEF CaseInStep
<1> QED BY <1>1, <1>2

LEMMA ClickCaseKeeps ==
    ASSUME ConsoleInvariant, NEW d \in Desks, NEW case \in Cases, ClickCase(d, case)
    PROVE  ConsoleInvariant'
PROOF
<1> DEFINE r == [Request("detail") EXCEPT !.item = case]
<1>0. /\ ConsoleTyped /\ PageOwn /\ DecidedShown /\ TrailInOrder /\ FormInStep /\ ListInStep
      /\ CaseInStep /\ shown \in Part /\ \A c \in Desks : InLine(c)
  BY DEF ConsoleInvariant, ConsoleTyped
<1>1. /\ UNCHANGED <<console, policies, decided, saves, troubles>>
      /\ desks[d] = AtRest /\ console.visible /\ ~Modal /\ shown.reviews = case[1]
      /\ shown' = [shown EXCEPT !.selected = case]
      /\ desks' = [desks EXCEPT ![d] = r]
      /\ Doubted("detail", \E c \in Desks : desks[c].at = "detail" /\ desks[c].item # case)
  BY DEF ClickCase, Selects, Clicks, Free
<1>2. case[1] = console.of /\ case \in ItemKept
  BY <1>0, <1>1, ConsoleAssumption DEF PageOwn, Cases, ItemKept, Nones
<1>3. /\ r \in Desk /\ r.at = "detail" /\ r.of = console.of /\ r.epoch = console.epoch
      /\ r.answer = "none" /\ r.item = case
  <2>1. "detail" \in Points
    BY DEF Points
  <2> QED BY <2>1, <1>0, <1>2, RequestIsDesk DEF Desk
<1> HIDE DEF r
<1>4. /\ doubts \subseteq doubts'
      /\ "detail" \notin doubts' =>
           \A c \in Desks : desks[c].at = "detail" => desks[c].item = case
  BY <1>1 DEF Doubted
<1>5. Moves(d) /\ InLine(d)' /\ desks'[d] = r
  BY <1>0, <1>1, <1>2, <1>3, <1>4, SamePage, SendsMove
<1>6. /\ shown'.form = shown.form /\ shown'.events = shown.events /\ shown'.cursor = shown.cursor
      /\ shown'.requests = shown.requests /\ shown'.detail = shown.detail
      /\ shown'.selected = case /\ shown'.reviews = shown.reviews
      /\ shown'.overview = shown.overview /\ shown'.members = shown.members /\ shown' \in Part
  BY <1>0, <1>1, <1>2 DEF Part
<1>7. ConsoleTyped'
  BY <1>0, <1>1, <1>5, <1>6, MovesOne DEF ConsoleTyped
<1>8. \A c \in Desks : InLine(c)'
  BY <1>0, <1>5, LineOfOne
<1>9. PageOwn'
  BY <1>0, <1>1, <1>2, <1>6 DEF PageOwn, SavedOwn
<1>10. CaseInStep'
  <2>1. Fresh(d)'
    BY <1>1, <1>3, <1>5 DEF Fresh
  <2>2. \A c \in Desks : desks[c].at # "confirming"
    BY <1>1 DEF Modal
  <2> QED BY <2>1, <2>2, <1>0, <1>3, <1>4, <1>5, <1>6, CaseAsked
<1>11. Leaves(d, {"policy", "saving"}, "policy") /\ Leaves(d, Listing, "requests")
  BY <1>1, <1>3, <1>5, RestIsDesk DEF Leaves, Listing
<1>12. TrailInOrder' /\ FormInStep' /\ ListInStep'
  BY <1>0, <1>1, <1>3, <1>5, <1>6, <1>11, TrailLeft, FormLeft, ListLeft
<1>13. DecidedShown'
  BY <1>0, <1>1, <1>4, DecidedLeft
<1> QED BY <1>7, <1>8, <1>9, <1>10, <1>12, <1>13 DEF ConsoleInvariant

LEMMA ReviewsShownKeeps ==
    ASSUME ConsoleInvariant, NEW d \in Desks, ReviewsShown(d)
    PROVE  ConsoleInvariant'
PROOF
<1>0. /\ ConsoleTyped /\ PageOwn /\ DecidedShown /\ TrailInOrder /\ FormInStep /\ ListInStep
      /\ CaseInStep /\ shown \in Part /\ desks[d] \in Desk /\ \A c \in Desks : InLine(c)
  BY DEF ConsoleInvariant, ConsoleTyped
<1>1. /\ UNCHANGED <<console, policies, decided, saves, troubles>>
      /\ desks[d].at = "reviews" /\ desks[d].of = console.of /\ console.of \in Nones
      /\ shown' = [shown EXCEPT !.reviews = console.of]
  BY <1>0 DEF ReviewsShown, Answered, Fresh, ConsoleTyped, Page
<1>2. /\ shown'.form = shown.form /\ shown'.events = shown.events /\ shown'.cursor = shown.cursor
      /\ shown'.requests = shown.requests /\ shown'.detail = shown.detail
      /\ shown'.selected = shown.selected /\ shown'.reviews = console.of
      /\ shown'.overview = shown.overview /\ shown'.members = shown.members /\ shown' \in Part
  BY <1>0, <1>1 DEF Part
<1>3. PageOwn'
  BY <1>0, <1>1, <1>2 DEF PageOwn, SavedOwn
<1>4. CASE Rests(d) /\ UNCHANGED doubts
  <2>1. Moves(d) /\ InLine(d)' /\ desks'[d].at = "rest"
    BY <1>0, <1>1, <1>4, SamePage, RestsMove, RestIsDesk
  <2>2. DecidedShown'
    BY <1>0, <1>1, <1>4 DEF DecidedShown
  <2> QED BY <2>1, <2>2, <1>1, <1>2, <1>3, PassesKeeps DEF InStepPoints
<1>5. CASE ~(Rests(d) /\ UNCHANGED doubts)
  <2> DEFINE r == [Request("detail") EXCEPT !.item = shown.selected]
  <2>1. /\ shown.selected[1] = console.of /\ desks' = [desks EXCEPT ![d] = r]
        /\ Doubted("detail", \E c \in Desks : desks[c].at = "detail"
                                                /\ desks[c].item # shown.selected)
    BY <1>1, <1>5 DEF ReviewsShown
  <2>2. /\ r \in Desk /\ r.at = "detail" /\ r.of = console.of /\ r.epoch = console.epoch
        /\ r.answer = "none" /\ r.item = shown.selected
    <3>1. "detail" \in Points /\ shown.selected \in ItemKept
      BY <1>0 DEF Points, Part
    <3> QED BY <3>1, <1>0, RequestIsDesk DEF Desk
  <2> HIDE DEF r
  <2>3. /\ doubts \subseteq doubts'
        /\ "detail" \notin doubts' =>
             \A c \in Desks : desks[c].at = "detail" => desks[c].item = shown.selected
    BY <2>1 DEF Doubted
  <2>4. Moves(d) /\ InLine(d)' /\ desks'[d] = r
    BY <1>0, <1>1, <2>1, <2>2, <2>3, SamePage, SendsMove
  <2>5. ConsoleTyped'
    BY <1>0, <1>1, <1>2, <2>4, MovesOne DEF ConsoleTyped
  <2>6. \A c \in Desks : InLine(c)'
    BY <1>0, <2>4, LineOfOne
  <2>7. CaseInStep'
    <3>1. Fresh(d)'
      BY <1>1, <2>2, <2>4 DEF Fresh
    <3> QED BY <3>1, <1>0, <1>2, <2>2, <2>3, <2>4, CaseAsked
  <2>8. Leaves(d, {"policy", "saving"}, "policy") /\ Leaves(d, Listing, "requests")
    BY <1>1, <2>2, <2>4 DEF Leaves, Listing
  <2>9. TrailInOrder' /\ FormInStep' /\ ListInStep'
    BY <1>0, <1>1, <1>2, <2>2, <2>4, <2>8, TrailLeft, FormLeft, ListLeft
  <2>10. DecidedShown'
    BY <1>0, <1>1, <2>3, DecidedLeft
  <2> QED BY <1>3, <2>5, <2>6, <2>7, <2>9, <2>10 DEF ConsoleInvariant
<1> QED BY <1>4, <1>5

LEMMA SubmitDecisionKeeps ==
    ASSUME ConsoleInvariant, NEW d \in Desks, SubmitDecision(d)
    PROVE  ConsoleInvariant'
PROOF
<1> DEFINE r == [AtRest EXCEPT !.at = "confirming", !.from = shown.detail]
<1>0. /\ ConsoleTyped /\ PageOwn /\ DecidedShown /\ TrailInOrder /\ FormInStep /\ ListInStep
      /\ CaseInStep /\ shown.detail \in ItemKept /\ \A c \in Desks : InLine(c)
  BY DEF ConsoleInvariant, ConsoleTyped, Part
<1>1. /\ UNCHANGED <<console, shown, policies, decided, saves, troubles>>
      /\ desks[d] = AtRest /\ console.visible /\ shown.detail # NoCase
      /\ desks' = [desks EXCEPT ![d] = r] /\ Doubted("detail", Busy({"detail"}))
  BY DEF SubmitDecision, Clicks, Free
<1>2. /\ r \in Desk /\ r.at = "confirming" /\ r.from = shown.detail /\ r.epoch = 0
      /\ r.of = NoFirm /\ r.answer = "none"
  BY <1>0, RestIsDesk DEF Desk, Points
<1> HIDE DEF r
<1>3. desks'[d] = r /\ doubts \subseteq doubts'
        /\ ("detail" \notin doubts' => \A c \in Desks : desks[c].at # "detail")
  BY <1>0, <1>1 DEF ConsoleTyped, Doubted, Busy
<1>4. Moves(d)
  BY <1>1, <1>2, <1>3, SamePage DEF Moves
<1>5. console.of \in Firms /\ shown.detail[1] = console.of
  BY <1>0, <1>1 DEF PageOwn
<1>6. InLine(d)'
  <2>1. console'.of = console.of /\ console'.epoch \in Nat
    BY SamePage, <1>1 DEF Page
  <2> QED BY <1>2, <1>3, <1>5, <2>1 DEF InLine
<1>7. ConsoleTyped'
  BY <1>0, <1>1, <1>4, MovesOne DEF ConsoleTyped
<1>8. \A c \in Desks : InLine(c)'
  BY <1>0, <1>4, <1>6, LineOfOne
<1>9. PageOwn'
  BY <1>0, <1>1 DEF PageOwn, SavedOwn
<1>10. CaseInStep'
  <2>1. CASE "detail" \in doubts'
    BY <2>1 DEF CaseInStep
  <2>2. CASE "detail" \notin doubts'
    <3>1. \A c \in Desks : desks'[c].at # "detail" /\ (c # d => desks'[c] = desks[c])
      BY <2>2, <1>0, <1>2, <1>3, <1>4, MovesOne
    <3>2. "detail" \notin doubts /\ shown.detail = shown.selected
      BY <2>2, <1>0, <1>1, <1>3, <1>5 DEF CaseInStep
    <3> QED BY <3>1, <3>2, <1>0, <1>1, <1>2, <1>3 DEF CaseInStep
  <2> QED BY <2>1, <2>2
<1>11. Leaves(d, {"policy", "saving"}, "policy") /\ Leaves(d, Listing, "requests")
  BY <1>1, <1>2, <1>3, RestIsDesk DEF Leaves, Listing
<1>12. TrailInOrder' /\ FormInStep' /\ ListInStep'
  BY <1>0, <1>1, <1>2, <1>3, <1>4, <1>11, TrailLeft, FormLeft, ListLeft
<1>13. DecidedShown'
  BY <1>0, <1>1, <1>3, DecidedLeft
<1> QED BY <1>7, <1>8, <1>9, <1>10, <1>12, <1>13 DEF ConsoleInvariant

----------------------------------------------------------------------------
(* Views, and switching the organization *)

AtOf(view) == CASE view = "governance" -> "policy" [] OTHER -> view

LEMMA LoadViewKeeps ==
    ASSUME ConsoleInvariant, NEW d \in Desks, NEW view \in Views, LoadView(d, view),
           UNCHANGED <<policies, decided, saves, troubles>>,
           desks[d].at \in {"rest", "context"},
           console' \in Page, console'.of = console.of, console'.epoch = console.epoch,
           console'.filter = console.filter,
           console'.visible => console.of \in Firms /\ console'.context = console.of
    PROVE  ConsoleInvariant'
PROOF
<1> DEFINE at == AtOf(view)
           page == IF view = "audit" THEN First ELSE NoCursor
           r == [Request(at) EXCEPT !.page = page, !.filter = console.filter]
<1>0. /\ ConsoleTyped /\ PageOwn /\ DecidedShown /\ TrailInOrder /\ FormInStep /\ ListInStep
      /\ CaseInStep /\ shown \in Part /\ \A c \in Desks : InLine(c)
      /\ console.filter \in Filters
  BY DEF ConsoleInvariant, ConsoleTyped, Page
<1>1. /\ desks' = [desks EXCEPT ![d] = r]
      /\ shown' = IF view = "audit" THEN [shown EXCEPT !.cursor = NoCursor] ELSE shown
      /\ doubts \subseteq doubts'
      /\ at = "policy" /\ Busy({"policy", "saving"}) => "policy" \in doubts'
      /\ at = "audit" /\ Busy({"audit"}) => "audit" \in doubts'
      /\ at = "lifecycle" /\ Busy(Listing) => "requests" \in doubts'
  BY DEF LoadView, AtOf
<1>2. /\ at \in {"overview", "members", "policy", "audit", "lifecycle", "reviews"}
      /\ at = "audit" <=> view = "audit"
  BY DEF Views, AtOf
<1> HIDE DEF at
<1>3. at \in Points
  BY <1>2 DEF Points
<1>4. First \in 0..LastPage /\ NoCursor \in 0..LastPage /\ First = 1 /\ NoCursor = 0
  BY ConsoleAssumption DEF First, NoCursor
<1>5. /\ r \in Desk /\ r.at = at /\ r.of = console.of /\ r.epoch = console.epoch
      /\ r.answer = "none" /\ r.filter = console.filter /\ r.item = NoCase
      /\ view = "audit" => r.page = First
  <2>1. page \in 0..LastPage /\ (view = "audit" => page = First)
    BY <1>4
  <2> DEFINE q == Request(at)
  <2>2. /\ q \in Desk /\ q.at = at /\ q.of = console.of /\ q.epoch = console.epoch
        /\ q.answer = "none" /\ q.item = NoCase
    BY <1>0, <1>3, RequestIsDesk
  <2> HIDE DEF page, q
  <2>5. [q EXCEPT !.page = page, !.filter = console.filter] \in Desk
    <3> HIDE DEF r
    <3>1. \A r0 \in Desk, p \in 0..LastPage, f \in Filters :
            [r0 EXCEPT !.page = p, !.filter = f] \in Desk
      BY DEF Desk
    <3> QED BY <3>1, <2>1, <2>2, <1>0
  <2>6. r = [q EXCEPT !.page = page, !.filter = console.filter]
    BY DEF q
  <2>3. r \in Desk /\ r = [q EXCEPT !.page = page, !.filter = console.filter]
    BY <2>5, <2>6
  <2>4. r.at = q.at /\ r.of = q.of /\ r.epoch = q.epoch /\ r.answer = q.answer
          /\ r.item = q.item /\ r.page = page /\ r.filter = console.filter
    <3> HIDE DEF r
    <3> QED BY <2>2, <2>3 DEF Desk
  <2> QED BY <2>1, <2>2, <2>3, <2>4
<1> HIDE DEF r
<1>6. Moves(d) /\ InLine(d)' /\ desks'[d] = r
  BY <1>0, <1>1, <1>2, <1>5, SendsMove
<1>7. /\ shown'.form = shown.form /\ shown'.events = shown.events
      /\ shown'.cursor = (IF view = "audit" THEN NoCursor ELSE shown.cursor)
      /\ shown'.requests = shown.requests /\ shown'.detail = shown.detail
      /\ shown'.selected = shown.selected /\ shown'.reviews = shown.reviews
      /\ shown'.overview = shown.overview /\ shown'.members = shown.members /\ shown' \in Part
  BY <1>0, <1>1, <1>4 DEF Part
<1>8. ConsoleTyped'
  BY <1>0, <1>6, <1>7, MovesOne DEF ConsoleTyped
<1>9. \A c \in Desks : InLine(c)'
  BY <1>0, <1>6, LineOfOne
<1>10. PageOwn'
  BY <1>0, <1>7 DEF PageOwn, SavedOwn
<1>11. TrailInOrder'
  <2>1. CASE at # "audit"
    BY <2>1, <1>0, <1>2, <1>5, <1>6, <1>7, TrailLeft
  <2>2. CASE at = "audit" /\ "audit" \in doubts'
    BY <2>2 DEF TrailInOrder
  <2>3. CASE at = "audit" /\ "audit" \notin doubts'
    <3>1. \A c \in Desks : c # d => desks'[c].at # "audit"
      BY <2>3, <1>0, <1>1, <1>6, MovesOne DEF Busy
    <3>2. "audit" \notin doubts
      BY <2>3, <1>1
    <3> QED BY <2>3, <3>1, <3>2, <1>0, <1>2, <1>5, <1>6, <1>7 DEF TrailInOrder
  <2> QED BY <2>1, <2>2, <2>3
<1>12. FormInStep'
  <2>1. CASE at # "policy"
    <3>1. Leaves(d, {"policy", "saving"}, "policy")
      BY <2>1, <1>2, <1>5, <1>6 DEF Leaves
    <3> QED BY <3>1, <1>0, <1>6, <1>7, FormLeft
  <2>2. CASE at = "policy" /\ "policy" \in doubts'
    BY <2>2 DEF FormInStep
  <2>3. CASE at = "policy" /\ "policy" \notin doubts'
    <3>1. \A c \in Desks : c # d => desks'[c].at \notin {"policy", "saving"}
      BY <2>3, <1>0, <1>1, <1>6, MovesOne DEF Busy
    <3>2. desks'[d].at = "policy" /\ Fresh(d)' /\ desks'[d].answer = "none"
      BY <2>3, <1>5, <1>6 DEF Fresh
    <3> QED BY <3>1, <3>2 DEF FormInStep
  <2> QED BY <2>1, <2>2, <2>3
<1>13. ListInStep'
  <2>1. CASE at # "lifecycle"
    <3>1. Leaves(d, Listing, "requests")
      BY <2>1, <1>2, <1>5, <1>6 DEF Leaves, Listing
    <3> QED BY <3>1, <1>0, <1>6, <1>7, ListLeft
  <2>2. CASE at = "lifecycle"
    <3>1. desks'[d].at \in Listing /\ Fresh(d)' /\ desks'[d].filter = console'.filter
      BY <2>2, <1>5, <1>6 DEF Listing, Fresh
    <3>2. "requests" \notin doubts' => \A c \in Desks \ {d} : desks[c].at \notin Listing
      BY <2>2, <1>1 DEF Busy
    <3> QED BY <3>1, <3>2, <1>0, <1>6, ListAsked
  <2> QED BY <2>1, <2>2
<1>14. CaseInStep'
  <2>1. Leaves(d, {"detail"}, "detail") /\ desks'[d].at # "confirming"
    BY <1>2, <1>5, <1>6 DEF Leaves
  <2> QED BY <2>1, <1>0, <1>6, <1>7, CaseLeft
<1>15. DecidedShown'
  BY <1>0, <1>1, DecidedLeft
<1> QED BY <1>8, <1>9, <1>10, <1>11, <1>12, <1>13, <1>14, <1>15 DEF ConsoleInvariant

LEMMA ViewKeeps ==
    ASSUME ConsoleInvariant, NEW d \in Desks,
           ContextAnswered(d) \/ \E view \in Views : ClickView(d, view)
    PROVE  ConsoleInvariant'
PROOF
<1>0. ConsoleTyped /\ PageOwn /\ InLine(d) /\ console \in Page
  BY DEF ConsoleInvariant, ConsoleTyped
<1>1. CASE ContextAnswered(d)
  <2>1. /\ desks[d].at = "context" /\ desks[d].of = console.of /\ LoadView(d, console.view)
        /\ console' = [console EXCEPT !.context = desks[d].of, !.visible = TRUE]
        /\ UNCHANGED <<policies, decided, saves, troubles>>
    BY <1>1 DEF ContextAnswered, Answered, Fresh
  <2>2. console.of \in Firms
    BY <2>1, <1>0 DEF InLine
  <2>3. /\ console' \in Page /\ console'.of = console.of /\ console'.epoch = console.epoch
        /\ console'.filter = console.filter /\ console'.context = console.of
        /\ console.view \in Views
    BY <1>0, <2>1 DEF Page
  <2> QED BY <2>1, <2>2, <2>3, LoadViewKeeps
<1>2. ASSUME NEW view \in Views, ClickView(d, view)  PROVE ConsoleInvariant'
  <2>1. /\ desks[d].at = "rest" /\ LoadView(d, view) /\ console.visible
        /\ console' = [console EXCEPT !.view = view]
        /\ UNCHANGED <<policies, decided, saves, troubles>>
    BY <1>2, RestIsDesk DEF ClickView, Clicks, Free
  <2>2. /\ console' \in Page /\ console'.of = console.of /\ console'.epoch = console.epoch
        /\ console'.filter = console.filter /\ console'.context = console.context
    BY <1>0, <2>1 DEF Page
  <2>3. console.of \in Firms /\ console.context = console.of
    BY <1>0, <2>1 DEF PageOwn
  <2> QED BY <2>1, <2>2, <2>3, LoadViewKeeps
<1> QED BY <1>1, <1>2

LEMMA ActivateKeeps ==
    ASSUME ConsoleInvariant, NEW d \in Desks, NEW firm \in Firms, Activate(d, firm)
    PROVE  ConsoleInvariant'
PROOF
<1> DEFINE r == [AtRest EXCEPT !.at = "context", !.of = firm, !.epoch = console.epoch + 1]
<1>0. /\ ConsoleTyped /\ PageOwn /\ DecidedShown /\ TrailInOrder /\ FormInStep /\ ListInStep
      /\ desks \in [Desks -> Desk] /\ console \in Page /\ shown \in Part
      /\ console.epoch \in Nat /\ shown.form \in [of : Nones, epoch : Nat, value : Nat]
      /\ \A c \in Desks : InLine(c)
  BY DEF ConsoleInvariant, ConsoleTyped, Page, Part
<1>1. /\ UNCHANGED <<policies, decided, saves, doubts, troubles>>
      /\ desks[d] = AtRest /\ ~Modal /\ shown' = Cleared(shown.form)
      /\ console' = [console EXCEPT !.of = firm, !.epoch = console.epoch + 1,
                                    !.context = NoFirm, !.visible = FALSE]
      /\ desks' = [c \in Desks |->
           IF c = d THEN r
           ELSE IF Underway(c) THEN [desks[c] EXCEPT !.answer = "aborted"] ELSE desks[c]]
  BY DEF Activate, Free
<1>2. /\ r \in Desk /\ r.at = "context" /\ r.of = firm /\ r.epoch = console.epoch + 1
      /\ r.answer = "none"
  <2>1. firm \in Nones /\ "context" \in Points /\ console.epoch + 1 \in Nat
    BY <1>0 DEF Nones, Points
  <2> QED BY <2>1, RestIsDesk DEF Desk
<1> HIDE DEF r
<1>3. /\ desks'[d] = r /\ desks' \in [Desks -> Desk]
      /\ \A c \in Desks \ {d} :
           /\ desks'[c].at = desks[c].at /\ desks'[c].of = desks[c].of
           /\ desks'[c].epoch = desks[c].epoch /\ desks'[c].item = desks[c].item
           /\ desks'[c].from = desks[c].from
           /\ IF Underway(c) THEN desks'[c].answer = "aborted"
              ELSE desks'[c].answer = desks[c].answer
  BY <1>0, <1>1, <1>2 DEF Desk
<1>4. /\ console' \in Page /\ console'.of = firm /\ console'.epoch = console.epoch + 1
      /\ ~console'.visible
  <2>1. firm \in Nones /\ NoFirm \in Nones /\ console.epoch + 1 \in Nat
    BY <1>0 DEF Nones
  <2>2. console' \in Page
    BY <2>1, <1>0, <1>1 DEF Page
  <2>3. console'.of = firm /\ console'.epoch = console.epoch + 1 /\ ~console'.visible
    BY <1>0, <1>1 DEF Page
  <2> QED BY <2>2, <2>3
<1>5. /\ shown'.overview = NoFirm /\ shown'.members = NoFirm /\ shown'.reviews = NoFirm
      /\ shown'.requests = NoList /\ shown'.detail = NoCase /\ shown'.selected = NoCase
      /\ shown'.events = <<>> /\ shown'.cursor = NoCursor /\ shown'.form = shown.form
  BY <1>1 DEF Cleared
<1>6. NoCase[1] = NoFirm /\ NoCase \in ItemKept /\ NoList \in [of : Nones, filter : Filters]
        /\ NoFirm \in Nones /\ NoCursor \in 0..LastPage
        /\ <<>> \in Seq([of : Nones, page : 0..LastPage])
  BY ConsoleAssumption DEF NoCase, ItemKept, Nones, NoList, Filters, NoCursor
<1>7. shown' \in Part
  BY <1>0, <1>1, <1>6 DEF Part, Cleared
<1>8. ConsoleTyped'
  BY <1>0, <1>1, <1>3, <1>4, <1>7 DEF ConsoleTyped
<1>9. \A c \in Desks \ {d} : desks'[c].epoch \in Nat /\ desks'[c].epoch < console'.epoch
  <2>1. \A c \in Desks : desks[c].epoch \in Nat /\ desks[c].epoch <= console.epoch
    BY <1>0 DEF InLine, Desk
  <2>2. \A n \in Nat : n <= console.epoch => n < console.epoch + 1
    BY <1>0
  <2> QED BY <2>1, <2>2, <1>3, <1>4
<1>10. ASSUME NEW c \in Desks  PROVE InLine(c)'
  <2>1. CASE c = d
    BY <2>1, <1>0, <1>2, <1>3, <1>4 DEF InLine
  <2>2. CASE c # d
    <3>1. desks'[c].epoch \in Nat /\ desks'[c].epoch < console'.epoch /\ console'.epoch \in Nat
      BY <2>2, <1>4, <1>9 DEF Page
    <3>2. desks'[c].epoch <= console'.epoch /\ desks'[c].epoch # console'.epoch
      BY <3>1
    <3>3. desks[c].at \notin {"confirming", "approving"}
      BY <1>1 DEF Modal
    <3>4. desks'[c].at \notin {"rest", "confirming", "approving"} => desks'[c].answer # "none"
      BY <2>2, <1>3 DEF Underway
    <3>5. /\ desks'[c].at = "detail" => desks'[c].item[1] = desks'[c].of
          /\ desks'[c].at \in {"context", "saving"} => desks'[c].of \in Firms
      BY <2>2, <1>0, <1>3 DEF InLine
    <3> QED BY <2>2, <3>1, <3>2, <3>3, <3>4, <3>5, <1>3 DEF InLine
  <2> QED BY <2>1, <2>2
<1>11. shown'.form.epoch <= console'.epoch /\ shown'.form.epoch # console'.epoch
  <2>1. shown.form.epoch \in Nat /\ shown.form.epoch <= console.epoch
    BY <1>0 DEF PageOwn
  <2> QED BY <2>1, <1>0, <1>4, <1>5
<1>12. PageOwn'
  <2>1. DOMAIN <<>> = {}
    OBVIOUS
  <2> QED BY <2>1, <1>0, <1>1, <1>4, <1>5, <1>6, <1>11 DEF PageOwn, SavedOwn
<1>13. \A c \in Desks : desks'[c].at # "context" => ~Current(c)' /\ desks'[c].at = desks[c].at
  BY <1>2, <1>3, <1>9 DEF Current
<1>14. TrailInOrder'
  <2>1. DOMAIN <<>> = {}
    OBVIOUS
  <2> QED BY <2>1, <1>0, <1>1, <1>5, <1>13 DEF TrailInOrder
<1>15. FormInStep'
  BY <1>0, <1>1, <1>11, <1>13 DEF FormInStep
<1>16. ListInStep'
  <2>1. "context" \notin Listing
    BY DEF Listing
  <2> QED BY <2>1, <1>0, <1>1, <1>5, <1>13 DEF ListInStep
<1>17. CaseInStep'
  <2>1. \A c \in Desks : desks'[c].at # "confirming"
    BY <1>1, <1>2, <1>13 DEF Modal
  <2> QED BY <2>1, <1>5, <1>13 DEF CaseInStep
<1>18. DecidedShown'
  BY <1>0, <1>1 DEF DecidedShown
<1> QED BY <1>8, <1>10, <1>12, <1>14, <1>15, <1>16, <1>17, <1>18 DEF ConsoleInvariant

----------------------------------------------------------------------------
(* The invariant holds, and the console is sound. *)

LEMMA ConsoleStarts == InitConsole => ConsoleInvariant
PROOF
<1> SUFFICES ASSUME InitConsole  PROVE ConsoleInvariant
  OBVIOUS
<1>1. /\ console = [of |-> NoFirm, epoch |-> 0, context |-> NoFirm, visible |-> FALSE,
                    view |-> "overview", filter |-> "any"]
      /\ shown = Cleared(NoForm) /\ desks = [d \in Desks |-> AtRest]
      /\ policies = [f \in Firms |-> 0] /\ decided = {} /\ saves = {} /\ troubles = 0
  BY DEF InitConsole
<1>2. console \in Page /\ console.of \notin Firms /\ ~console.visible /\ console.epoch = 0
        /\ console.filter = "any"
  BY <1>1, ConsoleAssumption DEF Page, Nones, Views, Filters
<1>3. /\ NoForm \in [of : Nones, epoch : Nat, value : Nat] /\ NoForm.epoch = 0
      /\ NoCase \in ItemKept /\ NoList \in [of : Nones, filter : Filters]
      /\ NoFirm \in Nones /\ NoCursor \in 0..LastPage
      /\ <<>> \in Seq([of : Nones, page : 0..LastPage]) /\ DOMAIN <<>> = {}
  BY ConsoleAssumption DEF NoCase, ItemKept, Nones, NoList, Filters, NoCursor, NoForm
<1>4. /\ shown \in Part /\ shown.events = <<>> /\ shown.cursor = NoCursor
      /\ shown.form.epoch = 0
  BY <1>1, <1>3 DEF Part, Cleared
<1>5. ConsoleTyped
  BY <1>1, <1>2, <1>4, RestIsDesk, FS_EmptySet DEF ConsoleTyped
<1>6. \A d \in Desks : desks[d].at = "rest" /\ desks[d] = AtRest
  BY <1>1, RestIsDesk
<1>7. \A d \in Desks : InLine(d)
  BY <1>2, <1>6, RestIsDesk DEF InLine
<1>8. PageOwn
  BY <1>1, <1>2, <1>4 DEF PageOwn, SavedOwn
<1>9. TrailInOrder /\ FormInStep
  BY <1>2, <1>3, <1>4, <1>6 DEF TrailInOrder, FormInStep
<1>10. ListInStep /\ CaseInStep /\ DecidedShown
  BY <1>1, <1>2, <1>6 DEF ListInStep, CaseInStep, DecidedShown, Listing
<1> QED BY <1>5, <1>7, <1>8, <1>9, <1>10 DEF ConsoleInvariant

LEMMA ConsoleSteps ==
    ASSUME ConsoleInvariant, [NextConsole]_consoleVars
    PROVE  ConsoleInvariant'
PROOF
<1>1. CASE UNCHANGED consoleVars
  <2>1. UNCHANGED <<console, shown, desks, policies, decided, saves, doubts, troubles>>
    BY <1>1 DEF consoleVars
  <2>2. ConsoleTyped' /\ (\A d \in Desks : InLine(d)') /\ PageOwn'
    BY <2>1 DEF ConsoleInvariant, ConsoleTyped, InLine, PageOwn, SavedOwn
  <2>3. TrailInOrder' /\ FormInStep'
    BY <2>1 DEF ConsoleInvariant, TrailInOrder, FormInStep, Current, Fresh
  <2>4. ListInStep' /\ CaseInStep' /\ DecidedShown'
    BY <2>1 DEF ConsoleInvariant, ListInStep, CaseInStep, DecidedShown, Current, Fresh
  <2> QED BY <2>2, <2>3, <2>4 DEF ConsoleInvariant
<1>2. ASSUME NEW d \in Desks, NEW firm \in Firms, Activate(d, firm)
      PROVE  ConsoleInvariant'
  BY <1>2, ActivateKeeps
<1>3. ASSUME NEW d \in Desks,
             Answers(d) \/ Errs(d) \/ Expired(d) \/ Stale(d) \/ ServedLate(d)
      PROVE  ConsoleInvariant'
  BY <1>3, AnswersKeeps, ErrsKeeps, ExpiredKeeps, StaleKeeps
<1>4. ASSUME NEW d \in Desks, ContextAnswered(d) \/ \E view \in Views : ClickView(d, view)
      PROVE  ConsoleInvariant'
  BY <1>4, ViewKeeps
<1>5. ASSUME NEW d \in Desks, \/ OverviewAnswered(d) \/ OverviewShown(d) \/ MembersShown(d)
                              \/ ClickNext(d) \/ AuditShown(d)
      PROVE  ConsoleInvariant'
  BY <1>5, OverviewKeeps, OverviewShownKeeps, ClickNextKeeps, AuditShownKeeps
<1>6. ASSUME NEW d \in Desks, \/ PolicyShown(d) \/ SavePolicy(d) \/ PolicySaved(d)
                              \/ RequestsShown(d) \/ ClickRequest(d) \/ ConfirmRequest(d)
      PROVE  ConsoleInvariant'
  BY <1>6, PolicyShownKeeps, SavePolicyKeeps, PolicySavedKeeps, RequestsShownKeeps,
     ClickRequestKeeps, DecidingKeeps
<1>7. ASSUME NEW d \in Desks,
             RequestApproved(d) \/ \E filter \in Filters : ChangeFilter(d, filter)
      PROVE  ConsoleInvariant'
  BY <1>7, ListAskedKeeps
<1>8. ASSUME NEW d \in Desks, NEW case \in Cases, ClickCase(d, case)
      PROVE  ConsoleInvariant'
  BY <1>8, ClickCaseKeeps
<1>9. ASSUME NEW d \in Desks, \/ ReviewsShown(d) \/ DetailShown(d) \/ SubmitDecision(d)
                              \/ Confirm(d) \/ Decided(d)
      PROVE  ConsoleInvariant'
  BY <1>9, ReviewsShownKeeps, DetailShownKeeps, SubmitDecisionKeeps, DecidingKeeps
<1> QED BY <1>1, <1>2, <1>3, <1>4, <1>5, <1>6, <1>7, <1>8, <1>9 DEF NextConsole

LEMMA ConsoleHolds == ConsoleInvariant => ConsoleSound
PROOF
<1> SUFFICES ASSUME ConsoleInvariant  PROVE ConsoleSound
  OBVIOUS
<1>1. ShownOwn
  BY DEF ConsoleInvariant, PageOwn, ShownOwn, NoCase, NoList
<1>2. SavedOwn /\ EventsOnce
  BY DEF ConsoleInvariant, PageOwn, TrailInOrder, EventsOnce
<1>3. FormTold
  BY RestIsDesk DEF ConsoleInvariant, PageOwn, FormInStep, FormTold, Free
<1>4. RequestsTold
  BY RestIsDesk DEF ConsoleInvariant, PageOwn, ListInStep, RequestsTold, Free, Listing
<1> QED BY <1>1, <1>2, <1>3, <1>4 DEF ConsoleInvariant, ConsoleSound

\* However the requests of a page's handlers meet, fail, are aborted by a switch of
\* the organization or served after it, the page shows nothing of another
\* organization, posts a form only to the one it was loaded for, decides the case
\* that was seen, and at rest shows the policy, the list and the events of the
\* server, unless two loads of a part met or one failed.
THEOREM ConsoleIsSound == ConsoleSpec => []ConsoleSound
PROOF
<1>1. ConsoleSpec => []ConsoleInvariant
  BY ConsoleStarts, ConsoleSteps, PTL DEF ConsoleSpec
<1> QED BY <1>1, ConsoleHolds, PTL

----------------------------------------------------------------------------
(* The backfill *)

\* Where the statement of a table stands.
Position ==
    [template |-> 1, version |-> 2, concept |-> 3, work |-> 4, detail |-> 5, usage |-> 6,
     identity |-> 7, link |-> 8, trait |-> 9, memory |-> 10, item |-> 11]

\* What the statements give, said without their order.
IdentityOf(subject) == IF subject = Nobody THEN LegacyOwner ELSE subject
Given(table, subject) ==
    CASE table \in {"template", "version"} -> IF installed.builtin THEN Nobody ELSE LegacyOwner
      [] table = "concept" -> LegacyOwner
      [] table \in {"work", "detail"} -> owner[installed.work]
      [] table = "usage" -> IF installed.usage = Nobody THEN Nobody ELSE owner[installed.usage]
      [] table \in {"identity", "link", "trait", "item"} -> IdentityOf(subject)
      [] table = "memory" ->
            IF "identity" \in installed.named THEN IdentityOf(subject)
            ELSE IF installed.named \cap {"subject", "detail"} # {} THEN owner[installed.work]
            ELSE LegacyOwner

\* And what the first n of them have given.
Known(n, subject) ==
    [t \in Tables |-> IF Position[t] <= n THEN Given(t, subject) ELSE Nobody]

LEMMA CoalesceTwo ==
    ASSUME NEW a, NEW b
    PROVE  Coalesce(<<a, b>>) = IF a # Nobody THEN a ELSE b
<1> DEFINE options == <<a, b>>
           given == {i \in DOMAIN options : options[i] # Nobody}
<1>1. DOMAIN options = {1, 2} /\ options[1] = a /\ options[2] = b
  OBVIOUS
<1>2. given = {i \in {1, 2} : options[i] # Nobody}
  BY <1>1
<1>3. Coalesce(options) =
        IF given = {} THEN Nobody ELSE options[CHOOSE i \in given : \A j \in given : i <= j]
  BY DEF Coalesce
<1> HIDE DEF options
<1>4. CASE a # Nobody
  <2>1. 1 \in given /\ \A j \in given : 1 <= j
    BY <1>1, <1>2, <1>4
  <2>2. \A i \in given : (\A j \in given : i <= j) => i = 1
    BY <1>2, <2>1
  <2> HIDE DEF given
  <2>3. (CHOOSE i \in given : \A j \in given : i <= j) = 1
    BY <2>1, <2>2
  <2>4. QED
    BY <1>1, <1>3, <1>4, <2>1, <2>3 DEF options
<1>5. CASE a = Nobody /\ b # Nobody
  <2>1. given = {2}
    BY <1>1, <1>2, <1>5
  <2> HIDE DEF given
  <2>2. (CHOOSE i \in given : \A j \in given : i <= j) = 2
    BY <2>1
  <2>3. QED
    BY <1>1, <1>3, <1>5, <2>1, <2>2 DEF options
<1>6. CASE a = Nobody /\ b = Nobody
  <2>1. given = {}
    BY <1>1, <1>2, <1>6
  <2>2. QED
    BY <1>3, <1>6, <2>1 DEF options
<1>7. QED
  BY <1>4, <1>5, <1>6

LEMMA CoalesceFour ==
    ASSUME NEW a, NEW b, NEW c, NEW d, d # Nobody
    PROVE  Coalesce(<<a, b, c, d>>) =
             IF a # Nobody THEN a ELSE IF b # Nobody THEN b ELSE IF c # Nobody THEN c ELSE d
<1> DEFINE options == <<a, b, c, d>>
           given == {i \in DOMAIN options : options[i] # Nobody}
<1>1. /\ DOMAIN options = {1, 2, 3, 4}
      /\ options[1] = a /\ options[2] = b /\ options[3] = c /\ options[4] = d
  OBVIOUS
<1>2. given = {i \in {1, 2, 3, 4} : options[i] # Nobody} /\ 4 \in given
  BY <1>1
<1>3. Coalesce(options) = options[CHOOSE i \in given : \A j \in given : i <= j]
  BY <1>2 DEF Coalesce
<1> HIDE DEF options
<1>4. ASSUME NEW k \in given, \A j \in given : k <= j
      PROVE  Coalesce(options) = options[k]
  <2>1. \A i \in given : (\A j \in given : i <= j) => i = k
    <3>1. given \subseteq Int
      BY <1>2
    <3>2. QED
      BY <1>4, <3>1
  <2> HIDE DEF given
  <2>2. (CHOOSE i \in given : \A j \in given : i <= j) = k
    BY <1>4, <2>1
  <2>3. QED
    BY <1>3, <2>2
<1>5. CASE a # Nobody
  <2>1. 1 \in given /\ \A j \in given : 1 <= j
    BY <1>1, <1>2, <1>5
  <2>2. QED
    BY <1>1, <1>4, <1>5, <2>1 DEF options
<1>6. CASE a = Nobody /\ b # Nobody
  <2>1. 2 \in given /\ \A j \in given : 2 <= j
    BY <1>1, <1>2, <1>6
  <2>2. QED
    BY <1>1, <1>4, <1>6, <2>1 DEF options
<1>7. CASE a = Nobody /\ b = Nobody /\ c # Nobody
  <2>1. 3 \in given /\ \A j \in given : 3 <= j
    BY <1>1, <1>2, <1>7
  <2>2. QED
    BY <1>1, <1>4, <1>7, <2>1 DEF options
<1>8. CASE a = Nobody /\ b = Nobody /\ c = Nobody
  <2>1. 4 \in given /\ \A j \in given : 4 <= j
    BY <1>1, <1>2, <1>8
  <2>2. QED
    BY <1>1, <1>4, <1>8, <2>1 DEF options
<1>9. QED
  BY <1>5, <1>6, <1>7, <1>8

\* A statement gives its table what the ones before it let it inherit.
LEMMA StatementGives ==
    ASSUME OwnershipAssumption, installed \in Installations, owner \in [Projects -> Organizations],
           NEW subject, NEW n \in 1..11, NEW table, table = Statements[n], NEW org,
           org = Known(n - 1, subject)
    PROVE  Inherited(table, org, subject) = Given(table, subject)
<1>1. LegacyOwner # Nobody /\ owner[installed.work] # Nobody /\ IdentityOf(subject) # Nobody
  BY DEF OwnershipAssumption, Installations, IdentityOf
<1>2. \A t \in Tables : org[t] = IF Position[t] <= n - 1 THEN Given(t, subject) ELSE Nobody
  BY DEF Known
<1>3. CASE n \in {1, 2, 3}
  <2>1. n = 2 => org["template"] = Given("template", subject)
    BY <1>2, <1>3 DEF Tables, Position
  <2>2. QED
    BY <1>3, <2>1 DEF Inherited, Given, Statements
<1>4. CASE n \in {4, 5, 6}
  <2>1. n = 5 => org["work"] = Given("work", subject)
    BY <1>2, <1>4 DEF Tables, Position
  <2>2. QED
    BY <1>4, <2>1 DEF Inherited, Given, Statements
<1>5. CASE n \in {7, 8, 9, 11}
  <2>1. /\ n \in {8, 9} => org["identity"] = Given("identity", subject)
        /\ n = 11 => org["trait"] = Given("trait", subject)
    BY <1>2, <1>5 DEF Tables, Position
  <2>2. Coalesce(<<subject, LegacyOwner>>) = IdentityOf(subject)
    BY CoalesceTwo DEF IdentityOf
  <2>3. QED
    BY <1>5, <2>1, <2>2 DEF Inherited, Given, Statements
<1>6. CASE n = 10
  <2>1. org["identity"] = IdentityOf(subject) /\ org["detail"] = owner[installed.work]
    BY <1>2, <1>6 DEF Tables, Position, Given
  <2> DEFINE a == IF "identity" \in installed.named THEN org["identity"] ELSE Nobody
             b == IF "subject" \in installed.named THEN owner[installed.work] ELSE Nobody
             c == IF "detail" \in installed.named THEN org["detail"] ELSE Nobody
  <2>2. Coalesce(<<a, b, c, LegacyOwner>>) =
          IF a # Nobody THEN a ELSE IF b # Nobody THEN b ELSE IF c # Nobody THEN c ELSE LegacyOwner
    BY <1>1, CoalesceFour
  <2>3. table = "memory"
    BY <1>6 DEF Statements
  <2>4. Inherited(table, org, subject) = Coalesce(<<a, b, c, LegacyOwner>>)
    BY <2>3 DEF Inherited
  <2>5. Given(table, subject) =
            IF "identity" \in installed.named THEN IdentityOf(subject)
            ELSE IF installed.named \cap {"subject", "detail"} # {} THEN owner[installed.work]
            ELSE LegacyOwner
    BY <2>3 DEF Given
  <2>6. QED
    BY <1>1, <2>1, <2>2, <2>4, <2>5
<1>7. QED
  BY <1>3, <1>4, <1>5, <1>6

LEMMA StatementsKnow ==
    ASSUME OwnershipAssumption, installed \in Installations, owner \in [Projects -> Organizations],
           NEW subject, NEW n \in 1..11
    PROVE  Updated(Known(n - 1, subject), Statements[n], subject) = Known(n, subject)
<1>1. PICK org, table : org = Known(n - 1, subject) /\ table = Statements[n]
  OBVIOUS
<1>2. table \in Tables /\ Position[table] = n
  BY <1>1 DEF Statements, Tables, Position
<1>3. \A t \in Tables : Position[t] \in Nat /\ (Position[t] = n => t = table)
  BY <1>1 DEF Statements, Tables, Position
<1>4. Inherited(table, org, subject) = Given(table, subject)
  BY <1>1, StatementGives
<1>5. org[table] = Nobody
  BY <1>1, <1>2 DEF Known
<1>6. Updated(org, table, subject) = [org EXCEPT ![table] = Given(table, subject)]
  BY <1>4, <1>5 DEF Updated
<1>7. \A t \in Tables : (IF t = table THEN Given(table, subject) ELSE org[t]) =
                        IF Position[t] <= n THEN Given(t, subject) ELSE Nobody
  <2>1. ASSUME NEW t \in Tables, t # table PROVE Position[t] <= n - 1 <=> Position[t] <= n
    BY <1>3, <2>1
  <2>2. QED
    BY <1>1, <1>2, <2>1 DEF Known
<1>8. QED
  BY <1>1, <1>2, <1>6, <1>7 DEF Known

\* The organizations after all of them, which no other function fits.
LEMMA AfterAll ==
    ASSUME OwnershipAssumption, installed \in Installations, owner \in [Projects -> Organizations],
           NEW subject
    PROVE  After(subject)[Len(Statements)] = [t \in Tables |-> Given(t, subject)]
<1> DEFINE body(org) == [n \in 0..Len(Statements) |->
                            IF n = 0 THEN [t \in Tables |-> Nobody]
                            ELSE Updated(org[n - 1], Statements[n], subject)]
           after == CHOOSE org : org = body(org)
           known == [n \in 0..11 |-> Known(n, subject)]
<1>1. After(subject) = after
  BY DEF After
<1>2. Len(Statements) = 11
  BY DEF Statements
<1>3. /\ \A t \in Tables : Position[t] \in 1..11
      /\ Known(0, subject) = [t \in Tables |-> Nobody]
      /\ Known(11, subject) = [t \in Tables |-> Given(t, subject)]
  <2>1. \A t \in Tables : Position[t] \in 1..11
    BY DEF Tables, Position
  <2>2. \A t \in Tables : ~(Position[t] <= 0) /\ Position[t] <= 11
    BY <2>1
  <2>3. QED
    BY <2>1, <2>2 DEF Known
<1>4. \A n \in 1..11 : Updated(Known(n - 1, subject), Statements[n], subject) = Known(n, subject)
  BY StatementsKnow
<1>5. known = body(known)
  <2>1. \A n \in 1..11 : n - 1 \in 0..11 /\ known[n - 1] = Known(n - 1, subject)
    OBVIOUS
  <2>2. \A n \in 0..11 : known[n] = IF n = 0 THEN [t \in Tables |-> Nobody]
                                    ELSE Updated(known[n - 1], Statements[n], subject)
    <3>1. ASSUME NEW n \in 1..11
          PROVE  known[n] = Updated(known[n - 1], Statements[n], subject)
      BY <1>4, <2>1
    <3>2. known[0] = [t \in Tables |-> Nobody]
      BY <1>3
    <3> HIDE DEF known
    <3>3. \A n \in 0..11 : n = 0 \/ n \in 1..11
      OBVIOUS
    <3>4. QED
      BY <3>1, <3>2, <3>3
  <2>3. DOMAIN known = 0..11 /\ known = [n \in 0..11 |-> known[n]]
    OBVIOUS
  <2> HIDE DEF known
  <2>4. QED
    BY <1>2, <2>2, <2>3
<1> HIDE DEF body
<1>6. after = body(after)
  BY <1>5
<1> HIDE DEF after
<1>7. /\ after[0] = [t \in Tables |-> Nobody]
      /\ \A n \in 1..11 : after[n] = Updated(after[n - 1], Statements[n], subject)
  <2>1. \A n \in 0..11 : body(after)[n] = IF n = 0 THEN [t \in Tables |-> Nobody]
                                          ELSE Updated(after[n - 1], Statements[n], subject)
    BY <1>2 DEF body
  <2>2. QED
    BY <1>6, <2>1
<1>8. \A n \in 1..11 : after[n - 1] = Known(n - 1, subject) => after[n] = Known(n, subject)
  BY <1>4, <1>7
<1>9. after[11] = Known(11, subject)
  <2> DEFINE fits(n) == after[n] = Known(n, subject)
  <2>1. fits(0)
    BY <1>3, <1>7
  <2>2. \A n \in 1..11 : fits(n - 1) => fits(n)
    BY <1>8
  <2> HIDE DEF fits
  <2>3. fits(1) /\ fits(2) /\ fits(3) /\ fits(4)
    BY <2>1, <2>2
  <2>4. fits(5) /\ fits(6) /\ fits(7) /\ fits(8)
    BY <2>2, <2>3
  <2>5. fits(11)
    BY <2>2, <2>4
  <2>6. QED
    BY <2>5 DEF fits
<1>10. QED
  BY <1>1, <1>2, <1>3, <1>9

----------------------------------------------------------------------------
(* The upgrade *)

\* Whose subject a shared identity is taken from.
Subjects == IF installed.linked = {} THEN {Nobody} ELSE {owner[p] : p \in installed.linked}

\* What the backfill leaves for the constraints to find.
BackfillTells ==
    /\ owner["template"] = owner["version"]
    /\ owner["template"] = IF installed.builtin THEN Nobody ELSE LegacyOwner
    /\ \A t \in Required \cup {"concept"} : owner[t] \in Organizations
    /\ owner["work"] = owner[installed.work] /\ owner["detail"] = owner["work"]
    /\ \E subject \in Subjects : owner["identity"] = IdentityOf(subject)
    /\ \A t \in {"link", "trait", "item"} : owner[t] = owner["identity"]
    /\ "identity" \in installed.named => owner["memory"] = owner["identity"]

OwnershipInvariant ==
    /\ installed \in Installations /\ revision \in {"0009", "0010", "0011", "failed"}
    /\ \A p \in Projects : owner[p] \in Organizations
    /\ revision = "0009" => owner \in [Projects -> Organizations]
    /\ revision # "0009" => BackfillTells
    /\ revision = "failed" => Torn
    /\ revision = "0011" => \A pair \in Keyed : owner[pair[1]] = owner[pair[2]]

LEMMA BackfillGives ==
    ASSUME OwnershipAssumption, OwnershipInvariant, Backfill
    PROVE  OwnershipInvariant'
<1>1. /\ installed \in Installations /\ owner \in [Projects -> Organizations]
      /\ revision' = "0010" /\ installed' = installed
  BY DEF OwnershipInvariant, Backfill
<1>2. PICK subject \in Subjects :
         owner' = [r \in Tables \cup Projects |->
                     IF r \in Projects THEN owner[r]
                     ELSE IF r \in Required /\ After(subject)[Len(Statements)][r] = Nobody
                     THEN LegacyOwner ELSE After(subject)[Len(Statements)][r]]
  BY DEF Backfill, Subjects
<1>3. /\ \A p \in Projects : owner'[p] = owner[p]
      /\ \A t \in Tables : owner'[t] = IF t \in Required /\ Given(t, subject) = Nobody
                                       THEN LegacyOwner ELSE Given(t, subject)
  <2>1. After(subject)[Len(Statements)] = [t \in Tables |-> Given(t, subject)]
    BY <1>1, AfterAll
  <2>2. QED
    BY <1>2, <2>1 DEF OwnershipAssumption
<1>4. /\ installed.work \in Projects /\ installed.usage \in Projects \cup {Nobody}
      /\ installed.linked \in SUBSET Projects
  BY <1>1 DEF Installations
<1>5. /\ owner[installed.work] \in Organizations /\ LegacyOwner \in Organizations
      /\ Nobody \notin Organizations /\ IdentityOf(subject) \in Organizations
      /\ installed.usage # Nobody => owner[installed.usage] \in Organizations
  BY <1>1, <1>4 DEF OwnershipAssumption, IdentityOf, Subjects
<1>6. Subjects' = Subjects
  BY <1>1, <1>3, <1>4 DEF Subjects
<1>7. /\ owner'["template"] = (IF installed.builtin THEN Nobody ELSE LegacyOwner)
      /\ owner'["version"] = (IF installed.builtin THEN Nobody ELSE LegacyOwner)
      /\ owner'["concept"] = LegacyOwner
  BY <1>3 DEF Tables, Required, Given
<1>8. /\ owner'["work"] = owner[installed.work] /\ owner'["detail"] = owner[installed.work]
      /\ owner'["usage"] \in Organizations
  BY <1>3, <1>5 DEF Tables, Required, Given
<1>9. /\ owner'["identity"] = IdentityOf(subject) /\ owner'["link"] = IdentityOf(subject)
      /\ owner'["trait"] = IdentityOf(subject) /\ owner'["item"] = IdentityOf(subject)
  BY <1>3, <1>5 DEF Tables, Required, Given
<1>10. /\ owner'["memory"] \in Organizations
       /\ "identity" \in installed.named => owner'["memory"] = IdentityOf(subject)
  BY <1>3, <1>5 DEF Tables, Required, Given
<1>11. \A t \in Required \cup {"concept"} : owner'[t] \in Organizations
  BY <1>5, <1>7, <1>8, <1>9, <1>10 DEF Required
<1>12. IdentityOf(subject)' = IdentityOf(subject)
  BY DEF IdentityOf
<1>13. owner'[installed'.work] = owner[installed.work]
  BY <1>1, <1>3, <1>4
<1>14. BackfillTells'
  <2>1. \E s \in Subjects' : owner'["identity"] = IdentityOf(s)
    BY <1>6, <1>9
  <2>2. QED
    BY <1>1, <1>7, <1>8, <1>9, <1>10, <1>11, <1>13, <2>1 DEF BackfillTells, IdentityOf
<1>15. QED
  BY <1>1, <1>3, <1>14 DEF OwnershipInvariant

LEMMA EnforceFinds ==
    ASSUME OwnershipAssumption, OwnershipInvariant, Enforce
    PROVE  OwnershipInvariant'
<1>1. /\ revision = "0010" /\ UNCHANGED <<installed, owner>> /\ BackfillTells
      /\ revision' = IF /\ \A r \in Required : owner[r] # Nobody
                        /\ \A pair \in Keyed : owner[pair[1]] = owner[pair[2]]
                     THEN "0011" ELSE "failed"
  BY DEF OwnershipInvariant, Enforce
<1>2. \A r \in Required : owner[r] # Nobody
  BY <1>1 DEF BackfillTells, OwnershipAssumption
<1>3. ASSUME NEW pair \in Keyed, owner[pair[1]] # owner[pair[2]]
      PROVE  Torn
  <2>1. PICK p \in installed.linked : owner["link"] # owner[p]
    BY <1>1, <1>3 DEF Keyed, BackfillTells
  <2>2. PICK subject \in Subjects : owner["link"] = IdentityOf(subject)
    BY <1>1 DEF BackfillTells
  <2>3. /\ installed.linked \in SUBSET Projects /\ \A q \in Projects : owner[q] \in Organizations
    BY DEF OwnershipInvariant, Installations
  <2>4. PICK q \in installed.linked : owner["link"] = owner[q]
    BY <2>1, <2>2, <2>3 DEF Subjects, IdentityOf, OwnershipAssumption
  <2> DEFINE all == {owner[r] : r \in installed.linked}
  <2>5. IsFiniteSet(all)
    <3>1. IsFiniteSet(installed.linked)
      BY <2>3, FS_Subset DEF OwnershipAssumption
    <3> DEFINE f == [r \in installed.linked |-> owner[r]]
    <3>2. f \in Surjection(installed.linked, all)
      BY DEF Surjection
    <3>3. QED
      BY <3>1, <3>2, FS_Surjection
  <2>6. {owner[p], owner[q]} \in SUBSET all /\ owner[p] # owner[q]
    BY <2>1, <2>4
  <2>7. Cardinality({owner[p], owner[q]}) = 2
    <3>1. IsFiniteSet({owner[p]}) /\ Cardinality({owner[p]}) = 1
      BY FS_Singleton
    <3>2. owner[q] \notin {owner[p]}
      BY <2>6
    <3>3. Cardinality({owner[p]} \cup {owner[q]}) = Cardinality({owner[p]}) + 1
      BY <3>1, <3>2, FS_AddElement
    <3>4. {owner[p]} \cup {owner[q]} = {owner[p], owner[q]}
      OBVIOUS
    <3>5. QED
      BY <3>1, <3>3, <3>4
  <2>8. Cardinality({owner[p], owner[q]}) <= Cardinality(all) /\ Cardinality(all) \in Nat
    BY <2>5, <2>6, FS_Subset, FS_CardinalityType
  <2>9. QED
    BY <2>7, <2>8 DEF Torn
<1>4. /\ installed' = installed /\ owner' = owner
      /\ revision' = "0011" => \A pair \in Keyed : owner[pair[1]] = owner[pair[2]]
      /\ revision' = "failed" => Torn
      /\ revision' \in {"0011", "failed"}
  BY <1>1, <1>2, <1>3
<1>5. BackfillTells' = BackfillTells /\ Torn' = Torn /\ Keyed' = Keyed
  BY <1>4 DEF BackfillTells, Subjects, IdentityOf, Torn, Keyed
<1>6. QED
  BY <1>1, <1>4, <1>5 DEF OwnershipInvariant

LEMMA UpgradeKept ==
    ASSUME OwnershipAssumption, OwnershipInvariant, [NextOwnership]_ownershipVars
    PROVE  OwnershipInvariant'
<1>1. CASE UNCHANGED ownershipVars
  <2>1. revision' = revision /\ installed' = installed /\ owner' = owner
    BY <1>1 DEF ownershipVars
  <2>2. BackfillTells' = BackfillTells /\ Torn' = Torn /\ Keyed' = Keyed
    BY <2>1 DEF BackfillTells, Subjects, IdentityOf, Torn, Keyed
  <2>3. QED
    BY <2>1, <2>2 DEF OwnershipInvariant
<1>2. QED
  BY <1>1, BackfillGives, EnforceFinds DEF NextOwnership

\* The upgrade reaches its last revision from every database in which no identity is
\* shared by several organizations, whatever else refers to what, and every row then
\* belongs to the organization of all it is below.
THEOREM OwnersAreInherited == SpecOwnership => []OwnershipInherited
<1>1. InitOwnership => OwnershipInvariant
  BY DEF InitOwnership, OwnershipInvariant
<1>2. OwnershipInvariant /\ [NextOwnership]_ownershipVars => OwnershipInvariant'
  BY OwnershipAssumption, UpgradeKept
<1>3. OwnershipInvariant => OwnershipInherited
  BY OwnershipAssumption DEF OwnershipInvariant, OwnershipInherited, BackfillTells, OwnershipAssumption,
     Installations
<1>4. QED
  BY <1>1, <1>2, <1>3, PTL DEF SpecOwnership
=============================================================================
