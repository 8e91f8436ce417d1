--------------------------- MODULE IdentityProofs ---------------------------
(***************************************************************************)
(* Proofs about who is who: the sessions a sign-in earns (SignIn), the     *)
(* keys its tokens are verified with (SigningKeys), and the memberships    *)
(* of an organization (Membership).                                        *)
(***************************************************************************)
EXTENDS SignIn, SigningKeys, Membership, FiniteSetTheorems, TLAPS

----------------------------------------------------------------------------
(* Sign-in: a login transaction and a code pass from the callback that      *)
(* consumed them to the session it opens.  The invariant follows both:      *)
(* whoever has them now has them alone.                                     *)


Code == [state : {"issued", "used"}, login : Logins, person : People]
Loaded == [pc : {"loaded"}, code : Codes, seen : {"pending"}]
Consumed == [pc : {"consumed"}, code : Codes]
Identified == [pc : {"identified", "resolved"}, code : Codes, tokenExpires : Nat]
Browser == [state : {"open", "revoked"}, person : People, login : Logins, code : Codes,
            tokenExpires : Nat, expires : Nat, seen : Nat]

Rows ==
    /\ clock \in 0..LastTime
    /\ accounts \in [People -> {"none", "pending", "active", "suspended"}]
    /\ logins \in [Logins -> [state : {"none", "pending", "consumed"}, expires : Nat]]
    /\ codes \in [Codes -> {NoCode} \cup Code]
    /\ callbacks \in [Callbacks -> {Free} \cup Loaded \cup Consumed \cup Identified]
    /\ browser \in [Sessions -> {NoBrowser} \cup Browser]
    /\ raced \subseteq Logins
    /\ \A touch \in touches : touch[1] \in Sessions /\ browser[touch[1]] \in Browser

\* Callbacks that have consumed their login, and those that have used their code.
Past(call) == call.pc \in {"consumed", "identified", "resolved"}
Holds(call) == call.pc \in {"identified", "resolved"}

\* What a callback or a session has came from a code the provider issued, which
\* it used, for a login that was consumed.
Sources ==
    /\ \A c \in Callbacks :
         /\ callbacks[c].pc # "free" => codes[callbacks[c].code] \in Code
         /\ Holds(callbacks[c]) => codes[callbacks[c].code].state = "used"
         /\ Past(callbacks[c]) => logins[codes[callbacks[c].code].login].state = "consumed"
    /\ \A s \in Opened :
         LET code == codes[browser[s].code] IN
         /\ code \in Code /\ code.state = "used"
         /\ browser[s].login = code.login /\ browser[s].person = code.person
         /\ logins[code.login].state = "consumed"

CodesApart ==
    /\ \A c, d \in Callbacks : c # d /\ Holds(callbacks[c]) /\ Holds(callbacks[d])
         => callbacks[c].code # callbacks[d].code
    /\ \A c \in Callbacks, s \in Opened : Holds(callbacks[c])
         => callbacks[c].code # browser[s].code
    /\ \A s, t \in Opened : s # t => browser[s].code # browser[t].code

LoginOf(c) == codes[callbacks[c].code].login

LoginsApart ==
    /\ \A c, d \in Callbacks : c # d /\ Past(callbacks[c]) /\ Past(callbacks[d])
         => LoginOf(c) # LoginOf(d) \/ LoginOf(c) \in raced
    /\ \A c \in Callbacks, s \in Opened : Past(callbacks[c])
         => LoginOf(c) # browser[s].login \/ browser[s].login \in raced
    /\ \A s, t \in Opened : s # t
         => browser[s].login # browser[t].login \/ browser[s].login \in raced

Lives ==
    \A s \in Opened : /\ browser[s].expires <= browser[s].tokenExpires
                      /\ browser[s].expires <= browser[s].seen + SessionLife
                      /\ browser[s].seen <= clock

Provisioned ==
    provisioning = "existing_only" =>
        /\ \A p \in People : accounts[p] # "none" => p \in Known
        /\ \A c \in Callbacks : callbacks[c].pc = "resolved"
             => codes[callbacks[c].code].person \in Known
        /\ \A s \in Opened : browser[s].person \in Known

SignedIn ==
    Rows /\ Sources /\ CodesApart /\ LoginsApart /\ Lives /\ Provisioned

----------------------------------------------------------------------------
(* A code keeps its login and its person, a login stays consumed, and a    *)
(* callback or a session keeps what it has.                                *)

CodesKept ==
    \A k \in Codes : codes[k] \in Code =>
        /\ codes'[k] \in Code
        /\ codes'[k].login = codes[k].login /\ codes'[k].person = codes[k].person
        /\ codes[k].state = "used" => codes'[k].state = "used"

LoginsKept ==
    /\ \A l \in Logins : logins[l].state = "consumed" => logins'[l].state = "consumed"
    /\ raced \subseteq raced'

PastKept ==
    \A c \in Callbacks :
        /\ Past(callbacks'[c]) =>
             Past(callbacks[c]) /\ callbacks'[c].code = callbacks[c].code
        /\ callbacks'[c].pc # "free" => codes'[callbacks'[c].code] \in Code

HoldsKept == \A c \in Callbacks : Holds(callbacks'[c]) => Holds(callbacks[c])

CallbacksKept == PastKept /\ HoldsKept

SessionsKept ==
    \A s \in Opened' : /\ s \in Opened
                       /\ browser'[s].code = browser[s].code
                       /\ browser'[s].login = browser[s].login
                       /\ browser'[s].person = browser[s].person

\* The types of what callbacks and sessions refer to.
LEMMA Referred ==
    ASSUME Rows
    PROVE  /\ \A c \in Callbacks : callbacks[c].pc # "free" => callbacks[c].code \in Codes
           /\ \A c \in Callbacks : Past(callbacks[c]) => callbacks[c].pc # "free"
           /\ \A c \in Callbacks : Holds(callbacks[c]) => Past(callbacks[c])
           /\ \A s \in Opened : browser[s] \in Browser
           /\ \A k \in Codes : codes[k] \in Code => codes[k].login \in Logins
BY DEF Rows, Past, Holds, Opened, Free, Loaded, Consumed, Identified, Code

\* Whoever has a code or a login has it alone still, after a step that gives
\* neither to anyone else.
LEMMA SourcesStay ==
    ASSUME Rows, Rows', Sources, CodesKept, LoginsKept, CallbacksKept, SessionsKept
    PROVE  Sources'
<1> USE Referred
<1>1. ASSUME NEW c \in Callbacks
      PROVE  /\ callbacks'[c].pc # "free" => codes'[callbacks'[c].code] \in Code
             /\ Holds(callbacks'[c]) => codes'[callbacks'[c].code].state = "used"
             /\ Past(callbacks'[c])
                  => logins'[codes'[callbacks'[c].code].login].state = "consumed"
  <2>1. callbacks'[c].pc # "free" => codes'[callbacks'[c].code] \in Code
    BY DEF CallbacksKept, PastKept, HoldsKept
  <2>2. CASE Past(callbacks'[c])
    <3>1. Past(callbacks[c]) /\ callbacks'[c].code = callbacks[c].code
      BY <2>2 DEF CallbacksKept, PastKept, HoldsKept
    <3>2. callbacks[c].code \in Codes /\ codes[callbacks[c].code] \in Code
      BY <3>1 DEF Sources
    <3>3. codes'[callbacks'[c].code].login = codes[callbacks[c].code].login
      BY <3>1, <3>2 DEF CodesKept
    <3>4. logins'[codes'[callbacks'[c].code].login].state = "consumed"
      BY <3>1, <3>2, <3>3 DEF Sources, LoginsKept
    <3>5. Holds(callbacks'[c]) => codes'[callbacks'[c].code].state = "used"
      BY <3>1, <3>2 DEF Sources, CodesKept, CallbacksKept, PastKept, HoldsKept
    <3> QED BY <2>1, <3>4, <3>5
  <2>3. CASE ~ Past(callbacks'[c])
    BY <2>1, <2>3 DEF Past, Holds
  <2> QED BY <2>2, <2>3
<1>2. ASSUME NEW s \in Opened'
      PROVE  LET code == codes'[browser'[s].code] IN
             /\ code \in Code /\ code.state = "used"
             /\ browser'[s].login = code.login /\ browser'[s].person = code.person
             /\ logins'[code.login].state = "consumed"
  <2>1. s \in Opened /\ browser'[s].code = browser[s].code
        /\ browser'[s].login = browser[s].login /\ browser'[s].person = browser[s].person
    BY DEF SessionsKept
  <2>2. browser[s].code \in Codes /\ codes[browser[s].code] \in Code
    BY <2>1 DEF Sources, Browser
  <2>3. codes[browser[s].code].login \in Logins
    BY <2>2
  <2> QED BY <2>1, <2>2, <2>3 DEF Sources, CodesKept, LoginsKept
<1> QED BY <1>1, <1>2 DEF Sources

LEMMA LoginsStay ==
    ASSUME Rows, Rows', Sources, LoginsApart, CodesKept, LoginsKept, PastKept, SessionsKept
    PROVE  LoginsApart'
<1> USE Referred
<1>1. ASSUME NEW c \in Callbacks, Past(callbacks'[c])
      PROVE  Past(callbacks[c]) /\ LoginOf(c)' = LoginOf(c)
  <2>1. Past(callbacks[c]) /\ callbacks'[c].code = callbacks[c].code
    BY <1>1 DEF PastKept
  <2>2. callbacks[c].code \in Codes /\ codes[callbacks[c].code] \in Code
    BY <2>1 DEF Sources
  <2> QED BY <2>1, <2>2 DEF CodesKept, LoginOf
<1>2. \A c, d \in Callbacks : c # d /\ Past(callbacks'[c]) /\ Past(callbacks'[d])
        => LoginOf(c)' # LoginOf(d)' \/ LoginOf(c)' \in raced'
  BY <1>1 DEF LoginsApart, LoginsKept
<1>3. \A c \in Callbacks, s \in Opened' : Past(callbacks'[c])
        => LoginOf(c)' # browser'[s].login \/ browser'[s].login \in raced'
  BY <1>1 DEF LoginsApart, LoginsKept, SessionsKept
<1>4. \A s, t \in Opened' : s # t
        => browser'[s].login # browser'[t].login \/ browser'[s].login \in raced'
  BY DEF LoginsApart, LoginsKept, SessionsKept
<1> QED BY <1>2, <1>3, <1>4 DEF LoginsApart

LEMMA OwnersStay ==
    ASSUME Rows, Rows', Sources, CodesApart, LoginsApart,
           CodesKept, LoginsKept, CallbacksKept, SessionsKept
    PROVE  CodesApart' /\ LoginsApart'
<1>1. ASSUME NEW c \in Callbacks, Holds(callbacks'[c])
      PROVE  Holds(callbacks[c]) /\ callbacks'[c].code = callbacks[c].code
  BY <1>1 DEF CallbacksKept, HoldsKept, PastKept, Holds, Past
<1>2. CodesApart'
  BY <1>1 DEF CodesApart, SessionsKept
<1> QED BY <1>2, LoginsStay DEF CallbacksKept

----------------------------------------------------------------------------
(* Every step keeps the invariant. *)

\* A step that changes neither the browser sessions, the accounts nor what a
\* code says of its person, and that resolves nobody.
LEMMA SessionsUntouched ==
    ASSUME Rows, Sources, Lives, Provisioned, CodesKept, CallbacksKept,
           clock' \in Nat, clock <= clock',
           UNCHANGED <<provisioning, accounts, browser>>,
           \A c \in Callbacks : callbacks'[c].pc = "resolved" => callbacks[c].pc = "resolved"
    PROVE  Lives' /\ Provisioned' /\ SessionsKept
<1> USE Referred
<1>1. SessionsKept
  BY DEF SessionsKept, Opened
<1>2. Lives'
  <2>1. clock \in Nat
    BY DEF Rows
  <2>2. \A s \in Opened : browser[s].seen \in Nat
    BY DEF Browser
  <2> QED BY <2>1, <2>2 DEF Lives, Opened
<1>3. Provisioned'
  <2>1. ASSUME NEW c \in Callbacks, callbacks'[c].pc = "resolved"
        PROVE  codes'[callbacks'[c].code].person = codes[callbacks[c].code].person
               /\ callbacks[c].pc = "resolved"
    <3>1. callbacks[c].pc = "resolved" /\ callbacks'[c].code = callbacks[c].code
      BY <2>1 DEF CallbacksKept, PastKept, HoldsKept, Past
    <3>2. callbacks[c].code \in Codes /\ codes[callbacks[c].code] \in Code
      BY <3>1 DEF Sources
    <3> QED BY <3>1, <3>2 DEF CodesKept
  <2> QED BY <2>1 DEF Provisioned, Opened
<1> QED BY <1>1, <1>2, <1>3

LEMMA BeginLoginKeeps ==
    ASSUME SignInAssumption, SignedIn, NEW l \in Logins, BeginLogin(l)
    PROVE  SignedIn'
<1> USE SignInAssumption DEF SignedIn
<1>1. Rows'
  <2>1. clock + LoginLife \in Nat
    BY DEF Rows, SignInAssumption
  <2>2. [state |-> "pending", expires |-> clock + LoginLife]
          \in [state : {"none", "pending", "consumed"}, expires : Nat]
    BY <2>1
  <2> QED BY <2>2 DEF Rows, BeginLogin
<1>2. CodesKept /\ LoginsKept /\ CallbacksKept
  <2>1. logins[l].state = "none"
    BY DEF BeginLogin, NoLogin
  <2>2. LoginsKept
    BY <2>1 DEF BeginLogin, LoginsKept, Rows
  <2> QED BY <2>2 DEF BeginLogin, CodesKept, CallbacksKept, PastKept, HoldsKept, Sources
<1>3. Lives' /\ Provisioned' /\ SessionsKept
  <2>1. clock' \in Nat /\ clock <= clock'
    BY DEF BeginLogin, Rows, SignInAssumption
  <2> QED BY <1>2, <2>1, SessionsUntouched DEF BeginLogin
<1> QED BY <1>1, <1>2, <1>3, SourcesStay, OwnersStay

LEMMA IssueCodeKeeps ==
    ASSUME SignInAssumption, SignedIn, NEW k \in Codes, NEW l \in Logins, NEW p \in People,
           IssueCode(k, l, p)
    PROVE  SignedIn'
<1> USE SignInAssumption DEF SignedIn
<1>1. [state |-> "issued", login |-> l, person |-> p] \in Code
  BY DEF Code
<1>2. Rows'
  BY <1>1 DEF Rows, IssueCode
<1>3. CodesKept /\ LoginsKept /\ CallbacksKept
  <2>1. codes[k] \notin Code
    BY DEF IssueCode, NoCode, Code
  <2>2. CodesKept
    BY <2>1 DEF IssueCode, CodesKept, Rows
  <2>3. CallbacksKept
    BY <2>2, Referred DEF IssueCode, CodesKept, CallbacksKept, PastKept, HoldsKept, Sources
  <2> QED BY <2>2, <2>3 DEF IssueCode, LoginsKept
<1>4. Lives' /\ Provisioned' /\ SessionsKept
  <2>1. clock' \in Nat /\ clock <= clock'
    BY DEF IssueCode, Rows, SignInAssumption
  <2> QED BY <1>3, <2>1, SessionsUntouched DEF IssueCode
<1> QED BY <1>2, <1>3, <1>4, SourcesStay, OwnersStay

LEMMA CallbackReadKeeps ==
    ASSUME SignInAssumption, SignedIn, NEW c \in Callbacks, NEW k \in Codes, CallbackRead(c, k)
    PROVE  SignedIn'
<1> USE SignInAssumption DEF SignedIn
<1> DEFINE call == [pc |-> "loaded", code |-> k, seen |-> logins[codes[k].login].state]
<1>1. callbacks' = [callbacks EXCEPT ![c] = call] /\ call.pc = "loaded" /\ call.code = k
  BY DEF CallbackRead
<1>2. codes[k] \in Code
  BY DEF CallbackRead, Rows
<1>3. call \in Loaded
  BY DEF CallbackRead, Consumable, Loaded
<1> HIDE DEF call
<1>4. Rows'
  BY <1>1, <1>3 DEF Rows, CallbackRead
<1>5. CodesKept /\ LoginsKept
  BY DEF CallbackRead, CodesKept, LoginsKept
<1>6. CallbacksKept
  BY <1>1, <1>2 DEF CallbackRead, CallbacksKept, PastKept, HoldsKept, Past, Holds, Sources, Rows
<1>7. Lives' /\ Provisioned' /\ SessionsKept
  <2>1. clock' \in Nat /\ clock <= clock'
    BY DEF CallbackRead, Rows, SignInAssumption
  <2>2. \A d \in Callbacks : callbacks'[d].pc = "resolved" => callbacks[d].pc = "resolved"
    BY <1>1 DEF Rows
  <2> QED BY <1>5, <1>6, <2>1, <2>2, SessionsUntouched DEF CallbackRead
<1> QED BY <1>4, <1>5, <1>6, <1>7, SourcesStay, OwnersStay

LEMMA CallbackFailsKeeps ==
    ASSUME SignInAssumption, SignedIn, NEW c \in Callbacks, CallbackFails(c)
    PROVE  SignedIn'
<1> USE SignInAssumption DEF SignedIn
<1>1. Rows'
  BY DEF Rows, CallbackFails
<1>2. CodesKept /\ LoginsKept
  BY DEF CallbackFails, CodesKept, LoginsKept
<1>3. CallbacksKept
  BY DEF CallbackFails, CallbacksKept, PastKept, HoldsKept, Past, Holds, Sources, Rows, Free
<1>4. Lives' /\ Provisioned' /\ SessionsKept
  <2>1. clock' \in Nat /\ clock <= clock'
    BY DEF CallbackFails, Rows, SignInAssumption
  <2>2. \A d \in Callbacks : callbacks'[d].pc = "resolved" => callbacks[d].pc = "resolved"
    BY DEF CallbackFails, Rows, Free
  <2> QED BY <1>2, <1>3, <2>1, <2>2, SessionsUntouched DEF CallbackFails
<1> QED BY <1>1, <1>2, <1>3, <1>4, SourcesStay, OwnersStay

LEMMA LoadForTouchKeeps ==
    ASSUME SignInAssumption, SignedIn, NEW s \in Sessions, LoadForTouch(s)
    PROVE  SignedIn'
<1> USE SignInAssumption DEF SignedIn
<1>1. Rows'
  <2>1. browser[s] \in Browser
    BY DEF LoadForTouch, Rows
  <2>2. touches' = touches \cup {<<s, browser[s]>>}
    BY DEF LoadForTouch
  <2>3. \A touch \in touches' : touch[1] \in Sessions /\ browser[touch[1]] \in Browser
    BY <2>1, <2>2 DEF Rows
  <2> QED BY <2>3 DEF Rows, LoadForTouch
<1>2. CodesKept /\ LoginsKept /\ CallbacksKept
  BY DEF LoadForTouch, CodesKept, LoginsKept, CallbacksKept, PastKept, HoldsKept, Sources
<1>3. Lives' /\ Provisioned' /\ SessionsKept
  <2>1. clock' \in Nat /\ clock <= clock'
    BY DEF LoadForTouch, Rows, SignInAssumption
  <2> QED BY <1>2, <2>1, SessionsUntouched DEF LoadForTouch
<1> QED BY <1>1, <1>2, <1>3, SourcesStay, OwnersStay

\* The row that a touch or a logout leaves is the one that was there, but for
\* the column it sets.
LEMMA TouchKeeps ==
    ASSUME SignInAssumption, SignedIn, NEW s \in Sessions, Touch(s)
    PROVE  SignedIn'
<1> USE SignInAssumption DEF SignedIn
<1>1. PICK touch \in touches : /\ touch[1] = s
                               /\ browser' = [browser EXCEPT ![s] = Touched(@, touch[2])]
                               /\ touches' = touches \ {touch}
  BY DEF Touch
<1>2. UNCHANGED <<clock, provisioning, accounts, logins, codes, callbacks, raced>>
  BY DEF Touch
<1>3. browser[s] \in Browser
  BY <1>1 DEF Rows
<1>4. clock \in Nat
  BY DEF Rows, SignInAssumption
<1>5. browser' = [browser EXCEPT ![s] = [browser[s] EXCEPT !.seen = clock]]
  BY <1>1 DEF Touched
<1>6. [browser[s] EXCEPT !.seen = clock] \in Browser
  BY <1>3, <1>4 DEF Browser
<1>7. Rows'
  <2>1. \A t \in Sessions : browser[t] \in Browser => browser'[t] \in Browser
    BY <1>5, <1>6 DEF Rows
  <2>2. \A other \in touches' : other[1] \in Sessions /\ browser'[other[1]] \in Browser
    BY <1>1, <2>1 DEF Rows
  <2> QED BY <1>2, <1>5, <1>6, <2>2 DEF Rows
<1>8. CodesKept /\ LoginsKept /\ CallbacksKept
  BY <1>2 DEF CodesKept, LoginsKept, CallbacksKept, PastKept, HoldsKept, Sources
<1>9. /\ browser'[s].expires = browser[s].expires
      /\ browser'[s].tokenExpires = browser[s].tokenExpires
      /\ browser'[s].seen = clock
      /\ browser'[s].person = browser[s].person /\ browser'[s].login = browser[s].login
      /\ browser'[s].code = browser[s].code
      /\ s \in Opened
  <2>1. browser[s] # NoBrowser
    BY <1>3 DEF Browser, NoBrowser
  <2> QED BY <1>3, <1>5, <2>1 DEF Browser, Rows, Opened
<1>10. \A t \in Sessions \ {s} : browser'[t] = browser[t]
  BY <1>5 DEF Rows
<1>11. SessionsKept
  BY <1>9, <1>10 DEF SessionsKept, Opened
<1>12. Lives'
  <2>1. browser[s].seen <= clock /\ browser[s].seen \in Nat /\ browser[s].expires \in Nat
        /\ browser[s].expires <= browser[s].seen + SessionLife
    BY <1>3, <1>9 DEF Lives, Browser
  <2>2. browser[s].expires <= clock + SessionLife
    BY <1>4, <2>1 DEF SignInAssumption
  <2> QED BY <1>2, <1>4, <1>9, <1>10, <2>2 DEF Lives, Opened
<1>13. Provisioned'
  BY <1>2, <1>11 DEF Provisioned, SessionsKept
<1> QED BY <1>7, <1>8, <1>11, <1>12, <1>13, SourcesStay, OwnersStay

LEMMA RevokeKeeps ==
    ASSUME SignInAssumption, SignedIn, NEW s \in Sessions, Revoke(s)
    PROVE  SignedIn'
<1> USE SignInAssumption DEF SignedIn
<1>1. UNCHANGED <<clock, provisioning, accounts, logins, codes, callbacks, touches, raced>>
      /\ browser' = [browser EXCEPT ![s] = [browser[s] EXCEPT !.state = "revoked"]]
  BY DEF Revoke
<1>2. browser[s] \in Browser
  BY DEF Revoke, Rows, NoBrowser
<1>3. [browser[s] EXCEPT !.state = "revoked"] \in Browser
  BY <1>2 DEF Browser
<1>4. Rows'
  BY <1>1, <1>3 DEF Rows
<1>5. CodesKept /\ LoginsKept /\ CallbacksKept
  BY <1>1 DEF CodesKept, LoginsKept, CallbacksKept, PastKept, HoldsKept, Sources
<1>6. /\ browser'[s].expires = browser[s].expires
      /\ browser'[s].tokenExpires = browser[s].tokenExpires
      /\ browser'[s].seen = browser[s].seen
      /\ browser'[s].person = browser[s].person /\ browser'[s].login = browser[s].login
      /\ browser'[s].code = browser[s].code
      /\ s \in Opened
  <2>1. browser[s] # NoBrowser
    BY <1>2 DEF Browser, NoBrowser
  <2> QED BY <1>2, <1>1, <2>1 DEF Browser, Rows, Opened
<1>7. \A t \in Sessions \ {s} : browser'[t] = browser[t]
  BY <1>1 DEF Rows
<1>8. SessionsKept
  BY <1>6, <1>7 DEF SessionsKept, Opened
<1>9. Lives'
  BY <1>1, <1>6, <1>7 DEF Lives, Opened
<1>10. Provisioned'
  BY <1>1, <1>8 DEF Provisioned, SessionsKept
<1> QED BY <1>4, <1>5, <1>8, <1>9, <1>10, SourcesStay, OwnersStay

LEMMA SuspendAccountKeeps ==
    ASSUME SignInAssumption, SignedIn, NEW p \in People, SuspendAccount(p)
    PROVE  SignedIn'
<1> USE SignInAssumption DEF SignedIn
<1>1. Rows'
  BY DEF Rows, SuspendAccount
<1>2. CodesKept /\ LoginsKept /\ CallbacksKept /\ SessionsKept
  BY DEF SuspendAccount, CodesKept, LoginsKept, CallbacksKept, PastKept, HoldsKept, SessionsKept, Sources, Opened
<1>3. Lives'
  BY DEF SuspendAccount, Lives, Opened
<1>4. Provisioned'
  BY DEF SuspendAccount, Provisioned, Opened, Rows
<1> QED BY <1>1, <1>2, <1>3, <1>4, SourcesStay, OwnersStay

LEMMA PassKeeps ==
    ASSUME SignInAssumption, SignedIn, Pass
    PROVE  SignedIn'
<1> USE SignInAssumption DEF SignedIn
<1>1. clock' \in 0..LastTime /\ clock' \in Nat /\ clock <= clock'
  BY DEF Pass, Rows, SignInAssumption
<1>2. Rows'
  BY <1>1 DEF Rows, Pass
<1>3. CodesKept /\ LoginsKept /\ CallbacksKept
  BY DEF Pass, CodesKept, LoginsKept, CallbacksKept, PastKept, HoldsKept, Sources
<1>4. Lives' /\ Provisioned' /\ SessionsKept
  BY <1>1, <1>3, SessionsUntouched DEF Pass
<1> QED BY <1>2, <1>3, <1>4, SourcesStay, OwnersStay

\* A callback that resolves its person has that of the code it used.
LEMMA ResolveKeeps ==
    ASSUME SignInAssumption, SignedIn, NEW c \in Callbacks, Resolve(c)
    PROVE  SignedIn'
<1> USE SignInAssumption DEF SignedIn
<1> DEFINE person == codes[callbacks[c].code].person
<1>1. callbacks[c].pc = "identified" /\ callbacks[c] \in Identified
  BY DEF Resolve, Rows, Free, Loaded, Consumed, Identified
<1>2. callbacks[c].code \in Codes /\ codes[callbacks[c].code] \in Code /\ person \in People
  BY <1>1 DEF Sources, Identified, Code
<1>3. UNCHANGED <<clock, provisioning, logins, codes, browser, touches, raced>>
  BY DEF Resolve
<1>4. accounts' \in [People -> {"none", "pending", "active", "suspended"}]
      /\ \A p \in People : accounts'[p] # "none" =>
           accounts[p] # "none" \/ provisioning # "existing_only"
  BY <1>2 DEF Resolve, Rows, ProvisionedStatus
<1>5. \/ accounts'[person] = "active"
         /\ callbacks' = [callbacks EXCEPT ![c] = [callbacks[c] EXCEPT !.pc = "resolved"]]
      \/ callbacks' = [callbacks EXCEPT ![c] = Free]
  BY DEF Resolve
<1> DEFINE call == [callbacks[c] EXCEPT !.pc = "resolved"]
<1>6. call \in Identified /\ call.pc = "resolved" /\ call.code = callbacks[c].code
  BY <1>1 DEF Identified
<1>7. Rows'
  BY <1>3, <1>4, <1>5, <1>6 DEF Rows
<1>8. \/ callbacks'[c] = Free
      \/ /\ callbacks'[c].pc = "resolved" /\ callbacks'[c].code = callbacks[c].code
         /\ accounts'[person] = "active"
  <2>1. CASE callbacks' = [callbacks EXCEPT ![c] = Free]
    BY <2>1 DEF Rows
  <2>2. CASE callbacks' = [callbacks EXCEPT ![c] = call] /\ accounts'[person] = "active"
    <3>1. callbacks'[c] = call
      BY <2>2 DEF Rows
    <3> QED BY <1>6, <2>2, <3>1
  <2> QED BY <1>5, <2>1, <2>2
<1>9. CodesKept /\ LoginsKept /\ SessionsKept
  BY <1>3 DEF CodesKept, LoginsKept, SessionsKept, Opened
<1>10. CallbacksKept
  <2>1. \A d \in Callbacks : d # c => callbacks'[d] = callbacks[d]
    BY <1>5 DEF Rows
  <2> QED BY <1>1, <1>2, <1>3, <1>8, <2>1 DEF CallbacksKept, PastKept, HoldsKept, Past, Holds, Sources, Free
<1>11. Lives'
  BY <1>3 DEF Lives, Opened
<1>12. Provisioned'
  <2>1. ASSUME provisioning = "existing_only", NEW d \in Callbacks,
               callbacks'[d].pc = "resolved"
        PROVE  codes[callbacks'[d].code].person \in Known
    <3>1. CASE d = c
      <4>1. accounts'[person] = "active" /\ callbacks'[d].code = callbacks[c].code
        BY <1>8, <2>1, <3>1 DEF Free
      <4>2. person \in Known
        BY <1>2, <1>4, <2>1, <4>1 DEF Provisioned
      <4> QED BY <4>1, <4>2
    <3>2. CASE d # c
      BY <1>5, <2>1, <3>2 DEF Rows, Provisioned
    <3> QED BY <3>1, <3>2
  <2>2. provisioning = "existing_only" => \A p \in People : accounts'[p] # "none" => p \in Known
    BY <1>4 DEF Provisioned
  <2> QED BY <1>3, <2>1, <2>2 DEF Provisioned, Opened
<1> QED BY <1>7, <1>9, <1>10, <1>11, <1>12, SourcesStay, OwnersStay

\* Consuming a login.  A callback loaded it while it was pending; whoever else
\* consumed it since makes it a raced one.
LEMMA ConsumeKeeps ==
    ASSUME SignInAssumption, SignedIn, NEW c \in Callbacks, Consume(c)
    PROVE  SignedIn'
<1> USE SignInAssumption DEF SignedIn
<1> DEFINE k == callbacks[c].code
           l == codes[k].login
           call == [pc |-> "consumed", code |-> k]
<1>1. callbacks[c] \in Loaded /\ callbacks[c].pc = "loaded" /\ k \in Codes
      /\ callbacks[c].seen = "pending"
  BY DEF Consume, Rows, Free, Loaded, Consumed, Identified
<1>2. codes[k] \in Code /\ l \in Logins
  BY <1>1, Referred DEF Sources
<1>3. UNCHANGED <<clock, provisioning, accounts, codes, browser, touches>>
  BY DEF Consume
<1>4. /\ logins' = [logins EXCEPT ![l] = [logins[l] EXCEPT !.state = "consumed"]]
      /\ callbacks' = [callbacks EXCEPT ![c] = call] \/ callbacks' = [callbacks EXCEPT ![c] = Free]
      /\ raced' = raced \cup {l} \/ raced' = raced
      /\ logins[l].state = "consumed" => raced' = raced \cup {l}
  BY <1>1 DEF Consume
<1>5. [logins[l] EXCEPT !.state = "consumed"]
        \in [state : {"none", "pending", "consumed"}, expires : Nat]
  BY <1>2 DEF Rows
<1>6. call \in Consumed /\ call.pc = "consumed" /\ call.code = k
  BY <1>1 DEF Consumed
<1> HIDE DEF call
<1>7. Rows'
  BY <1>2, <1>3, <1>4, <1>5, <1>6 DEF Rows
<1>8. logins'[l].state = "consumed"
      /\ \A other \in Logins : other # l => logins'[other] = logins[other]
  <2>1. logins[l] \in [state : {"none", "pending", "consumed"}, expires : Nat]
    BY <1>2 DEF Rows
  <2>2. logins'[l] = [logins[l] EXCEPT !.state = "consumed"]
    BY <1>2, <1>4 DEF Rows
  <2>3. logins'[l].state = "consumed"
    BY <2>1, <2>2
  <2>4. \A other \in Logins : other # l => logins'[other] = logins[other]
    BY <1>4 DEF Rows
  <2> QED BY <2>3, <2>4
<1>9. /\ callbacks'[c] = Free \/ (callbacks'[c].pc = "consumed" /\ callbacks'[c].code = k)
      /\ \A d \in Callbacks : d # c => callbacks'[d] = callbacks[d]
  <2>1. callbacks'[c] = Free \/ callbacks'[c] = call
    BY <1>4 DEF Rows
  <2>2. \A d \in Callbacks : d # c => callbacks'[d] = callbacks[d]
    BY <1>4 DEF Rows
  <2> QED BY <1>6, <2>1, <2>2
<1>10. CodesKept /\ LoginsKept /\ SessionsKept
  BY <1>3, <1>4, <1>8 DEF CodesKept, LoginsKept, SessionsKept, Opened
<1>11. /\ \A d \in Callbacks : Holds(callbacks'[d]) => d # c /\ Holds(callbacks[d])
       /\ \A d \in Callbacks : Past(callbacks'[d]) =>
            (d = c /\ LoginOf(d)' = l) \/ (d # c /\ Past(callbacks[d]) /\ LoginOf(d)' = LoginOf(d))
  BY <1>3, <1>9 DEF Holds, Past, Free, LoginOf
<1>12. Sources'
  <2>1. ASSUME NEW d \in Callbacks
        PROVE  /\ callbacks'[d].pc # "free" => codes[callbacks'[d].code] \in Code
               /\ Holds(callbacks'[d]) => codes[callbacks'[d].code].state = "used"
               /\ Past(callbacks'[d])
                    => logins'[codes[callbacks'[d].code].login].state = "consumed"
    <3>1. CASE d = c
      BY <1>2, <1>8, <1>9, <3>1 DEF Holds, Past, Free
    <3>2. CASE d # c
      <4>1. callbacks'[d] = callbacks[d]
        BY <1>9, <3>2
      <4>2. Past(callbacks[d]) => codes[callbacks[d].code].login \in Logins
        BY Referred DEF Sources
      <4> QED BY <1>10, <4>1, <4>2 DEF Sources, LoginsKept
    <3> QED BY <3>1, <3>2
  <2>2. \A s \in Opened : codes[browser[s].code].login \in Logins
    BY Referred DEF Sources, Browser
  <2> QED BY <1>3, <1>10, <2>1, <2>2 DEF Sources, Opened, LoginsKept
<1>13. CodesApart'
  BY <1>3, <1>9, <1>11 DEF CodesApart, Opened
<1>14. LoginsApart'
  <2>1. raced \subseteq raced'
    BY <1>4
  <2>10. logins[l].state = "consumed" => l \in raced'
    BY <1>4
  <2>2. ASSUME NEW d \in Callbacks, Past(callbacks[d]), LoginOf(d) = l
        PROVE  l \in raced'
    <3>1. logins[l].state = "consumed"
      BY <2>2 DEF Sources, LoginOf
    <3> QED BY <2>10, <3>1
  <2>3. ASSUME NEW s \in Opened, browser[s].login = l
        PROVE  l \in raced'
    <3>1. logins[l].state = "consumed"
      BY <2>3 DEF Sources
    <3> QED BY <2>10, <3>1
  <2>4. \A d, e \in Callbacks : d # e /\ Past(callbacks'[d]) /\ Past(callbacks'[e])
          => LoginOf(d)' # LoginOf(e)' \/ LoginOf(d)' \in raced'
    BY <1>11, <2>1, <2>2 DEF LoginsApart
  <2>5. \A d \in Callbacks, s \in Opened : Past(callbacks'[d])
          => LoginOf(d)' # browser[s].login \/ browser[s].login \in raced'
    BY <1>11, <2>1, <2>3 DEF LoginsApart
  <2> QED BY <1>3, <2>1, <2>4, <2>5 DEF LoginsApart, Opened
<1>15. Lives'
  BY <1>3 DEF Lives, Opened
<1>16. Provisioned'
  BY <1>3, <1>9 DEF Provisioned, Opened, Free
<1> QED BY <1>7, <1>12, <1>13, <1>14, <1>15, <1>16

\* Exchanging a code, which the provider answers for once.
LEMMA ExchangeKeeps ==
    ASSUME SignInAssumption, SignedIn, NEW c \in Callbacks, Exchange(c)
    PROVE  SignedIn'
<1> USE SignInAssumption DEF SignedIn
<1> DEFINE k == callbacks[c].code
           call == [pc |-> "identified", code |-> k, tokenExpires |-> clock + TokenLife]
<1>1. callbacks[c] \in Consumed /\ callbacks[c].pc = "consumed" /\ k \in Codes
  BY DEF Exchange, Rows, Free, Loaded, Consumed, Identified
<1>2. codes[k] \in Code
  BY <1>1 DEF Sources
<1>3. UNCHANGED <<clock, provisioning, accounts, logins, browser, touches, raced>>
  BY DEF Exchange
<1>4. /\ codes' = [codes EXCEPT ![k] = [codes[k] EXCEPT !.state = "used"]]
      /\ \/ callbacks' = [callbacks EXCEPT ![c] = call] /\ codes[k].state = "issued"
         \/ callbacks' = [callbacks EXCEPT ![c] = Free]
  BY DEF Exchange
<1>5. clock + TokenLife \in Nat
  BY DEF Rows, SignInAssumption
<1>6. call \in Identified /\ call.pc = "identified" /\ call.code = k
  BY <1>1, <1>5 DEF Identified
<1> HIDE DEF call
<1>7. [codes[k] EXCEPT !.state = "used"] \in Code
  BY <1>2 DEF Code
<1>8. Rows'
  BY <1>3, <1>4, <1>6, <1>7 DEF Rows
<1>9. /\ codes'[k] \in Code /\ codes'[k].state = "used"
      /\ codes'[k].login = codes[k].login /\ codes'[k].person = codes[k].person
      /\ \A other \in Codes : other # k => codes'[other] = codes[other]
  <2>1. codes'[k] = [codes[k] EXCEPT !.state = "used"]
    BY <1>1, <1>4 DEF Rows
  <2>2. \A other \in Codes : other # k => codes'[other] = codes[other]
    BY <1>4 DEF Rows
  <2> QED BY <1>2, <1>7, <2>1, <2>2 DEF Code
<1>10. /\ \/ callbacks'[c] = Free
          \/ callbacks'[c].pc = "identified" /\ callbacks'[c].code = k /\ codes[k].state = "issued"
       /\ \A d \in Callbacks : d # c => callbacks'[d] = callbacks[d]
  <2>1. callbacks'[c] = Free \/ (callbacks'[c] = call /\ codes[k].state = "issued")
    BY <1>4 DEF Rows
  <2>2. \A d \in Callbacks : d # c => callbacks'[d] = callbacks[d]
    BY <1>4 DEF Rows
  <2> QED BY <1>6, <2>1, <2>2
<1>11. CodesKept /\ LoginsKept /\ SessionsKept
  BY <1>3, <1>9 DEF CodesKept, LoginsKept, SessionsKept, Opened
<1>12. PastKept
  <2>1. ASSUME NEW d \in Callbacks, d # c
        PROVE  callbacks'[d].pc # "free" => codes'[callbacks'[d].code] \in Code
    <3>1. callbacks'[d] = callbacks[d]
      BY <1>10, <2>1
    <3> QED BY <1>11, <3>1, Referred DEF CodesKept, Sources
  <2> QED BY <1>1, <1>9, <1>10, <2>1 DEF PastKept, Past, Free
<1>13. Sources'
  <2>1. ASSUME NEW d \in Callbacks
        PROVE  /\ callbacks'[d].pc # "free" => codes'[callbacks'[d].code] \in Code
               /\ Holds(callbacks'[d]) => codes'[callbacks'[d].code].state = "used"
               /\ Past(callbacks'[d])
                    => logins'[codes'[callbacks'[d].code].login].state = "consumed"
    <3>1. CASE d = c
      <4>1. logins[codes[k].login].state = "consumed"
        BY <1>1 DEF Sources, Past
      <4> QED BY <1>3, <1>9, <1>10, <3>1, <4>1 DEF Holds, Past, Free
    <3>2. CASE d # c
      <4>1. callbacks'[d] = callbacks[d]
        BY <1>10, <3>2
      <4>2. Past(callbacks[d]) => callbacks[d].code \in Codes /\ codes[callbacks[d].code] \in Code
        BY Referred DEF Sources
      <4>3. Holds(callbacks[d]) => Past(callbacks[d])
        BY Referred
      <4>4. callbacks'[d].pc # "free" => codes'[callbacks'[d].code] \in Code
        BY <1>12 DEF PastKept
      <4> QED BY <1>3, <1>11, <4>1, <4>2, <4>3, <4>4 DEF Sources, CodesKept
    <3> QED BY <3>1, <3>2
  <2>2. \A s \in Opened : browser[s].code \in Codes /\ codes[browser[s].code] \in Code
    BY Referred DEF Sources, Browser
  <2> QED BY <1>3, <1>11, <2>1, <2>2 DEF Sources, Opened, CodesKept
<1>14. CodesApart'
  <2>1. codes[k].state = "issued" =>
          /\ \A d \in Callbacks : Holds(callbacks[d]) => callbacks[d].code # k
          /\ \A s \in Opened : browser[s].code # k
    BY DEF Sources
  <2>2. \A d \in Callbacks : Holds(callbacks'[d]) =>
          \/ d = c /\ callbacks'[d].code = k /\ codes[k].state = "issued"
          \/ d # c /\ Holds(callbacks[d]) /\ callbacks'[d].code = callbacks[d].code
    BY <1>10 DEF Holds, Free
  <2> QED BY <1>3, <2>1, <2>2 DEF CodesApart, Opened
<1>15. LoginsApart'
  BY <1>8, <1>11, <1>12, LoginsStay
<1>16. Lives'
  BY <1>3 DEF Lives, Opened
<1>17. Provisioned'
  <2>1. ASSUME NEW d \in Callbacks, callbacks'[d].pc = "resolved"
        PROVE  codes'[callbacks'[d].code].person = codes[callbacks[d].code].person
               /\ callbacks[d].pc = "resolved"
    <3>1. d # c /\ callbacks'[d] = callbacks[d]
      BY <1>10, <2>1 DEF Free
    <3>2. callbacks[d].code \in Codes /\ codes[callbacks[d].code] \in Code
      BY <2>1, <3>1, Referred DEF Sources
    <3> QED BY <1>11, <2>1, <3>1, <3>2 DEF CodesKept
  <2> QED BY <1>3, <2>1 DEF Provisioned, Opened
<1> QED BY <1>8, <1>13, <1>14, <1>15, <1>16, <1>17

\* The session takes over the code and the login of the callback that opens it.
LEMMA OpenSessionKeeps ==
    ASSUME SignInAssumption, SignedIn, NEW c \in Callbacks, OpenSession(c)
    PROVE  SignedIn'
<1> USE SignInAssumption DEF SignedIn
<1> DEFINE k == callbacks[c].code
           ends == callbacks[c].tokenExpires
           row == [state |-> "open", person |-> codes[k].person, login |-> codes[k].login,
                   code |-> k, tokenExpires |-> ends,
                   expires |-> SessionExpiry(ends), seen |-> clock]
<1>1. PICK s \in Sessions : browser[s] = NoBrowser /\ browser' = [browser EXCEPT ![s] = row]
  BY DEF OpenSession
<1>2. callbacks[c] \in Identified /\ callbacks[c].pc = "resolved"
      /\ k \in Codes /\ ends \in Nat /\ Holds(callbacks[c]) /\ Past(callbacks[c])
  BY DEF OpenSession, Rows, Free, Loaded, Consumed, Identified, Holds, Past
<1>3. codes[k] \in Code /\ codes[k].state = "used"
      /\ logins[codes[k].login].state = "consumed"
  BY <1>2 DEF Sources
<1>4. UNCHANGED <<clock, provisioning, accounts, logins, codes, touches, raced>>
      /\ callbacks' = [callbacks EXCEPT ![c] = Free]
  BY DEF OpenSession
<1>5. clock \in Nat /\ SessionExpiry(ends) \in Nat
      /\ SessionExpiry(ends) <= ends /\ SessionExpiry(ends) <= clock + SessionLife
  BY <1>2 DEF Rows, SignInAssumption, SessionExpiry
<1>6. codes[k].person \in People /\ codes[k].login \in Logins
  BY <1>3 DEF Code
<1>7. row \in Browser
  BY <1>2, <1>5, <1>6 DEF Browser
<1>8. /\ row.person = codes[k].person /\ row.login = codes[k].login /\ row.code = k
      /\ row.tokenExpires = ends /\ row.expires = SessionExpiry(ends) /\ row.seen = clock
      /\ row # NoBrowser
  BY DEF NoBrowser
<1> HIDE DEF row
<1>9. browser'[s] = row /\ \A t \in Sessions : t # s => browser'[t] = browser[t]
  BY <1>1 DEF Rows
<1>10. Opened' = Opened \cup {s} /\ s \notin Opened
  BY <1>1, <1>8, <1>9 DEF Opened
<1>11. \A t \in Opened : t # s /\ browser'[t] = browser[t]
  BY <1>9, <1>10 DEF Opened
<1>12. callbacks'[c] = Free /\ \A d \in Callbacks : d # c => callbacks'[d] = callbacks[d]
  BY <1>4 DEF Rows
<1>13. ~ Past(callbacks'[c]) /\ ~ Holds(callbacks'[c]) /\ callbacks'[c].pc = "free"
  BY <1>12 DEF Past, Holds, Free
<1>14. Rows'
  <2>1. \A t \in Sessions : browser[t] \in Browser => browser'[t] \in Browser
    BY <1>7, <1>9
  <2> QED BY <1>1, <1>4, <1>7, <2>1 DEF Rows
<1>15. Sources'
  <2>1. \A d \in Callbacks :
          /\ callbacks'[d].pc # "free" => codes[callbacks'[d].code] \in Code
          /\ Holds(callbacks'[d]) => codes[callbacks'[d].code].state = "used"
          /\ Past(callbacks'[d]) => logins[codes[callbacks'[d].code].login].state = "consumed"
    BY <1>12, <1>13 DEF Sources
  <2>2. \A t \in Opened' :
          /\ codes[browser'[t].code] \in Code /\ codes[browser'[t].code].state = "used"
          /\ browser'[t].login = codes[browser'[t].code].login
          /\ browser'[t].person = codes[browser'[t].code].person
          /\ logins[codes[browser'[t].code].login].state = "consumed"
    BY <1>3, <1>8, <1>9, <1>10, <1>11 DEF Sources
  <2> QED BY <1>4, <2>1, <2>2 DEF Sources
<1>16. CodesApart'
  <2>1. \A d, e \in Callbacks : d # e /\ Holds(callbacks'[d]) /\ Holds(callbacks'[e])
          => callbacks'[d].code # callbacks'[e].code
    BY <1>12, <1>13 DEF CodesApart
  <2>2. \A d \in Callbacks, t \in Opened' : Holds(callbacks'[d])
          => callbacks'[d].code # browser'[t].code
    BY <1>2, <1>8, <1>9, <1>10, <1>11, <1>12, <1>13 DEF CodesApart
  <2>3. \A t, u \in Opened' : t # u => browser'[t].code # browser'[u].code
    BY <1>2, <1>8, <1>9, <1>10, <1>11 DEF CodesApart
  <2> QED BY <2>1, <2>2, <2>3 DEF CodesApart
<1>17. LoginsApart'
  <2>1. LoginOf(c) = row.login
    BY <1>8 DEF LoginOf
  <2>2. \A d \in Callbacks : d # c => LoginOf(d)' = LoginOf(d)
    BY <1>4, <1>12 DEF LoginOf
  <2>3. \A d, e \in Callbacks : d # e /\ Past(callbacks'[d]) /\ Past(callbacks'[e])
          => LoginOf(d)' # LoginOf(e)' \/ LoginOf(d)' \in raced
    BY <1>12, <1>13, <2>2 DEF LoginsApart
  <2>4. \A d \in Callbacks, t \in Opened' : Past(callbacks'[d])
          => LoginOf(d)' # browser'[t].login \/ browser'[t].login \in raced
    BY <1>2, <1>9, <1>10, <1>11, <1>12, <1>13, <2>1, <2>2 DEF LoginsApart
  <2>5. \A t, u \in Opened' : t # u
          => browser'[t].login # browser'[u].login \/ browser'[t].login \in raced
    BY <1>2, <1>9, <1>10, <1>11, <2>1 DEF LoginsApart
  <2> QED BY <1>4, <2>3, <2>4, <2>5 DEF LoginsApart
<1>18. Lives'
  BY <1>4, <1>5, <1>8, <1>9, <1>10, <1>11 DEF Lives
<1>19. Provisioned'
  <2>1. \A d \in Callbacks : callbacks'[d].pc = "resolved" => callbacks'[d] = callbacks[d]
    BY <1>12, <1>13
  <2> QED BY <1>2, <1>4, <1>8, <1>9, <1>10, <1>11, <2>1 DEF Provisioned
<1> QED BY <1>14, <1>15, <1>16, <1>17, <1>18, <1>19

LEMMA SignedInInit ==
    ASSUME SignInAssumption, InitSignIn
    PROVE  SignedIn
<1> USE SignInAssumption DEF InitSignIn
<1>1. NoLogin \in [state : {"none", "pending", "consumed"}, expires : Nat]
  BY DEF NoLogin
<1>2. Rows
  BY <1>1 DEF Rows, SignInAssumption
<1>3. Opened = {} /\ \A c \in Callbacks : callbacks[c].pc = "free"
  BY DEF Opened, Free
<1>4. \A c \in Callbacks : ~ Past(callbacks[c]) /\ ~ Holds(callbacks[c])
  BY <1>3 DEF Past, Holds
<1>5. Provisioned
  BY <1>3 DEF Provisioned
<1> QED BY <1>2, <1>3, <1>4, <1>5 DEF SignedIn, Sources, CodesApart, LoginsApart, Lives

LEMMA SignedInStep ==
    ASSUME SignInAssumption, SignedIn, [NextSignIn]_signInVars
    PROVE  SignedIn'
<1>1. CASE NextSignIn
  <2>1. CASE \E l \in Logins : BeginLogin(l) \/ \E k \in Codes, p \in People : IssueCode(k, l, p)
    BY <2>1, SignInAssumption, BeginLoginKeeps, IssueCodeKeeps
  <2>2. CASE \E c \in Callbacks : \E k \in Codes : CallbackRead(c, k)
    BY <2>2, SignInAssumption, CallbackReadKeeps
  <2>3. CASE \E c \in Callbacks : Consume(c) \/ Exchange(c)
    BY <2>3, SignInAssumption, ConsumeKeeps, ExchangeKeeps
  <2>4. CASE \E c \in Callbacks : Resolve(c) \/ OpenSession(c) \/ CallbackFails(c)
    BY <2>4, SignInAssumption, ResolveKeeps, OpenSessionKeeps, CallbackFailsKeeps
  <2>5. CASE \E s \in Sessions : LoadForTouch(s) \/ Touch(s) \/ Revoke(s)
    BY <2>5, SignInAssumption, LoadForTouchKeeps, TouchKeeps, RevokeKeeps
  <2>6. CASE \E p \in People : SuspendAccount(p)
    BY <2>6, SignInAssumption, SuspendAccountKeeps
  <2>7. CASE Pass
    BY <2>7, SignInAssumption, PassKeeps
  <2> QED BY <1>1, <2>1, <2>2, <2>3, <2>4, <2>5, <2>6, <2>7 DEF NextSignIn
<1>2. CASE UNCHANGED signInVars
  BY <1>2 DEF signInVars, SignedIn, Rows, Sources, CodesApart, LoginsApart, Lives, Provisioned,
     Opened, LoginOf
<1> QED BY <1>1, <1>2

\* The inductive invariant.
THEOREM SignInInvariant == SignInSpec => []SignedIn
<1>1. InitSignIn => SignedIn
  BY SignInAssumption, SignedInInit
<1>2. SignedIn /\ [NextSignIn]_signInVars => SignedIn'
  BY SignInAssumption, SignedInStep
<1> QED BY <1>1, <1>2, PTL DEF SignInSpec

\* Every browser session was earned: a code opens at most one, a login at most
\* one unless two callbacks loaded it before either consumed it, no session
\* outlives its token or the configured maximum, and under existing_only only
\* people who were provisioned have one (oidc.py:566-685).
THEOREM SessionsAreEarned == SignInSpec => []SessionsEarned
<1>1. SignedIn => SessionsEarned
  <2> SUFFICES ASSUME SignedIn PROVE SessionsEarned
    OBVIOUS
  <2>1. SignInTypeOK
    BY DEF SignedIn, Rows, SignInTypeOK, Free, Loaded, Consumed, Identified, NoBrowser, Browser
  <2>2. ASSUME NEW s \in Opened
        PROVE  /\ browser[s].expires <= browser[s].tokenExpires
               /\ browser[s].expires <= browser[s].seen + SessionLife
               /\ provisioning = "existing_only" => browser[s].person \in Known
               /\ \A t \in Opened \ {s} :
                    /\ browser[s].code # browser[t].code
                    /\ browser[s].login = browser[t].login => browser[s].login \in raced
    BY DEF SignedIn, Lives, Provisioned, CodesApart, LoginsApart
  <2> QED BY <2>1, <2>2 DEF SessionsEarned
<1> QED BY <1>1, SignInInvariant, PTL

\* A touch writes only the column it sets: a session revoked while one was in
\* progress stays revoked (oidc.py:685-735).
THEOREM RevocationLasts == SignInSpec => RevokedStaysRevoked
<1>1. SignedIn /\ [NextSignIn]_signInVars
        => [\A s \in Sessions : browser[s].state = "revoked"
              => browser'[s].state = "revoked"]_signInVars
  <2> SUFFICES ASSUME SignedIn, NextSignIn, NEW s \in Sessions, browser[s].state = "revoked"
               PROVE  browser'[s].state = "revoked"
    BY DEF signInVars
  <2>1. browser \in [Sessions -> {NoBrowser} \cup Browser] /\ browser[s] \in Browser
    BY DEF SignedIn, Rows, NoBrowser
  <2>2. CASE UNCHANGED browser
    BY <2>2
  <2>3. ASSUME NEW c \in Callbacks, OpenSession(c)
        PROVE  browser'[s] = browser[s]
    BY <2>1, <2>3 DEF OpenSession, NoBrowser, Browser
  <2>4. ASSUME NEW t \in Sessions, Touch(t)
        PROVE  browser'[s].state = "revoked"
    <3>1. browser' = [browser EXCEPT ![t] = [browser[t] EXCEPT !.seen = clock]]
      BY <2>4 DEF Touch, Touched
    <3>2. CASE t = s
      <4>1. browser'[s] = [browser[s] EXCEPT !.seen = clock]
        BY <2>1, <3>1, <3>2
      <4> QED BY <2>1, <4>1 DEF Browser
    <3> QED BY <2>1, <3>1, <3>2
  <2>5. ASSUME NEW t \in Sessions, Revoke(t)
        PROVE  browser'[s].state = "revoked"
    <3>1. t # s /\ browser' = [browser EXCEPT ![t] = [browser[t] EXCEPT !.state = "revoked"]]
      BY <2>5 DEF Revoke
    <3> QED BY <2>1, <3>1
  <2>6. CASE \E c \in Callbacks : OpenSession(c)
    BY <2>3, <2>6
  <2>7. CASE \E t \in Sessions : Touch(t) \/ Revoke(t)
    BY <2>4, <2>5, <2>7
  <2> QED BY <2>2, <2>6, <2>7 DEF NextSignIn, BeginLogin, IssueCode, CallbackRead, Consume,
        Exchange, Resolve, CallbackFails, LoadForTouch, SuspendAccount, Pass
<1> QED BY <1>1, SignInInvariant, PTL DEF SignInSpec, RevokedStaysRevoked

----------------------------------------------------------------------------
(* The provider's keys: the inductive invariant *)

KeysTyped ==
    /\ tick \in 0..EndOfTime
    /\ published \subseteq Keys /\ published # {}
    /\ withdrawn \in [Keys -> Int] /\ unknown \in [Keys -> -1..EndOfTime]
    /\ reachable \in BOOLEAN
    /\ jwks = None \/ jwks \in [loaded : 0..tick, keys : SUBSET Keys]

\* A key of the cached set has been published since, or was when it was loaded.
CacheExplained ==
    \A k \in jwks.keys : k \in published \/ withdrawn[k] >= jwks.loaded

KeysHeld == KeysTyped /\ CacheExplained

LEMMA KeysStart == ASSUME SigningKeysAssumption, InitKeys PROVE KeysHeld
<1> USE DEF SigningKeysAssumption, InitKeys
<1>1. KeysTyped
  BY DEF KeysTyped
<1>2. jwks.keys = {}
  BY DEF None
<1> QED BY <1>1, <1>2 DEF KeysHeld, CacheExplained

\* What get_jwks returns, cached or downloaded.
LEMMA KeysServed ==
    ASSUME SigningKeysAssumption, KeysHeld, NEW force \in BOOLEAN
    PROVE  /\ JwksAfter(force) \in [loaded : 0..tick, keys : SUBSET Keys]
           /\ \A k \in JwksAfter(force).keys :
                k \in published \/ withdrawn[k] >= JwksAfter(force).loaded
           /\ JwksAfter(force).keys = published \/
              (JwksAfter(force) = jwks /\ jwks # None /\ tick - jwks.loaded < JwksTTL)
<1> DEFINE new == [loaded |-> tick, keys |-> published]
<1>1. new \in [loaded : 0..tick, keys : SUBSET Keys] /\ new.keys = published
  BY DEF KeysHeld, KeysTyped
<1>2. CASE ~force /\ Fresh(jwks, JwksTTL)
  <2>1. JwksAfter(force) = jwks /\ jwks # None /\ tick - jwks.loaded < JwksTTL
    BY <1>2 DEF JwksAfter, Fresh
  <2> QED BY <2>1 DEF KeysHeld, KeysTyped, CacheExplained
<1>3. CASE ~(~force /\ Fresh(jwks, JwksTTL))
  <2>1. JwksAfter(force) = new
    BY <1>3 DEF JwksAfter
  <2> HIDE DEF new
  <2> QED BY <1>1, <2>1
<1> QED BY <1>2, <1>3

LEMMA LookupKeeps ==
    ASSUME SigningKeysAssumption, KeysHeld, NEW k \in Keys, Use(k)
    PROVE  KeysHeld'
<1> USE DEF Use
<1>1. UNCHANGED <<tick, published, withdrawn, reachable>>
  OBVIOUS
<1>2. jwks' \in {jwks, JwksAfter(FALSE), JwksAfter(TRUE)}
  BY DEF Lookup
<1>3. unknown' \in [Keys -> -1..EndOfTime]
  <2>1. tick \in -1..EndOfTime /\ -1 \in -1..EndOfTime
    BY DEF KeysHeld, KeysTyped, SigningKeysAssumption
  <2>2. PICK u \in {-1, tick} : unknown' = unknown \/ unknown' = [unknown EXCEPT ![k] = u]
    BY DEF Lookup
  <2> QED BY <2>1, <2>2 DEF KeysHeld, KeysTyped
<1>4. jwks' = None \/ jwks' \in [loaded : 0..tick, keys : SUBSET Keys]
  BY <1>2, KeysServed DEF KeysHeld, KeysTyped
<1>5. \A j \in jwks'.keys : j \in published \/ withdrawn[j] >= jwks'.loaded
  BY <1>2, KeysServed DEF KeysHeld, CacheExplained
<1> QED BY <1>1, <1>3, <1>4, <1>5 DEF KeysHeld, KeysTyped, CacheExplained

LEMMA ProviderKeeps ==
    ASSUME SigningKeysAssumption, KeysHeld,
           (\E k \in Keys : Publish(k) \/ Withdraw(k)) \/ Outage \/ Second
    PROVE  KeysHeld'
<1> USE DEF KeysHeld, KeysTyped, CacheExplained
<1>1. ASSUME NEW k \in Keys, Publish(k) PROVE KeysHeld'
  BY <1>1 DEF Publish
<1>2. ASSUME NEW k \in Keys, Withdraw(k) PROVE KeysHeld'
  <2>1. KeysTyped'
    BY <1>2 DEF Withdraw
  <2>2. jwks.loaded \in Int /\ jwks.loaded <= tick
    BY SigningKeysAssumption DEF None, SigningKeysAssumption
  <2>3. jwks' = jwks /\ published' = published \ {k}
        /\ withdrawn' = [withdrawn EXCEPT ![k] = tick]
    BY <1>2 DEF Withdraw
  <2>4. CacheExplained'
    <3>1. ASSUME NEW j \in jwks.keys
          PROVE  j \in published' \/ withdrawn'[j] >= jwks.loaded
      <4>1. j \in Keys
        BY DEF None
      <4>2. CASE j = k
        BY <2>2, <2>3, <4>1, <4>2
      <4>3. CASE j # k
        BY <2>3, <4>1, <4>3
      <4> QED BY <4>2, <4>3
    <3> QED BY <2>3, <3>1
  <2> QED BY <2>1, <2>4
<1>3. CASE Outage
  BY <1>3 DEF Outage
<1>4. CASE Second
  <2>1. tick' = tick + 1 /\ tick' \in 0..EndOfTime
        /\ UNCHANGED <<published, withdrawn, reachable, jwks, unknown>>
    BY <1>4, SigningKeysAssumption DEF Second, SigningKeysAssumption
  <2>2. jwks = None \/ jwks \in [loaded : 0..tick', keys : SUBSET Keys]
    BY <2>1
  <2> QED BY <2>1, <2>2
<1> QED BY <1>1, <1>2, <1>3, <1>4

\* The invariant of the cache: it holds no key that was withdrawn before it was
\* loaded (oidc.py:249-306).
THEOREM KeysInvariant == KeysSpec => []KeysHeld
<1> USE SigningKeysAssumption
<1>1. KeysHeld /\ [NextKeys]_keyVars => KeysHeld'
  <2> SUFFICES ASSUME KeysHeld, [NextKeys]_keyVars PROVE KeysHeld'
    OBVIOUS
  <2>1. CASE UNCHANGED keyVars
    BY <2>1 DEF keyVars, KeysHeld, KeysTyped, CacheExplained
  <2>2. CASE NextKeys
    BY <2>2, LookupKeeps, ProviderKeeps DEF NextKeys
  <2> QED BY <2>1, <2>2
<1> QED BY <1>1, KeysStart, PTL DEF KeysSpec

\* What a lookup says of a key is so, or was less than a life of the cache ago
\* (oidc.py:249-306).
LEMMA LookupAnswers ==
    ASSUME SigningKeysAssumption, KeysHeld, NEW k \in Keys, Use(k), verdict' # verdict
    PROVE  /\ verdict'.key = k
           /\ \/ /\ verdict'.answer = "accepted"
                 /\ k \in published \/ tick - withdrawn[k] < JwksTTL
              \/ /\ verdict'.answer = "unknown"
                 /\ k \in published => tick - unknown[k] < UnknownTTL
              \/ /\ verdict'.answer = "unavailable"
                 /\ ~reachable /\ ~(Fresh(jwks, JwksTTL) /\ k \in jwks.keys)
<1>0. Lookup(k)
  BY DEF Use
<1>1. CASE RecentlyUnknown(k) /\ Answer(k, "unknown")
  BY <1>1 DEF RecentlyUnknown, Answer
<1>2. CASE ~JwksAvailable(FALSE) /\ Answer(k, "unavailable")
  BY <1>2 DEF JwksAvailable, Answer
<1>3. CASE k \in JwksAfter(FALSE).keys /\ Answer(k, "accepted")
  <2>1. k \in published \/ tick - withdrawn[k] < JwksTTL
    <3>1. CASE JwksAfter(FALSE).keys = published
      BY <1>3, <3>1
    <3>2. CASE JwksAfter(FALSE) = jwks /\ jwks # None /\ tick - jwks.loaded < JwksTTL
      <4>1. jwks.loaded \in Int /\ tick \in Int /\ withdrawn[k] \in Int /\ JwksTTL \in Int
        BY <3>2 DEF KeysHeld, KeysTyped, SigningKeysAssumption
      <4>2. k \in published \/ withdrawn[k] >= jwks.loaded
        BY <1>3, <3>2 DEF KeysHeld, CacheExplained
      <4> QED BY <3>2, <4>1, <4>2
    <3> QED BY <3>1, <3>2, KeysServed
  <2> QED BY <1>3, <2>1 DEF Answer
<1>4. CASE /\ k \notin JwksAfter(FALSE).keys /\ ~reachable
           /\ Answer(k, "unavailable")
  <2>1. Fresh(jwks, JwksTTL) => JwksAfter(FALSE) = jwks
    BY DEF JwksAfter
  <2> QED BY <1>4, <2>1 DEF Answer
<1>5. CASE Answer(k, IF k \in published THEN "accepted" ELSE "unknown")
  BY <1>5 DEF Answer
<1> QED BY <1>0, <1>1, <1>2, <1>3, <1>4, <1>5 DEF Lookup

\* The cache's answers, for any keys, rotations and outages, and any lives of what
\* it holds (oidc.py:249-306).
THEOREM AnswersAreSound == KeysSpec => AnswersSound
<1> USE SigningKeysAssumption
<1> DEFINE Sound(k) ==
        CASE verdict'.answer = "accepted" ->
                k \in published \/ tick - withdrawn[k] < JwksTTL
          [] verdict'.answer = "unknown" ->
                k \in published => tick - unknown[k] < UnknownTTL
          [] verdict'.answer = "unavailable" ->
                ~reachable /\ ~(Fresh(jwks, JwksTTL) /\ k \in jwks.keys)
<1>1. KeysHeld' => KeysTypeOK'
  <2> SUFFICES ASSUME KeysHeld' PROVE KeysTypeOK'
    OBVIOUS
  <2>1. jwks'.keys \subseteq Keys /\ jwks'.loaded \in -1..tick'
    BY DEF KeysHeld, KeysTyped, None
  <2> QED BY <2>1 DEF KeysHeld, KeysTyped, KeysTypeOK
<1>2. ASSUME KeysHeld, NextKeys, NEW k \in Keys, verdict' # verdict, verdict'.key = k
      PROVE  Sound(k)
  <2>1. PICK j \in Keys : Use(j)
    <3>1. ~(Outage \/ \E j \in Keys : Publish(j) \/ Withdraw(j))
      BY <1>2 DEF Outage, Publish, Withdraw
    <3>2. ~Second
      BY <1>2 DEF Second, NoVerdict, SigningKeysAssumption
    <3> QED BY <1>2, <3>1, <3>2 DEF NextKeys
  <2>2. j = k
    BY <1>2, <2>1, LookupAnswers
  <2> QED BY <1>2, <2>1, <2>2, LookupAnswers
<1>3. KeysHeld /\ KeysHeld' /\ [NextKeys]_keyVars =>
        [KeysTypeOK' /\ \A k \in Keys : verdict' # verdict /\ verdict'.key = k => Sound(k)]_keyVars
  <2> HIDE DEF Sound
  <2> SUFFICES ASSUME KeysHeld, KeysHeld', NextKeys
               PROVE  KeysTypeOK' /\ \A k \in Keys :
                        verdict' # verdict /\ verdict'.key = k => Sound(k)
    OBVIOUS
  <2> QED BY <1>1, <1>2
<1> QED BY <1>3, KeysInvariant, PTL DEF AnswersSound, KeysSpec

----------------------------------------------------------------------------
(* Membership: an active owner remains as long as no request writes over a  *)
(* row it has not seen, and every other change is audited, authorized and   *)
(* final once revoked.  Both follow from what a request in progress carries *)
(* with it: it was authorized on a row, which is still the membership's     *)
(* unless somebody wrote it meanwhile, and the status it will set is one    *)
(* that row may go to.                                                      *)

Row == [role : Roles, status : Statuses \cup {"none"}, version : Nat]

Request == [pc : {"create", "update"}, owner : BOOLEAN, target : Principals, seen : Row,
            role : Roles, status : Statuses]

MembersType ==
    /\ principals \in [Principals -> {"pending", "active", "suspended", "disabled"}]
    /\ members \in [Principals -> Row]
    /\ audit \in [Principals -> Nat]
    /\ requests \in [Requests -> Request \cup {Ready}]
    /\ overwritten \subseteq Principals

\* A principal has no membership, or one with a status, which it keeps.
MembersExist ==
    \A p \in Principals :
        members[p].status = "none" => members[p] = NoMember /\ audit[p] = 0

\* What a request was allowed, on the row it loaded.
Allowed ==
    \A r \in Requests :
        /\ requests[r].pc = "create" => requests[r].seen = NoMember
        /\ requests[r].pc = "update" =>
             /\ members[requests[r].target].status # "none"
             /\ requests[r].seen.status # "none"
             /\ requests[r].status \in StatusTransitions(requests[r].seen.status)
             /\ "owner" \in {requests[r].seen.role, requests[r].role} => requests[r].owner

Administered ==
    /\ MembersType
    /\ MembersExist
    /\ Allowed
    /\ overwritten = {} => Owners # {}

-----------------------------------------------------------------------------
(* What the administration's operators yield *)

LEMMA TransitionsTyped ==
  ASSUME NEW from \in Statuses
  PROVE  /\ StatusTransitions(from) \subseteq Statuses
         /\ from = "revoked" => StatusTransitions(from) = {"revoked"}
BY DEF StatusTransitions, Statuses

\* Only an owner may grant an owner's role.
LEMMA OwnersGrant ==
  ASSUME NEW role, "member.grant_owner" \in Capabilities(role)
  PROVE  role = "owner"
BY DEF Capabilities, Administration, Work

LEMMA PrincipalsMove ==
  ASSUME NEW from
  PROVE  PrincipalTransitions(from) \subseteq {"pending", "active", "suspended", "disabled"}
BY DEF PrincipalTransitions

LEMMA NoMemberTyped == NoMember \in Row
BY DEF NoMember, Row, Roles, Statuses

LEMMA ReadyApart == Ready.pc = "ready" /\ Ready \notin Request
BY DEF Ready, Request

\* Another owner remains beside one of several.
LEMMA AnotherOwner ==
  ASSUME NEW p \in Owners, Cardinality(Owners) > 1
  PROVE  \E q \in Owners : q # p
<1>1. SUFFICES ASSUME Owners = {p} PROVE FALSE
  OBVIOUS
<1>2. Cardinality(Owners) = 1
  BY <1>1, FS_Singleton
<1>3. QED
  BY <1>2

-----------------------------------------------------------------------------
LEMMA MembersInit == InitMembers => Administered
<1> SUFFICES ASSUME InitMembers PROVE Administered
  OBVIOUS
<1>1. [role |-> "owner", status |-> "active", version |-> 1] \in Row
  BY DEF Row, Roles, Statuses
<1>2. MembersType
  BY <1>1, NoMemberTyped DEF InitMembers, MembersType, Row
<1>3. MembersExist
  BY DEF InitMembers, MembersExist, NoMember
<1>4. Allowed
  BY ReadyApart DEF InitMembers, Allowed
<1>5. PICK p \in Founders : TRUE
  BY MembershipAssumption
<1>6. p \in Owners
  BY <1>5, MembershipAssumption DEF Owners, InitMembers
<1>7. QED
  BY <1>2, <1>3, <1>4, <1>6 DEF Administered

\* Opening a request changes no membership.
LEMMA OpenKeeps ==
  ASSUME Administered, NEW r \in Requests, NEW request \in Request,
         requests' = [requests EXCEPT ![r] = request],
         UNCHANGED <<principals, members, audit, overwritten>>,
         request.pc = "create" => request.seen = NoMember,
         request.pc = "update" =>
             /\ members[request.target].status # "none"
             /\ request.seen.status # "none"
             /\ request.status \in StatusTransitions(request.seen.status)
             /\ "owner" \in {request.seen.role, request.role} => request.owner
  PROVE  Administered'
<1>1. MembersType'
  BY DEF Administered, MembersType
<1>2. MembersExist' /\ Owners' = Owners
  BY DEF Administered, MembersExist, Owners
<1>3. Allowed'
  BY DEF Administered, MembersType, Allowed
<1>4. QED
  BY <1>1, <1>2, <1>3 DEF Administered

LEMMA CreateOpens ==
  ASSUME Administered, NEW r \in Requests, NEW actor \in Principals, NEW p \in Principals,
         NEW role \in Grants, NEW status \in Statuses, OpenCreate(r, actor, p, role, status)
  PROVE  Administered'
<1> DEFINE request == [pc |-> "create", owner |-> members[actor].role = "owner", target |-> p,
                       seen |-> NoMember, role |-> role, status |-> status]
<1>1. request \in Request
  BY NoMemberTyped, MembershipAssumption DEF Request
<1>2. request.pc = "create" /\ request.seen = NoMember
  OBVIOUS
<1>3. requests' = [requests EXCEPT ![r] = request] /\ UNCHANGED <<principals, members, audit, overwritten>>
  BY DEF OpenCreate
<1> HIDE DEF request
<1>4. QED
  BY <1>1, <1>2, <1>3, OpenKeeps

\* An update, or a revocation, of a row as it is.
LEMMA UpdateOpens ==
  ASSUME Administered, NEW r \in Requests, NEW actor \in Principals, NEW p \in Principals,
         NEW role \in Roles, NEW status \in Statuses, OpenUpdate(r, actor, p, role, status)
  PROVE  Administered'
<1> DEFINE request == [pc |-> "update", owner |-> members[actor].role = "owner", target |-> p,
                       seen |-> members[p], role |-> role, status |-> status]
<1>1. request \in Request
  BY DEF Request, Administered, MembersType
<1>2. /\ request.pc = "update" /\ request.target = p /\ request.seen = members[p]
      /\ request.status = status /\ request.role = role
      /\ request.owner = (members[actor].role = "owner")
  OBVIOUS
<1>3. /\ requests' = [requests EXCEPT ![r] = request]
      /\ UNCHANGED <<principals, members, audit, overwritten>>
      /\ members[p].status # "none" /\ status \in StatusTransitions(members[p].status)
      /\ MayManage(actor, members[p].role, role)
  BY DEF OpenUpdate
<1>4. "owner" \in {members[p].role, role} => members[actor].role = "owner"
  BY <1>3, OwnersGrant DEF MayManage
<1> HIDE DEF request
<1>5. QED
  BY <1>1, <1>2, <1>3, <1>4, OpenKeeps

\* Requests that are in progress and those that are over keep what they have.
LEMMA AllowedKept ==
  ASSUME MembersType, Allowed, NEW r \in Requests,
         requests' = [requests EXCEPT ![r] = Ready],
         \A p \in Principals : members[p].status # "none" => members'[p].status # "none"
  PROVE  Allowed'
<1> SUFFICES ASSUME NEW q \in Requests
             PROVE  /\ requests'[q].pc = "create" => requests'[q].seen = NoMember
                    /\ requests'[q].pc = "update" =>
                         /\ members'[requests'[q].target].status # "none"
                         /\ requests'[q].seen.status # "none"
                         /\ requests'[q].status \in StatusTransitions(requests'[q].seen.status)
                         /\ "owner" \in {requests'[q].seen.role, requests'[q].role}
                              => requests'[q].owner
  BY DEF Allowed
<1>1. CASE q = r
  BY <1>1, ReadyApart DEF MembersType
<1>2. CASE q # r
  <2>1. requests'[q] = requests[q]
    BY <1>2 DEF MembersType
  <2>2. requests[q].pc \in {"create", "update"} => requests[q].target \in Principals
    BY ReadyApart DEF MembersType, Request
  <2>3. QED
    BY <2>1, <2>2 DEF Allowed
<1>3. QED
  BY <1>1, <1>2

\* What a request writes: a typed row with a status; of the row it has seen, it
\* writes what it was opened with.
LEMMA RowWritten ==
  ASSUME Administered, NEW r \in Requests, requests[r].pc = "update"
  PROVE  LET p == requests[r].target
             row == Written(members[p], requests[r]) IN
         /\ requests[r] \in Request /\ p \in Principals
         /\ row \in Row /\ row.status # "none" /\ row.version = requests[r].seen.version + 1
         /\ members[p] = requests[r].seen =>
              row.role = requests[r].role /\ row.status = requests[r].status
<1>1. requests[r] \in Request
  BY ReadyApart DEF Administered, MembersType
<1>2. requests[r].target \in Principals /\ members[requests[r].target] \in Row
      /\ requests[r].role \in Roles /\ requests[r].status \in Statuses
      /\ requests[r].seen.version \in Nat /\ requests[r].seen \in Row
  BY <1>1 DEF Request, Administered, MembersType, Row
<1>3. members[requests[r].target].status \in Statuses
  BY <1>2 DEF Administered, Allowed, Row
<1>4. requests[r].seen.version + 1 \in Nat
  BY <1>2
<1>5. "none" \notin Statuses
  BY DEF Statuses
<1>6. QED
  BY <1>1, <1>2, <1>3, <1>4, <1>5 DEF Written, Row

LEMMA CommitKeeps ==
  ASSUME Administered, NEW r \in Requests, CommitCreate(r) \/ CommitUpdate(r)
  PROVE  Administered'
<1> DEFINE p == requests[r].target
           row == IF requests[r].pc = "create"
                  THEN [role |-> requests[r].role, status |-> requests[r].status, version |-> 1]
                  ELSE Written(members[p], requests[r])
<1>1. requests[r] \in Request /\ p \in Principals /\ requests[r].pc \in {"create", "update"}
  BY ReadyApart DEF Administered, MembersType, Request, CommitCreate, CommitUpdate
<1>2. row \in Row /\ row.status # "none"
  <2>1. CASE requests[r].pc = "create"
    <3>1. requests[r].role \in Roles /\ requests[r].status \in Statuses /\ "none" \notin Statuses
      BY <1>1 DEF Request, Statuses
    <3>2. QED
      BY <2>1, <3>1 DEF Row
  <2>2. CASE requests[r].pc = "update"
    BY <2>2, RowWritten
  <2>3. QED
    BY <1>1, <2>1, <2>2
<1>3. /\ members' = [members EXCEPT ![p] = row]
      /\ audit' = [audit EXCEPT ![p] = @ + 1]
      /\ overwritten' = IF members[p] # requests[r].seen THEN overwritten \cup {p} ELSE overwritten
      /\ requests' = [requests EXCEPT ![r] = Ready]
      /\ UNCHANGED principals
  BY <1>1 DEF CommitCreate, CommitUpdate, Apply
<1>4. MembersType'
  BY <1>1, <1>2, <1>3 DEF Administered, MembersType
<1>5. MembersExist'
  BY <1>1, <1>2, <1>3 DEF Administered, MembersType, MembersExist
<1>6. Allowed'
  <2>1. \A q \in Principals : members[q].status # "none" => members'[q].status # "none"
    BY <1>1, <1>2, <1>3 DEF Administered, MembersType
  <2>2. QED
    BY <1>3, <2>1, AllowedKept DEF Administered
<1>7. ASSUME overwritten' = {} PROVE Owners' # {}
  <2>1. overwritten = {} /\ members[p] = requests[r].seen
    BY <1>3, <1>7
  <2>2. \A q \in Owners : q # p => q \in Owners'
    BY <1>3 DEF Owners, Administered, MembersType
  <2>3. CASE p \notin Owners
    BY <2>1, <2>2, <2>3 DEF Administered
  <2>4. CASE p \in Owners
    <3>1. requests[r].pc = "update" /\ OwnerProtected(requests[r])
      BY <2>4 DEF CommitCreate, CommitUpdate, Owners, NoMember
    <3>2. row.role = requests[r].role /\ row.status = requests[r].status
      BY <2>1, <3>1, RowWritten
    <3>3. CASE requests[r].role = "owner" /\ requests[r].status = "active"
      <4>1. p \in Owners'
        BY <1>1, <1>3, <3>2, <3>3 DEF Owners, Administered, MembersType
      <4>2. QED
        BY <4>1
    <3>4. CASE ~ (requests[r].role = "owner" /\ requests[r].status = "active")
      <4>1. Cardinality(Owners) > 1
        BY <2>1, <2>4, <3>1, <3>4 DEF OwnerProtected, Owners
      <4>2. QED
        BY <2>2, <2>4, <4>1, AnotherOwner
    <3>5. QED
      BY <3>3, <3>4
  <2>5. QED
    BY <2>3, <2>4
<1>8. QED
  BY <1>4, <1>5, <1>6, <1>7 DEF Administered

LEMMA RollBackKeeps ==
  ASSUME Administered, NEW r \in Requests, RollBack(r)
  PROVE  Administered'
<1>1. /\ requests' = [requests EXCEPT ![r] = Ready]
      /\ UNCHANGED <<principals, members, audit, overwritten>>
  BY DEF RollBack
<1>2. MembersType' /\ MembersExist' /\ Owners' = Owners
  BY <1>1 DEF Administered, MembersType, MembersExist, Owners
<1>3. Allowed'
  BY <1>1, AllowedKept DEF Administered
<1>4. QED
  BY <1>1, <1>2, <1>3 DEF Administered

LEMMA PrincipalsKeep ==
  ASSUME Administered, NEW p \in Principals, TransitionPrincipal(p) \/ BootstrapOwner(p)
  PROVE  Administered'
<1>1. CASE TransitionPrincipal(p)
  <2>1. MembersType'
    BY <1>1, PrincipalsMove DEF TransitionPrincipal, Administered, MembersType
  <2>2. MembersExist' /\ Allowed' /\ Owners' = Owners
    BY <1>1 DEF TransitionPrincipal, Administered, MembersExist, Allowed, Owners
  <2>3. QED
    BY <1>1, <2>1, <2>2 DEF TransitionPrincipal, Administered
<1>2. CASE BootstrapOwner(p)
  <2> DEFINE row == [role |-> "owner", status |-> "active", version |-> 1]
  <2>1. row \in Row /\ row.role = "owner" /\ row.status = "active"
    BY DEF Row, Roles, Statuses
  <2>2. /\ members' = [members EXCEPT ![p] = row] /\ audit' = [audit EXCEPT ![p] = 1]
        /\ UNCHANGED <<principals, requests, overwritten>>
    BY <1>2 DEF BootstrapOwner
  <2> HIDE DEF row
  <2>3. MembersType' /\ MembersExist'
    BY <2>1, <2>2 DEF Administered, MembersType, MembersExist
  <2>4. Allowed'
    <3>1. \A q \in Requests : requests[q].pc = "update" => requests[q].target \in Principals
      BY ReadyApart DEF Administered, MembersType, Request
    <3>2. \A q \in Principals : members[q].status # "none" => members'[q].status # "none"
      BY <2>1, <2>2 DEF Administered, MembersType
    <3>3. QED
      BY <2>2, <3>1, <3>2 DEF Administered, Allowed
  <2>5. p \in Owners'
    BY <2>1, <2>2 DEF Owners, Administered, MembersType
  <2>6. QED
    BY <2>3, <2>4, <2>5 DEF Administered
<1>3. QED
  BY <1>1, <1>2

\* The strengthening every property below rests on (membership_admin.py:40-215).
THEOREM MembersAdministered == MembersSpec => []Administered
<1>1. ASSUME Administered, [NextMembers]_memberVars PROVE Administered'
  <2>1. CASE UNCHANGED memberVars
    BY <1>1, <2>1 DEF memberVars, Administered, MembersType, MembersExist, Allowed, Owners
  <2>2. ASSUME NEW r \in Requests, NEW actor \in Principals, NEW p \in Principals,
               OpenRevoke(r, actor, p)
        PROVE  Administered'
    <3>1. members[p].role \in Roles /\ "revoked" \in Statuses
      BY <1>1 DEF Administered, MembersType, Row, Statuses
    <3>2. QED
      BY <1>1, <2>2, <3>1, UpdateOpens DEF OpenRevoke
  <2>3. QED
    BY <1>1, <2>1, <2>2, CreateOpens, UpdateOpens, CommitKeeps, RollBackKeeps, PrincipalsKeep,
       MembershipAssumption DEF NextMembers
<1>2. QED
  BY <1>1, MembersInit, PTL DEF MembersSpec

\* An organization retains an active owner unless a membership was written on an
\* older row (_protect_last_owner).
THEOREM OwnerKept == MembersSpec => []OwnerRemains
<1>1. Administered => OwnerRemains
  BY ReadyApart DEF Administered, MembersType, OwnerRemains, MembersTypeOK, Row, Request
<1>2. QED
  BY <1>1, MembersAdministered, PTL

\* Every change of a membership as it was loaded is audited with it, keeps a
\* revoked one revoked, and touches an owner only on an owner's request.
THEOREM ChangesAuthorized == MembersSpec => AuthorizedChanges
<1> DEFINE Rightly(p) ==
      members'[p] # members[p] =>
        /\ audit'[p] = audit[p] + (members'[p].version - members[p].version)
        /\ members[p].status = "revoked" => members'[p].status = "revoked"
        /\ members[p].status # "none" /\ (members[p].role = "owner") # (members'[p].role = "owner")
             => \E r \in Requests : requests[r] # Ready /\ requests'[r] = Ready
                                    /\ requests[r].owner
<1>1. ASSUME Administered, NEW r \in Requests, CommitCreate(r) \/ CommitUpdate(r),
             NEW p \in Principals \ overwritten'
      PROVE  Rightly(p)
  <2>1. requests[r] \in Request /\ requests[r] # Ready
    BY <1>1, ReadyApart DEF Administered, MembersType, Request, CommitCreate, CommitUpdate
  <2>2. CASE p # requests[r].target
    BY <1>1, <2>2 DEF CommitCreate, CommitUpdate, Apply, Administered, MembersType
  <2>3. CASE p = requests[r].target /\ CommitCreate(r)
    <3>1. members'[p].version = 1 /\ members[p] = NoMember
      BY <1>1, <2>3 DEF CommitCreate, Apply, Administered, MembersType
    <3>2. audit'[p] = audit[p] + 1 /\ audit[p] = 0
      BY <1>1, <2>3, <3>1 DEF CommitCreate, Apply, Administered, MembersType, MembersExist, NoMember
    <3>3. QED
      BY <3>1, <3>2 DEF NoMember
  <2>4. CASE p = requests[r].target /\ CommitUpdate(r)
    <3>1. members[p] = requests[r].seen /\ requests'[r] = Ready
      BY <1>1, <2>4 DEF CommitUpdate, Apply, Administered, MembersType
    <3>2. members'[p] = Written(members[p], requests[r]) /\ audit'[p] = audit[p] + 1
      BY <1>1, <2>4 DEF CommitUpdate, Apply, Administered, MembersType
    <3>3. /\ members'[p].version = members[p].version + 1
          /\ members'[p].status = requests[r].status /\ members'[p].role = requests[r].role
      BY <1>1, <2>4, <3>1, <3>2, RowWritten DEF CommitUpdate
    <3>4. members[p].version \in Nat /\ audit[p] \in Nat /\ members[p].status \in Statuses
      BY <1>1, <2>4, <3>1 DEF CommitUpdate, Administered, MembersType, Allowed, Row
    <3>5. /\ requests[r].status \in StatusTransitions(members[p].status)
          /\ "owner" \in {members[p].role, requests[r].role} => requests[r].owner
      BY <1>1, <2>4, <3>1 DEF CommitUpdate, Administered, Allowed
    <3>6. audit'[p] = audit[p] + (members'[p].version - members[p].version)
      BY <3>2, <3>3, <3>4
    <3>7. members[p].status = "revoked" => members'[p].status = "revoked"
      BY <3>3, <3>4, <3>5, TransitionsTyped
    <3>8. (members[p].role = "owner") # (members'[p].role = "owner") => requests[r].owner
      BY <3>3, <3>5
    <3>9. QED
      BY <2>1, <3>1, <3>6, <3>7, <3>8
  <2>5. QED
    BY <1>1, <2>2, <2>3, <2>4
<1>2. ASSUME Administered, NEW q \in Principals, BootstrapOwner(q),
             NEW p \in Principals \ overwritten'
      PROVE  Rightly(p)
  <2>1. CASE p # q
    BY <1>2, <2>1 DEF BootstrapOwner, Administered, MembersType
  <2>2. CASE p = q
    <3>1. members[p] = NoMember /\ members'[p].version = 1 /\ audit'[p] = 1
      BY <1>2, <2>2 DEF BootstrapOwner, Administered, MembersType
    <3>2. audit[p] = 0
      BY <1>2, <2>2, <3>1 DEF Administered, MembersExist, NoMember
    <3>3. QED
      BY <3>1, <3>2 DEF NoMember
  <2>3. QED
    BY <2>1, <2>2
<1>3. ASSUME Administered, [NextMembers]_memberVars
      PROVE  [\A p \in Principals \ overwritten' : Rightly(p)]_memberVars
  <2>1. CASE UNCHANGED members
    BY <2>1
  <2>2. QED
    BY <1>1, <1>2, <1>3, <2>1 DEF NextMembers, OpenCreate, OpenUpdate, OpenRevoke, RollBack,
       TransitionPrincipal, memberVars
<1>4. QED
  BY <1>3, MembersAdministered, PTL DEF MembersSpec, AuthorizedChanges
=============================================================================
