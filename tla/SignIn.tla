------------------------------- MODULE SignIn -------------------------------
(***************************************************************************)
(* Signing in with the authorization-code flow: a login transaction is     *)
(* begun, the provider authenticates a person and redirects to the         *)
(* callback with the transaction's state and a code, the callback consumes *)
(* the transaction, exchanges the code, resolves or creates the principal  *)
(* and opens a browser session, which requests then use until it is        *)
(* revoked or expires.                                                     *)
(*                                                                         *)
(* The callback is as many steps as it has commits and calls of the        *)
(* provider.  The provider is external: a code is good once.               *)
(***************************************************************************)
EXTENDS Integers, FiniteSets

CONSTANTS
    People,        \* subjects at the provider
    Known,         \* those whose principal exists from the start
    Logins,        \* login transactions
    Codes,         \* authorization codes the provider issues
    Callbacks,     \* callback requests in progress
    Sessions,      \* browser sessions that can be opened
    Provisionings, \* values of oidc_principal_provisioning that are deployed
    LoginLife,     \* oidc_login_ttl_minutes
    TokenLife,     \* life of an access token
    SessionLife,   \* oidc_session_max_minutes
    LastTime       \* bound: clock

ASSUME SignInAssumption ==
    /\ Known \subseteq People
    /\ Provisionings \subseteq {"existing_only", "auto_active", "auto_pending"}
    /\ LoginLife \in Nat \ {0} /\ TokenLife \in Nat \ {0} /\ SessionLife \in Nat \ {0}
    /\ LastTime \in Nat

VARIABLES
    clock,
    provisioning,  \* oidc_principal_provisioning, fixed at start
    accounts,   \* status of the principal of each person, "none" without one
    logins,     \* oidc_login_transactions
    codes,      \* what the provider knows of each code: login, person, state
    callbacks,  \* callback requests in progress
    browser,    \* browser_auth_sessions
    touches,    \* sessions a touch has loaded: session -> row
    raced       \* logins that a second callback loaded before the first consumed

signInVars == <<clock, provisioning, accounts, logins, codes, callbacks, browser, touches, raced>>

NoLogin == [state |-> "none", expires |-> 0]
NoCode == [state |-> "none"]
Free == [pc |-> "free"]
NoBrowser == [state |-> "none"]

InitSignIn ==
    /\ clock = 0 /\ provisioning \in Provisionings
    /\ accounts = [p \in People |-> IF p \in Known THEN "active" ELSE "none"]
    /\ logins = [l \in Logins |-> NoLogin]
    /\ codes = [k \in Codes |-> NoCode]
    /\ callbacks = [c \in Callbacks |-> Free]
    /\ browser = [s \in Sessions |-> NoBrowser]
    /\ touches = {}
    /\ raced = {}

----------------------------------------------------------------------------

BeginLogin(l) ==
    /\ logins[l] = NoLogin
    /\ logins' = [logins EXCEPT ![l] = [state |-> "pending", expires |-> clock + LoginLife]]
    /\ UNCHANGED <<clock, provisioning, accounts, codes, callbacks, browser, touches, raced>>

\* The provider authenticates p for the redirect of l; going back and
\* confirming again issues another code for the same state.
IssueCode(k, l, p) ==
    /\ codes[k] = NoCode /\ logins[l] # NoLogin
    /\ codes' = [codes EXCEPT ![k] = [state |-> "issued", login |-> l, person |-> p]]
    /\ UNCHANGED <<clock, provisioning, accounts, logins, callbacks, browser, touches, raced>>

\* Variant of Consumable: only the expiry is looked at.
ConsumableAgain(l) == logins[l].state # "none" /\ logins[l].expires > clock

Consumable(l) == logins[l].state = "pending" /\ logins[l].expires > clock

\* complete_login loads the transaction.
CallbackRead(c, k) ==
    /\ callbacks[c] = Free
    /\ codes[k] # NoCode
    /\ Consumable(codes[k].login)
    /\ callbacks' = [callbacks EXCEPT ![c] = [pc |-> "loaded", code |-> k, seen |-> logins[codes[k].login].state]]
    /\ UNCHANGED <<clock, provisioning, accounts, logins, codes, browser, touches, raced>>

\* It consumes the transaction, whoever else has loaded it, and decrypts the
\* verifier, which has the same life.
Consume(c) ==
    LET l == codes[callbacks[c].code].login IN
    /\ callbacks[c].pc = "loaded"
    /\ logins' = [logins EXCEPT ![l].state = "consumed"]
    /\ raced' = IF callbacks[c].seen # logins[l].state THEN raced \cup {l} ELSE raced
    /\ callbacks' = [callbacks EXCEPT ![c] =
            IF clock <= logins[l].expires
            THEN [pc |-> "consumed", code |-> callbacks[c].code] ELSE Free]
    /\ UNCHANGED <<clock, provisioning, accounts, codes, browser, touches>>

\* exchange_code, and the validation of both tokens.
Exchange(c) ==
    LET k == callbacks[c].code IN
    /\ callbacks[c].pc = "consumed"
    /\ codes' = [codes EXCEPT ![k].state = "used"]
    /\ callbacks' = [callbacks EXCEPT ![c] =
            IF codes[k].state = "issued"
            THEN [pc |-> "identified", code |-> k, tokenExpires |-> clock + TokenLife]
            ELSE Free]
    /\ UNCHANGED <<clock, provisioning, accounts, logins, browser, touches, raced>>

ProvisionedStatus == IF provisioning = "auto_active" THEN "active" ELSE "pending"

\* resolve_principal.  A principal that another callback inserts meanwhile
\* breaks the unique (issuer, subject) of the insert: the request fails.
Resolve(c) ==
    LET p == codes[callbacks[c].code].person IN
    /\ callbacks[c].pc = "identified"
    /\ IF accounts[p] = "none" /\ provisioning # "existing_only"
       THEN accounts' = [accounts EXCEPT ![p] = ProvisionedStatus]
       ELSE accounts' = accounts
    /\ callbacks' = [callbacks EXCEPT ![c] =
            IF accounts'[p] = "active" THEN [@ EXCEPT !.pc = "resolved"] ELSE Free]
    /\ UNCHANGED <<clock, provisioning, logins, codes, browser, touches, raced>>

SessionExpiry(tokenExpires) ==
    IF tokenExpires < clock + SessionLife THEN tokenExpires ELSE clock + SessionLife

OpenSession(c) ==
    LET k == callbacks[c].code IN
    /\ callbacks[c].pc = "resolved"
    /\ \E s \in Sessions :
        /\ browser[s] = NoBrowser
        /\ browser' = [browser EXCEPT ![s] =
               [state |-> "open", person |-> codes[k].person, login |-> codes[k].login,
                code |-> k, tokenExpires |-> callbacks[c].tokenExpires,
                expires |-> SessionExpiry(callbacks[c].tokenExpires), seen |-> clock]]
    /\ callbacks' = [callbacks EXCEPT ![c] = Free]
    /\ UNCHANGED <<clock, provisioning, accounts, logins, codes, touches, raced>>

\* The provider, the network or the process fails.
CallbackFails(c) ==
    /\ callbacks[c] # Free
    /\ callbacks' = [callbacks EXCEPT ![c] = Free]
    /\ UNCHANGED <<clock, provisioning, accounts, logins, codes, browser, touches, raced>>

----------------------------------------------------------------------------
(* Browser sessions *)

Authenticates(s) ==
    /\ browser[s].state = "open"
    /\ browser[s].expires > clock
    /\ accounts[browser[s].person] = "active"

\* authenticate_session loads the row and commits last_seen_at, in the code
\* after five minutes.
LoadForTouch(s) ==
    /\ browser[s] # NoBrowser
    /\ Authenticates(s) /\ browser[s].seen < clock
    /\ ~ \E touch \in touches : touch[1] = s
    /\ touches' = touches \cup {<<s, browser[s]>>}
    /\ UNCHANGED <<clock, provisioning, accounts, logins, codes, callbacks, browser, raced>>

\* Variant of Touched: the whole row is written back.
TouchedRow(current, loaded) == [loaded EXCEPT !.seen = clock]

\* Only the column that was set is written.
Touched(current, loaded) == [current EXCEPT !.seen = clock]

Touch(s) ==
    \E touch \in touches :
        /\ touch[1] = s
        /\ browser' = [browser EXCEPT ![s] = Touched(@, touch[2])]
        /\ touches' = touches \ {touch}
        /\ UNCHANGED <<clock, provisioning, accounts, logins, codes, callbacks, raced>>

\* revoke_session, from the logout endpoint.
Revoke(s) ==
    /\ browser[s].state = "open"
    /\ browser' = [browser EXCEPT ![s].state = "revoked"]
    /\ UNCHANGED <<clock, provisioning, accounts, logins, codes, callbacks, touches, raced>>

SuspendAccount(p) ==
    /\ accounts[p] \in {"active", "pending"}
    /\ accounts' = [accounts EXCEPT ![p] = IF @ = "active" THEN "suspended" ELSE "active"]
    /\ UNCHANGED <<clock, provisioning, logins, codes, callbacks, browser, touches, raced>>

Pass ==
    /\ clock < LastTime
    /\ clock' = clock + 1
    /\ UNCHANGED <<provisioning, accounts, logins, codes, callbacks, browser, touches, raced>>

NextSignIn ==
    \/ \E l \in Logins : BeginLogin(l) \/ \E k \in Codes, p \in People : IssueCode(k, l, p)
    \/ \E c \in Callbacks :
        \/ \E k \in Codes : CallbackRead(c, k)
        \/ Consume(c) \/ Exchange(c) \/ Resolve(c) \/ OpenSession(c) \/ CallbackFails(c)
    \/ \E s \in Sessions : LoadForTouch(s) \/ Touch(s) \/ Revoke(s)
    \/ \E p \in People : SuspendAccount(p)
    \/ Pass

SignInSpec == InitSignIn /\ [][NextSignIn]_signInVars

----------------------------------------------------------------------------
(* Properties *)

SignInTypeOK ==
    /\ clock \in 0..LastTime
    /\ \A c \in Callbacks : callbacks[c].pc \in
         {"free", "loaded", "consumed", "identified", "resolved"}
    /\ \A s \in Sessions : browser[s].state \in {"none", "open", "revoked"}
    /\ raced \subseteq Logins

Opened == {s \in Sessions : browser[s] # NoBrowser}

\* Every session was earned: a code opens at most one, a login transaction at
\* most one (oidc.py:566-639) unless two callbacks loaded it before either
\* consumed it; it never outlives the token it came from nor the configured
\* maximum; and under existing_only it belongs to a person somebody provisioned
\* (oidc.py:641-672).
SessionsEarned == SignInTypeOK /\
    \A s \in Opened :
        /\ browser[s].expires <= browser[s].tokenExpires
        /\ browser[s].expires <= browser[s].seen + SessionLife
        /\ provisioning = "existing_only" => browser[s].person \in Known
        /\ \A t \in Opened \ {s} :
            /\ browser[s].code # browser[t].code
            /\ browser[s].login = browser[t].login => browser[s].login \in raced

\* A session that was revoked stays revoked, whatever touch was in progress
\* when the logout committed (oidc.py:685-735).
RevokedStaysRevoked ==
    [][\A s \in Sessions : browser[s].state = "revoked" => browser'[s].state = "revoked"]_signInVars
=============================================================================
