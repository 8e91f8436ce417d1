---------------------------- MODULE MCGovernance ----------------------------
(***************************************************************************)
(* What an organization governs, checked in one run: its model calls and   *)
(* their rates, the rows its sessions reach, the upgrade that gave it its  *)
(* rows, and the console its administrators use.  They share no state, so  *)
(* every behaviour takes the steps of one of them.                         *)
(***************************************************************************)
EXTENDS ModelAdmission, RateWindows, TenantAccess, TenantOwnership, OrganizationConsole, TLC

VARIABLE part  \* the part whose steps a behaviour takes

governanceVars == <<part, vars, rateVars, tenantVars, ownershipVars, consoleVars>>

\* The console's handlers meet in one view, besides the first.
ViewOf == [switching |-> "members", governing |-> "governance", auditing |-> "audit",
           disposing |-> "lifecycle", reviewing |-> "reviews"]

\* The other parts stay in one of their initial states.
Idle(which, quiet) == part = which \/ quiet

Belongs(a, b) == [p \in Persons |-> [t \in Tenants |-> IF t = Legacy THEN a ELSE b]]
MCStandings == {Belongs("examiner", "examiner"), Belongs("learner", "none"),
                Belongs("suspended", "examiner"), Belongs("archived", "learner")}

InitAll ==
    /\ part \in {"models", "rates", "tenants", "upgrade"} \cup DOMAIN ViewOf
    /\ Init /\ InitRates /\ InitTenants /\ InitOwnership /\ InitConsole
    /\ Idle("models", policy.budget = CHOOSE b \in Budgets : TRUE)
    /\ Idle("rates", keeper = "redis" /\ ahead = [s \in Servers |-> 0])
    /\ Idle("tenants", authMode = "oidc" /\ standing = Belongs("examiner", "examiner"))
    /\ Idle("upgrade", /\ installed = CHOOSE i \in Installations : TRUE
                       /\ owner = [p \in Projects |-> LegacyOwner])

\* One request at a time, and one job.
OneRequest ==
    /\ Cardinality(errands') <= 1
    /\ \A v, w \in Works : \/ v = w \/ "job" \in {works'[v].kind, works'[w].kind}
                           \/ "off" \in {works'[v].at, works'[w].at}

\* Calls of one size, two of which wait for an answer at a time.
AlikeAndFew ==
    /\ \A i, j \in DOMAIN tries' : tries'[i].size = tries'[j].size
    /\ Cardinality({i \in DOMAIN tries' : tries'[i].at = "asked"}) <= 2

\* Switching comes back to the first organization; one case is decided.
OneView ==
    /\ console'.view \in {"overview", ViewOf[part]}
    /\ part # "switching" => console'.epoch < MaxEpochs
    /\ Cardinality(decided') <= 1

NextAll ==
    /\ part' = part
    /\ \/ part = "models" /\ Next
          /\ UNCHANGED <<rateVars, tenantVars, ownershipVars, consoleVars>>
       \/ part = "rates" /\ NextRates /\ AlikeAndFew
          /\ UNCHANGED <<vars, tenantVars, ownershipVars, consoleVars>>
       \/ part = "tenants" /\ NextTenants /\ OneRequest
          /\ UNCHANGED <<vars, rateVars, ownershipVars, consoleVars>>
       \/ part = "upgrade" /\ NextOwnership
          /\ UNCHANGED <<vars, rateVars, tenantVars, consoleVars>>
       \/ part \in DOMAIN ViewOf /\ NextConsole /\ OneView
          /\ UNCHANGED <<vars, rateVars, tenantVars, ownershipVars>>

\* Processes, editors and connections are interchangeable.  Sessions, the
\* processes that ask for a rate and the handlers of the page are the same values
\* as processes, principals and organizations of the console the same as
\* connections: no behaviour has both.
GovernanceSymmetry == Permutations(Processes) \cup Permutations(Editors) \cup Permutations(Pool)

SpecAll == InitAll /\ [][NextAll]_governanceVars
=============================================================================
