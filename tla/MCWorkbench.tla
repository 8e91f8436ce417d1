---------------------------- MODULE MCWorkbench ----------------------------
(***************************************************************************)
(* The parts of the workbench that share no state with each other, checked *)
(* in one run: every behaviour takes the steps of one of them, and its     *)
(* states are the sum of theirs.                                           *)
(***************************************************************************)
EXTENDS Membership, SignIn, SigningKeys, TemplateLifecycle, OrganizationExports,
        StoredObjects, RequestAudit, TemplateSeeding, TLC

VARIABLE part  \* the part whose steps a behaviour takes

workbenchVars == <<part, memberVars, signInVars, keyVars, templateVars, enqueueVars, exportVars,
                   objectVars, auditVars, seedVars>>

\* The other parts stay in one of their initial states.
Idle(which, quiet) == part \in which \/ quiet

Init ==
    /\ part \in {"members", "signin", "keys", "templates", "jobs", "exports", "objects", "audit",
               "seeding"}
    /\ InitMembers /\ InitSignIn /\ InitKeys /\ InitTemplates
    /\ InitExports /\ InitObjects /\ InitAudit /\ InitSeeding
    /\ Idle({"members"}, principals = [p \in Principals |-> "active"])
    /\ Idle({"signin"}, provisioning = "existing_only")
    /\ Idle({"keys"}, published = Keys)
    /\ Idle({"templates"}, accepted = Contents)
    /\ Idle({"objects"}, files = {})

Next ==
    /\ part' = part
    /\ \/ /\ part = "members" /\ NextMembers
          /\ UNCHANGED <<signInVars, keyVars, templateVars, enqueueVars, exportVars,
                         objectVars, auditVars, seedVars>>
       \/ /\ part = "signin" /\ NextSignIn
          /\ UNCHANGED <<memberVars, keyVars, templateVars, enqueueVars, exportVars,
                         objectVars, auditVars, seedVars>>
       \/ /\ part = "keys" /\ NextKeys
          /\ UNCHANGED <<memberVars, signInVars, templateVars, enqueueVars, exportVars,
                         objectVars, auditVars, seedVars>>
       \/ /\ part = "templates" /\ NextTemplates
          /\ UNCHANGED <<memberVars, signInVars, keyVars, enqueueVars, exportVars,
                         objectVars, auditVars, seedVars>>
       \/ /\ part = "jobs" /\ NextEnqueue
          /\ UNCHANGED <<memberVars, signInVars, keyVars, templateVars, exportVars,
                         objectVars, auditVars, seedVars>>
       \/ /\ part = "exports" /\ NextExports
          /\ UNCHANGED <<memberVars, signInVars, keyVars, templateVars, objectVars,
                         auditVars, seedVars>>
       \/ /\ part = "objects" /\ NextObjects
          /\ UNCHANGED <<memberVars, signInVars, keyVars, templateVars, enqueueVars,
                         exportVars, auditVars, seedVars>>
       \/ /\ part = "audit" /\ NextAudit
          /\ UNCHANGED <<memberVars, signInVars, keyVars, templateVars, enqueueVars,
                         exportVars, objectVars, seedVars>>
       \/ /\ part = "seeding" /\ NextSeeding
          /\ UNCHANGED <<memberVars, signInVars, keyVars, templateVars, enqueueVars,
                         exportVars, objectVars, auditVars>>

\* What each release ships.
MCShips == [release \in Releases |->
    CASE release = "old" -> <<"a">> [] release = "new" -> <<"a", "b">>
      [] release = "careless" -> <<"c">>]
MCPrompts == [release \in Releases |->
    {"default"} \cup IF release = "new" THEN {"added"} ELSE {}]

\* Requests are interchangeable, and so are edits and versions.
WorkbenchSymmetry == Permutations(Requests) \cup Permutations(Edits) \cup Permutations(Versions)

Spec == Init /\ [][Next]_workbenchVars
=============================================================================
