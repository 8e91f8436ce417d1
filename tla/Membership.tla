----------------------------- MODULE Membership -----------------------------
(***************************************************************************)
(* The memberships of one organization: who may administer them, the      *)
(* changes administrators make, the owner that must remain, and the audit  *)
(* event each change is committed with.                                    *)
(*                                                                         *)
(* A request authorizes its actor and loads the membership it will change, *)
(* then writes it; other requests commit in between.  The version of       *)
(* If-Match is compared with the loaded row.  Active owners are locked and *)
(* counted (FOR UPDATE, as PostgreSQL evaluates it) in the transaction     *)
(* that writes, which is one step.                                         *)
(***************************************************************************)
EXTENDS Integers, FiniteSets

CONSTANTS
    Principals,
    Founders,    \* principals that start as active owners
    Requests,    \* administration requests in progress
    Grants,      \* roles administrators give; a subset of Roles
    MaxRequests  \* bound: requests ever made

Roles == {"owner", "admin", "examiner", "template_author", "reviewer", "learner", "auditor"}
Statuses == {"invited", "active", "suspended", "revoked"}

ASSUME MembershipAssumption ==
    /\ Founders \subseteq Principals /\ Founders # {}
    /\ Grants \subseteq Roles
    /\ MaxRequests \in Nat

VARIABLES
    principals,  \* status of each principal
    members,     \* the membership of each principal
    audit,       \* audit events of each membership
    requests,    \* administration requests in progress
    requested,   \* requests made so far
    overwritten  \* memberships written by a request that had loaded an older row

memberVars == <<principals, members, audit, requests, requested, overwritten>>

NoMember == [role |-> "learner", status |-> "none", version |-> 0]
Ready == [pc |-> "ready"]

Owners == {p \in Principals : members[p].role = "owner" /\ members[p].status = "active"}

----------------------------------------------------------------------------
(* Capabilities of a role that this module and its neighbours ask for *)

Administration == {"member.read", "member.manage", "retention.manage", "template.publish"}
Work == {"session.conduct", "document.create", "assignment.manage", "template.bind"}

Capabilities(role) ==
    CASE role = "owner"  -> Administration \cup Work \cup {"member.grant_owner", "template.author"}
      [] role = "admin"  -> Administration \cup Work \cup {"template.author"}
      [] role = "examiner" -> Work
      [] role = "template_author" -> {"template.author", "template.bind"}
      [] role = "auditor" -> {"member.read"}
      [] OTHER -> {}

\* resolve_authorization_context: an active principal with an active membership
\* whose role has the capability.
Authorized(actor, capability) ==
    /\ principals[actor] = "active"
    /\ members[actor].status = "active"
    /\ capability \in Capabilities(members[actor].role)

\* Variant of MayManage: only the role that is given is looked at.
MayManageTarget(actor, current, target) ==
    target = "owner" => "member.grant_owner" \in Capabilities(members[actor].role)

\* _require_owner_management
MayManage(actor, current, target) ==
    "owner" \in {current, target} => "member.grant_owner" \in Capabilities(members[actor].role)

StatusTransitions(from) ==
    {from} \cup CASE from = "invited"   -> {"active", "revoked"}
                  [] from = "active"    -> {"suspended", "revoked"}
                  [] from = "suspended" -> {"active", "revoked"}
                  [] OTHER              -> {}

InitMembers ==
    /\ principals \in [Principals -> {"active", "pending"}]
    /\ \A p \in Founders : principals[p] = "active"
    /\ members = [p \in Principals |->
            IF p \in Founders THEN [role |-> "owner", status |-> "active", version |-> 1]
            ELSE NoMember]
    /\ audit = [p \in Principals |-> members[p].version]
    /\ requests = [r \in Requests |-> Ready] /\ requested = 0
    /\ overwritten = {}

----------------------------------------------------------------------------
(* Requests *)

\* create_organization_membership, up to its insert.
OpenCreate(r, actor, p, role, status) ==
    /\ requests[r] = Ready /\ requested < MaxRequests
    /\ requested' = requested + 1
    /\ status \in {"invited", "active"}
    /\ Authorized(actor, "member.manage")
    /\ MayManage(actor, role, role)
    /\ principals[p] \notin {"suspended", "disabled"}
    /\ members[p] = NoMember
    /\ requests' = [requests EXCEPT ![r] =
            [pc |-> "create", owner |-> members[actor].role = "owner", target |-> p,
             seen |-> NoMember, role |-> role, status |-> status]]
    /\ UNCHANGED <<principals, members, audit, overwritten>>

\* update_organization_membership, up to the check of the last owner.  The row
\* that If-Match is compared with is loaded.
OpenUpdate(r, actor, p, role, status) ==
    /\ requests[r] = Ready /\ requested < MaxRequests
    /\ requested' = requested + 1
    /\ Authorized(actor, "member.manage")
    /\ members[p].status # "none"
    /\ MayManage(actor, members[p].role, role)
    /\ status \in StatusTransitions(members[p].status)
    /\ requests' = [requests EXCEPT ![r] =
            [pc |-> "update", owner |-> members[actor].role = "owner", target |-> p,
             seen |-> members[p], role |-> role, status |-> status]]
    /\ UNCHANGED <<principals, members, audit, overwritten>>

\* revoke_organization_membership: an update that leaves the role as it is loaded.
OpenRevoke(r, actor, p) == OpenUpdate(r, actor, p, members[p].role, "revoked")

\* Variant of OwnerProtected: only a role that is taken away is looked at.
OwnerProtectedRole(request) ==
    request.seen.role = "owner" /\ request.role # "owner" => Cardinality(Owners) > 1

\* _protect_last_owner, on the loaded row and the owners locked now.
OwnerProtected(request) ==
    LET isOwner == request.seen.role = "owner" /\ request.seen.status = "active"
        remains == request.role = "owner" /\ request.status = "active"
    IN isOwner /\ ~remains => Cardinality(Owners) > 1

\* An UPDATE sets the columns whose value differs from the loaded one.
Written(current, request) ==
    [role    |-> IF request.role # request.seen.role THEN request.role ELSE current.role,
     status  |-> IF request.status # request.seen.status THEN request.status ELSE current.status,
     version |-> request.seen.version + 1]

\* The change and its audit event are one transaction.
Apply(r, row) ==
    LET p == requests[r].target IN
    /\ members' = [members EXCEPT ![p] = row]
    /\ audit' = [audit EXCEPT ![p] = @ + 1]
    /\ overwritten' = IF members[p] # requests[r].seen THEN overwritten \cup {p} ELSE overwritten
    /\ requests' = [requests EXCEPT ![r] = Ready]
    /\ UNCHANGED <<principals, requested>>

CommitCreate(r) ==
    /\ requests[r].pc = "create"
    /\ members[requests[r].target] = NoMember   \* uq_organization_membership_principal
    /\ Apply(r, [role |-> requests[r].role, status |-> requests[r].status, version |-> 1])

CommitUpdate(r) ==
    /\ requests[r].pc = "update"
    /\ OwnerProtected(requests[r])
    /\ Apply(r, Written(members[requests[r].target], requests[r]))

\* last_owner_required, a duplicate key, or an audit event that cannot be
\* written: the transaction is rolled back.
RollBack(r) ==
    /\ requests[r] # Ready
    /\ requests' = [requests EXCEPT ![r] = Ready]
    /\ UNCHANGED <<principals, members, audit, requested, overwritten>>

----------------------------------------------------------------------------
(* Principals *)

PrincipalTransitions(from) ==
    CASE from = "pending"   -> {"active", "disabled"}
      [] from = "active"    -> {"suspended", "disabled"}
      [] from = "suspended" -> {"active", "disabled"}
      [] OTHER              -> {}

TransitionPrincipal(p) ==
    /\ \E target \in PrincipalTransitions(principals[p]) :
         principals' = [principals EXCEPT ![p] = target]
    /\ UNCHANGED <<members, audit, requests, requested, overwritten>>

\* bootstrap_owner, from the command line, is not audited: it only creates.
BootstrapOwner(p) ==
    /\ principals[p] = "active"
    /\ members[p] = NoMember
    /\ members' = [members EXCEPT ![p] = [role |-> "owner", status |-> "active", version |-> 1]]
    /\ audit' = [audit EXCEPT ![p] = 1]
    /\ UNCHANGED <<principals, requests, requested, overwritten>>

NextMembers ==
    \/ \E r \in Requests :
        \/ \E actor, p \in Principals, role \in Grants, status \in Statuses :
             \/ OpenCreate(r, actor, p, role, status)
             \/ OpenUpdate(r, actor, p, role, status)
        \/ \E actor, p \in Principals : OpenRevoke(r, actor, p)
        \/ CommitCreate(r) \/ CommitUpdate(r) \/ RollBack(r)
    \/ \E p \in Principals : TransitionPrincipal(p) \/ BootstrapOwner(p)

MembersSpec == InitMembers /\ [][NextMembers]_memberVars

----------------------------------------------------------------------------
(* Properties *)

\* Memberships, principals and requests stay in their sets.
MembersTypeOK ==
    /\ principals \in [Principals -> {"pending", "active", "suspended", "disabled"}]
    /\ members \in [Principals -> [role : Roles, status : Statuses \cup {"none"},
                                   version : Nat]]
    /\ \A r \in Requests : requests[r].pc \in {"ready", "create", "update"}
    /\ overwritten \subseteq Principals

\* The organization retains an active owner (membership_admin.py:185-215),
\* however two administrators' demotions, suspensions and revocations
\* interleave, as long as nobody wrote a membership on an older row.
OwnerRemains == MembersTypeOK /\ (overwritten = {} => Owners # {})

\* "The organization must retain at least one active owner."
\* (membership_admin.py:214), whatever the interleaving.
OwnerAlwaysRemains == Owners # {}

\* Every change of a membership by a request that had loaded the current row is
\* audited with it, never brings a revoked membership back
\* (membership_admin.py:165-183), and makes or unmakes an owner only when the
\* request was authorized as an owner's (main.py:716-731): an administrator
\* cannot raise itself in any number of steps.
AuthorizedChanges ==
    [][\A p \in Principals \ overwritten' :
        members'[p] # members[p] =>
            /\ audit'[p] = audit[p] + (members'[p].version - members[p].version)
            /\ members[p].status = "revoked" => members'[p].status = "revoked"
            /\ members[p].status # "none" /\ (members[p].role = "owner") # (members'[p].role = "owner")
                 => \E r \in Requests : requests[r] # Ready /\ requests'[r] = Ready
                                        /\ requests[r].owner
      ]_memberVars
=============================================================================
