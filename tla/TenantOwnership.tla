-------------------------- MODULE TenantOwnership --------------------------
(***************************************************************************)
(* The upgrade that gives every row an organization: the backfill from     *)
(* parents to children (migration 0010), and the constraints that hold it  *)
(* (0011).  Tables that inherit alike are one: "work" is every child of a  *)
(* project, "detail" every child of one of those, "trait" every child of   *)
(* an identity.                                                            *)
(***************************************************************************)
EXTENDS Naturals, Sequences, FiniteSets

CONSTANTS
    Organizations, \* organizations
    LegacyOwner,   \* LEGACY_ORGANIZATION_ID
    Nobody,        \* NULL
    Projects       \* rows of projects, which have had an organization since 0008

VARIABLES
    revision,   \* "0009", "0010", "0011" or "failed"
    installed,  \* what the database holds: the parents of its rows
    owner       \* organization of each row

ownershipVars == <<revision, installed, owner>>

\* Per table, what its rows are below.  An identity is linked with subjects, a
\* memory event names an identity, a subject or a piece of evidence, or none.
Installations ==
    [work : Projects, detail : {"work"}, builtin : BOOLEAN,
     usage : Projects \cup {Nobody}, linked : SUBSET Projects,
     named : SUBSET {"identity", "subject", "detail"}]

Tables == {"template", "version", "work", "detail", "usage", "concept",
           "identity", "link", "trait", "item", "memory"}

ASSUME OwnershipAssumption ==
    /\ LegacyOwner \in Organizations /\ Nobody \notin Organizations
    /\ IsFiniteSet(Projects) /\ Projects \cap Tables = {}

\* Subjects are work: the one of project p belongs to its organization.
Required == {"work", "detail", "usage", "identity", "link", "trait", "item", "memory"}

InitOwnership ==
    /\ revision = "0009"
    /\ installed \in Installations
    /\ owner \in [Projects -> Organizations]

\* The first that is not NULL.
Coalesce(options) ==
    LET given == {i \in DOMAIN options : options[i] # Nobody}
    IN IF given = {} THEN Nobody ELSE options[CHOOSE i \in given : \A j \in given : i <= j]

\* What an UPDATE gives to the rows of a table that have no organization, from
\* those that have one by then.  LIMIT 1 takes any subject of an identity.
Inherited(table, org, subject) ==
    CASE table = "template" -> IF installed.builtin THEN Nobody ELSE LegacyOwner
      [] table = "version"  -> org["template"]
      [] table = "concept"  -> LegacyOwner
      [] table = "work"     -> owner[installed.work]
      [] table = "detail"   -> org["work"]
      [] table = "usage"    -> IF installed.usage = Nobody THEN Nobody ELSE owner[installed.usage]
      [] table = "identity" -> Coalesce(<<subject, LegacyOwner>>)
      [] table \in {"link", "trait"} -> org["identity"]
      [] table = "item"     -> org["trait"]
      [] table = "memory"   ->
           Coalesce(<<IF "identity" \in installed.named THEN org["identity"] ELSE Nobody,
                      IF "subject" \in installed.named THEN owner[installed.work] ELSE Nobody,
                      IF "detail" \in installed.named THEN org["detail"] ELSE Nobody, LegacyOwner>>)

\* Variant: identities after the rows below them.
StatementsChildrenFirst == <<"template", "version", "concept", "work", "detail", "usage",
                             "link", "trait", "identity", "memory", "item">>

\* The order of the statements.
Statements == <<"template", "version", "concept", "work", "detail", "usage",
                "identity", "link", "trait", "memory", "item">>

Updated(org, table, subject) ==
    IF org[table] = Nobody THEN [org EXCEPT ![table] = Inherited(table, org, subject)] ELSE org

\* The organizations after each of the statements.
After(subject) ==
    LET org[n \in 0..Len(Statements)] ==
            IF n = 0 THEN [t \in Tables |-> Nobody]
            ELSE Updated(org[n - 1], Statements[n], subject)
    IN org

\* upgrade() of 0010: the updates in their order, then the legacy organization
\* for every required row that still has none.
Backfill ==
    /\ revision = "0009"
    /\ \E subject \in IF installed.linked = {} THEN {Nobody} ELSE {owner[p] : p \in installed.linked} :
         LET inherits == After(subject)[Len(Statements)]
         IN owner' = [r \in Tables \cup Projects |->
                        IF r \in Projects THEN owner[r]
                        ELSE IF r \in Required /\ inherits[r] = Nobody THEN LegacyOwner
                        ELSE inherits[r]]
    /\ revision' = "0010"
    /\ UNCHANGED installed

\* COMPOSITE_LINKS: pairs of rows whose organizations a key compares.
Keyed ==
    {<<"work", installed.work>>, <<"detail", "work">>, <<"link", "identity">>,
     <<"trait", "identity">>, <<"item", "trait">>}
    \cup {<<"link", p>> : p \in installed.linked}

\* upgrade() of 0011: organizations become NOT NULL, and the composite keys are
\* created if the rows that are there keep them.
Enforce ==
    /\ revision = "0010"
    /\ revision' = IF /\ \A r \in Required : owner[r] # Nobody
                      /\ \A pair \in Keyed : owner[pair[1]] = owner[pair[2]]
                   THEN "0011" ELSE "failed"
    /\ UNCHANGED <<installed, owner>>

NextOwnership == Backfill \/ Enforce

SpecOwnership == InitOwnership /\ [][NextOwnership]_ownershipVars

----------------------------------------------------------------------------
(* Properties *)

\* An identity linked with the work of several organizations.
Torn == Cardinality({owner[p] : p \in installed.linked}) > 1

\* The upgrade reaches 0011 from every database in which no identity is shared by
\* several organizations, and then every row belongs to the organization of all
\* it is below, while built-in templates belong to none (migration 0010:79-225,
\* 0011:285-420).
OwnershipInherited ==
    /\ revision = "failed" => Torn
    /\ revision = "0011" =>
         /\ \A pair \in Keyed : owner[pair[1]] = owner[pair[2]]
         /\ \A t \in Required \cup {"concept"} : owner[t] \in Organizations
         /\ owner["template"] = owner["version"]
         /\ owner["template"] = Nobody <=> installed.builtin
         /\ "identity" \in installed.named => owner["memory"] = owner["identity"]
=============================================================================
