--------------------------- MODULE TemplateSeeding ---------------------------
(***************************************************************************)
(* What every process stores before it serves: the legacy organization,    *)
(* the prompts and the built-in templates of its release (db.py init_db,   *)
(* deploy/enterprise/bootstrap_database.py).  Processes of several         *)
(* releases start while others serve, and organizations author templates.  *)
(*                                                                         *)
(* One slug stands for all.  The n-th version a release ships is known by  *)
(* its fingerprint.                                                        *)
(***************************************************************************)
EXTENDS Integers, Sequences, FiniteSets, FiniteSetsExt

CONSTANTS
    Starters,    \* processes
    Releases,
    Ships,       \* [Releases -> sequence of fingerprints]
    PromptsOf,   \* [Releases -> names of prompts]
    Writers,      \* organizations that author templates
    MaxStarts,   \* bound: starts in all
    MaxClones    \* bound: versions cloned from built-in ones

Prints == UNION {{Ships[r][n] : n \in DOMAIN Ships[r]} : r \in Releases}

\* Every release has the default prompts, and a clone, which is marked a local
\* draft, is never a version that is shipped.
ASSUME SeedingAssumption ==
    /\ Ships \in [Releases -> Seq(Prints)] /\ "clone" \notin Prints
    /\ \A r \in Releases : Ships[r] # <<>>
    /\ \A q, r \in Releases : PromptsOf[q] \cap PromptsOf[r] # {}
    /\ MaxStarts \in Nat /\ MaxClones \in Nat

VARIABLES
    legacy,      \* the legacy organization is stored
    registry,    \* names of the global prompts stored
    builtin,     \* the built-in template is stored
    shelf,       \* its versions: number -> status, fingerprint and order of creation
    owned,       \* organizations with a template of the slug
    authors,     \* [Writers -> what the organization's request has seen]
    starters,    \* [Starters -> what the process is doing]
    starts,      \* starts so far
    cloned,      \* numbers of versions that are clones
    crossed      \* an organization's template was written beside the built-in one

seedVars == <<legacy, registry, builtin, shelf, owned, authors, starters, starts, cloned, crossed>>

Nrs == 1..Max({Len(Ships[r]) : r \in Releases})
Stopped == [at |-> "down", release |-> "none", nr |-> 1, orgs |-> 0, prompts |-> {},
         template |-> FALSE, rows |-> [n \in {} |-> 0], met |-> FALSE]

InitSeeding ==
    /\ legacy = FALSE /\ registry = {} /\ builtin = FALSE
    /\ shelf = [n \in {} |-> 0]
    /\ owned = {} /\ authors = [o \in Writers |-> "idle"]
    /\ starters = [p \in Starters |-> Stopped] /\ starts = 0
    /\ cloned = {} /\ crossed = FALSE

----------------------------------------------------------------------------
(* A start: three transactions, each of which reads before it inserts.      *)

Starting(p) == starters[p].at \notin {"down", "failed", "serving"}

Start(p, r) ==
    /\ starters[p].at = "down" /\ starts < MaxStarts /\ starts' = starts + 1
    /\ starters' = [q \in Starters |->
         IF q = p THEN [Stopped EXCEPT !.at = "organization", !.release = r,
                                    !.met = \E o \in Starters : Starting(o)]
         ELSE [starters[q] EXCEPT !.met = @ \/ Starting(q)]]
    /\ UNCHANGED <<legacy, registry, builtin, shelf, owned, authors, cloned, crossed>>

\* A process is stopped, or lost at any point of its start.
Stop(p) ==
    /\ starters[p].at # "down"
    /\ starters' = [starters EXCEPT ![p] = Stopped]
    /\ UNCHANGED <<legacy, registry, builtin, shelf, owned, authors, starts, cloned, crossed>>

Proceed(p, change) == starters' = [starters EXCEPT ![p] = change]
Fails(p) == Proceed(p, [starters[p] EXCEPT !.at = "failed", !.orgs = 0, !.prompts = {},
                                      !.template = FALSE, !.rows = [n \in {} |-> 0]])
NothingStored == UNCHANGED <<legacy, registry, builtin, shelf, owned, authors, starts, cloned, crossed>>

\* An insert waits for the transaction that inserts the same key, then fails on
\* the key if that one committed.
Inserts(p, free, stored, next) ==
    /\ \A q \in Starters \ {p} : free[q]
    /\ IF stored THEN Fails(p) ELSE Proceed(p, next)

\* ensure_legacy_organization
LookOrganization(p) ==
    /\ starters[p].at = "organization"
    /\ Proceed(p, [starters[p] EXCEPT !.at = IF legacy THEN "prompts" ELSE "add organization"])
    /\ NothingStored

InsertOrganization(p) ==
    /\ starters[p].at = "add organization" /\ starters[p].orgs = 0
    /\ Inserts(p, [q \in Starters |-> starters[q].orgs = 0], legacy,
               [starters[p] EXCEPT !.orgs = 1])
    /\ NothingStored

CommitOrganization(p) ==
    /\ starters[p].orgs = 1
    /\ legacy' = TRUE
    /\ Proceed(p, [starters[p] EXCEPT !.at = "prompts", !.orgs = 0])
    /\ UNCHANGED <<registry, builtin, shelf, owned, authors, starts, cloned, crossed>>

\* seed_prompt_registry stores prompts only where there are none at all.
LookPrompts(p) ==
    /\ starters[p].at = "prompts"
    /\ Proceed(p, [starters[p] EXCEPT !.at = IF registry # {} THEN "template" ELSE "add prompts"])
    /\ NothingStored

InsertPrompts(p) ==
    LET names == PromptsOf[starters[p].release] IN
    /\ starters[p].at = "add prompts" /\ starters[p].prompts = {}
    /\ Inserts(p, [q \in Starters |-> starters[q].prompts \cap names = {}],
               registry \cap names # {}, [starters[p] EXCEPT !.prompts = names])
    /\ NothingStored

CommitPrompts(p) ==
    /\ starters[p].prompts # {}
    /\ registry' = registry \cup starters[p].prompts
    /\ Proceed(p, [starters[p] EXCEPT !.at = "template", !.prompts = {}])
    /\ UNCHANGED <<legacy, builtin, shelf, owned, authors, starts, cloned, crossed>>

----------------------------------------------------------------------------
(* seed_builtin_templates: one transaction for all versions                 *)

Shipped(p) == Ships[starters[p].release]

\* The slug is looked up among the templates of all organizations.
LookTemplate(p) ==
    LET globals == IF builtin \/ starters[p].template THEN {"built_in"} ELSE {}
        found == globals \cup (IF owned # {} THEN {"local"} ELSE {})
    IN
    /\ starters[p].at = "template"
    /\ \/ found = {} /\ Proceed(p, [starters[p] EXCEPT !.at = "add template"])
       \/ "built_in" \in found /\ Proceed(p, [starters[p] EXCEPT !.at = "version"])
       \/ "local" \in found /\ Fails(p)
    /\ NothingStored

InsertTemplate(p) ==
    /\ starters[p].at = "add template"
    /\ Inserts(p, [q \in Starters |-> ~starters[q].template], builtin,
               [starters[p] EXCEPT !.at = "version", !.template = TRUE])
    /\ NothingStored

\* Variant of Unchanged: a version that is there is taken as it is.
UnchangedAny(row, print) == TRUE

\* "Built-in template changed without a semantic version bump", and versions that
\* are neither published nor deprecated.
Unchanged(row, print) == row.status \in {"published", "deprecated"} /\ row.print = print

Rows(p) == [n \in DOMAIN shelf \cup DOMAIN starters[p].rows |->
               IF n \in DOMAIN shelf THEN shelf[n] ELSE starters[p].rows[n]]

NextFile(p, start) ==
    [start EXCEPT !.nr = @ + 1,
                  !.at = IF start.nr = Len(Shipped(p)) THEN "commit" ELSE "template"]

LookVersion(p) ==
    LET nr == starters[p].nr IN
    /\ starters[p].at = "version"
    /\ IF nr \notin DOMAIN Rows(p) THEN Proceed(p, [starters[p] EXCEPT !.at = "add version"])
       ELSE IF Unchanged(Rows(p)[nr], Shipped(p)[nr]) THEN Proceed(p, NextFile(p, starters[p]))
       ELSE Fails(p)
    /\ NothingStored

InsertVersion(p) ==
    LET nr == starters[p].nr
        row == [status |-> "published", print |-> Shipped(p)[nr],
                born |-> 1 + Cardinality(DOMAIN Rows(p))]
        added == [n \in DOMAIN starters[p].rows \cup {nr} |->
                    IF n = nr THEN row ELSE starters[p].rows[n]]
    IN
    /\ starters[p].at = "add version"
    /\ Inserts(p, [q \in Starters |-> nr \notin DOMAIN starters[q].rows], nr \in DOMAIN shelf,
               NextFile(p, [starters[p] EXCEPT !.rows = added]))
    /\ NothingStored

CommitTemplates(p) ==
    /\ starters[p].at = "commit"
    /\ builtin' = (builtin \/ starters[p].template)
    /\ shelf' = Rows(p)
    /\ Proceed(p, [starters[p] EXCEPT !.at = "serving", !.template = FALSE, !.rows = [n \in {} |-> 0]])
    /\ UNCHANGED <<legacy, registry, owned, authors, starts, cloned, crossed>>

----------------------------------------------------------------------------
(* What organizations do meanwhile *)

\* create_local looks for the slug first ...
AskTemplate(o) ==
    /\ authors[o] = "idle" /\ ~builtin /\ o \notin owned
    /\ authors' = [authors EXCEPT ![o] = "clear"]
    /\ UNCHANGED <<legacy, registry, builtin, shelf, owned, starters, starts, cloned, crossed>>

\* ... and the unique key is that of the organization.
WriteTemplate(o) ==
    /\ authors[o] = "clear"
    /\ authors' = [authors EXCEPT ![o] = "idle"]
    /\ owned' = owned \cup {o}
    /\ crossed' = (crossed \/ builtin \/ \E p \in Starters : starters[p].template
                                                     \/ starters[p].at = "add template")
    /\ UNCHANGED <<legacy, registry, builtin, shelf, starters, starts, cloned>>

\* clone, where no security keeps organizations from global rows: a draft below
\* the built-in template.
CloneVersion(nr) ==
    /\ DOMAIN shelf # {} /\ nr \notin DOMAIN shelf /\ Cardinality(cloned) < MaxClones
    /\ \A p \in Starters : nr \notin DOMAIN starters[p].rows
    /\ shelf' = [n \in DOMAIN shelf \cup {nr} |->
                   IF n = nr THEN [status |-> "draft", print |-> "clone",
                                   born |-> 1 + Cardinality(DOMAIN shelf)]
                   ELSE shelf[n]]
    /\ cloned' = cloned \cup {nr}
    /\ UNCHANGED <<legacy, registry, builtin, owned, authors, starters, starts, crossed>>

\* transition, as far as it concerns built-in templates.
Transition(nr) ==
    /\ nr \in DOMAIN shelf
    /\ \E status \in {"published", "deprecated"} :
         /\ shelf[nr].status = IF status = "published" THEN "draft" ELSE "published"
         /\ shelf' = [shelf EXCEPT ![nr].status = status]
    /\ UNCHANGED <<legacy, registry, builtin, owned, authors, starters, starts, cloned, crossed>>

NextSeeding ==
    \/ \E p \in Starters :
        \/ \E release \in Releases : Start(p, release)
        \/ Stop(p)
        \/ LookOrganization(p) \/ InsertOrganization(p) \/ CommitOrganization(p)
        \/ LookPrompts(p) \/ InsertPrompts(p) \/ CommitPrompts(p)
        \/ LookTemplate(p) \/ InsertTemplate(p)
        \/ LookVersion(p) \/ InsertVersion(p) \/ CommitTemplates(p)
    \/ \E o \in Writers : AskTemplate(o) \/ WriteTemplate(o)
    \/ \E nr \in Nrs : CloneVersion(nr) \/ Transition(nr)

SeedingSpec == InitSeeding /\ [][NextSeeding]_seedVars

----------------------------------------------------------------------------
(* Properties *)

\* persisted_template_health: what is missing, differs or is not immutable.
Issues(prints) ==
    {nr \in DOMAIN prints :
        \/ nr \notin DOMAIN shelf
        \/ shelf[nr].print # prints[nr]
        \/ shelf[nr].status \notin {"published", "deprecated"}}

\* A process serves only with everything its release ships in place, and keeps
\* it: no other release that starts beside it, no clone and no deprecation takes
\* a version away or changes it (templates.py:468-565, models.py:362-394).
SeededWhole ==
    \A p \in Starters : starters[p].at = "serving" =>
        legacy /\ registry # {} /\ builtin /\ Issues(Shipped(p)) = {}

\* The prompts are those of one release, however many start at once.
OneRegistry == registry \in {{}} \cup {PromptsOf[r] : r \in Releases}

\* A start fails only for a template of an organization, a stored version that
\* the release ships otherwise, or another start at the same time: what a start
\* that was lost or failed left behind keeps none from succeeding.
FailsDuly ==
    \A p \in Starters : starters[p].at = "failed" =>
        \/ owned # {}
        \/ \E nr \in DOMAIN Shipped(p) \cap DOMAIN shelf :
              shelf[nr].print # Shipped(p)[nr]
        \/ starters[p].met

\* An organization's template has the slug of the built-in one only if the two
\* were stored at the same time.
SlugsApart == builtin /\ owned # {} => crossed

\* persisted_template_catalog offers the version created last: the last of all
\* that were shipped, unless one was cloned.
Offered == {nr \in DOMAIN shelf : shelf[nr].status = "published"}
NewestOffered ==
    cloned = {} => \A m, n \in Offered : shelf[m].born < shelf[n].born => m < n

\* What a process serves with is stored whole, once, and as it was shipped.
SeedingSound == SeededWhole /\ OneRegistry /\ FailsDuly /\ SlugsApart /\ NewestOffered
=============================================================================
