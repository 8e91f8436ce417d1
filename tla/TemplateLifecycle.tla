------------------------- MODULE TemplateLifecycle -------------------------
(***************************************************************************)
(* Scenario templates: versions that are drafted, validated, compiled,     *)
(* made candidates, published and deprecated; the binding of a project to  *)
(* a published version; and the sessions that take a snapshot of one.      *)
(*                                                                         *)
(* An edit loads the version's row and writes the columns it changed;      *)
(* other edits commit in between, and nothing locks the row.  What a       *)
(* source contains is a model value; which contents are valid depends on   *)
(* the validator and capabilities that are deployed.                       *)
(***************************************************************************)
EXTENDS Integers, Sequences, FiniteSets

CONSTANTS
    Versions,     \* semantic versions of one local template
    Contents,     \* what a source may say
    Deployments,  \* for each deployment, the contents its validator accepts
    Edits,        \* edits in progress
    MaxEdits,     \* bound: edits of versions ever begun
    MaxBindings,  \* bound: bindings ever made
    MaxSnapshots  \* bound: sessions ever started

ASSUME TemplateAssumption ==
    /\ Deployments # {} /\ \A accepted \in Deployments : accepted \subseteq Contents
    /\ MaxEdits \in Nat /\ MaxBindings \in Nat /\ MaxSnapshots \in Nat
    /\ IsFiniteSet(Edits)

VARIABLES
    accepted,   \* contents the deployed validator accepts
    versions,   \* scenario_template_versions
    checks,     \* the latest validation run of each version
    edits,      \* edits in progress
    edited,     \* edits of versions begun so far
    bindings,   \* project_template_bindings of one project, oldest first
    snapshots,  \* the template snapshot each session keeps
    outdated    \* versions written by an edit that had loaded an older row

templateVars == <<accepted, versions, checks, edits, edited, bindings, snapshots, outdated>>

Absent == [status |-> "none", source |-> <<>>, artifact |-> <<>>, evaluated |-> FALSE]
NoEdit == [op |-> "none"]

\* A source is its content and the trust level written into it; an artifact is
\* compiled from the whole source and stands for its fingerprint.
Source(content, trust) == <<content, trust>>
Content(source) == source[1]

Operations == {"replace", "compile", "candidate", "publish", "redraft", "deprecate"}

InitTemplates ==
    /\ accepted \in Deployments
    /\ versions = [v \in Versions |-> Absent]
    /\ checks = [v \in Versions |-> "none"]
    /\ edits = [e \in Edits |-> NoEdit] /\ edited = 0
    /\ bindings = <<>> /\ snapshots = <<>>
    /\ outdated = {}

----------------------------------------------------------------------------
(* Versions *)

\* create_local and import_template_document: a source that is imported is
\* never trusted for what it says of itself.
CreateLocal(v, content) ==
    /\ \A w \in Versions : versions[w] = Absent
    /\ content \in accepted
    /\ versions' = [versions EXCEPT ![v] =
            [Absent EXCEPT !.status = "draft", !.source = Source(content, "local_draft")]]
    /\ checks' = [checks EXCEPT ![v] = "passed"]
    /\ UNCHANGED <<accepted, edits, edited, bindings, snapshots, outdated>>

\* clone: a draft of what another version says, without a validation run.
Clone(v, w) ==
    /\ versions[v] # Absent /\ versions[w] = Absent
    /\ Content(versions[v].source) \in accepted
    /\ versions' = [versions EXCEPT ![w] =
            [Absent EXCEPT !.status = "draft",
                           !.source = Source(Content(versions[v].source), "local_draft")]]
    /\ UNCHANGED <<accepted, checks, edits, edited, bindings, snapshots, outdated>>

\* validate: adds a run, changes nothing else.
Validate(v) ==
    /\ versions[v] # Absent
    /\ checks' = [checks EXCEPT ![v] =
            IF Content(versions[v].source) \in accepted THEN "passed" ELSE "failed"]
    /\ UNCHANGED <<accepted, versions, edits, edited, bindings, snapshots, outdated>>

Load(e, op, v, content) ==
    /\ edits[e] = NoEdit
    /\ edited < MaxEdits /\ edited' = edited + 1
    /\ versions[v] # Absent
    /\ op = "replace" \/ content = Content(versions[v].source)
    /\ edits' = [edits EXCEPT ![e] =
            [op |-> op, version |-> v, seen |-> versions[v], content |-> content]]
    /\ UNCHANGED <<accepted, versions, checks, bindings, snapshots, outdated>>

\* compile validates and commits the run before it compiles.
CompileCheck(e) ==
    LET v == edits[e].version IN
    /\ edits[e].op = "compile"
    /\ edits[e].seen.status \in {"draft", "candidate"}
    /\ checks' = [checks EXCEPT ![v] =
            IF Content(edits[e].seen.source) \in accepted THEN "passed" ELSE "failed"]
    /\ edits' = [edits EXCEPT ![e] =
            IF Content(edits[e].seen.source) \in accepted
            THEN [@ EXCEPT !.op = "compiled"] ELSE NoEdit]
    /\ UNCHANGED <<accepted, versions, edited, bindings, snapshots, outdated>>

\* _set_local_trust_and_compile
Recompiled(row, trust) ==
    LET source == Source(Content(row.source), trust) IN
    [row EXCEPT !.source = source, !.artifact = source]

Transitions(from) ==
    CASE from = "draft"     -> {"candidate"}
      [] from = "candidate" -> {"draft", "published"}
      [] from = "published" -> {"deprecated"}
      [] OTHER              -> {}

\* Candidates and publications need a passing latest run and an artifact.
Provable(v, row) == checks[v] = "passed" /\ row.artifact # <<>>

\* The row an edit wants, from the row it loaded: replace_source, compile and
\* transition (publication with a passing evaluation).
Wanted(op, v, row, content) ==
    CASE op = "replace" ->
           [row EXCEPT !.source = Source(content, "local_draft"), !.artifact = <<>>,
                       !.evaluated = FALSE]
      [] op = "compiled"  -> [row EXCEPT !.artifact = row.source]
      [] op = "candidate" -> [Recompiled(row, "local_candidate") EXCEPT !.status = "candidate"]
      [] op = "publish"   -> [Recompiled(row, "local_published") EXCEPT
                                !.status = "published", !.evaluated = TRUE]
      [] op = "redraft"   ->
           [row EXCEPT !.source = Source(Content(row.source), "local_draft"),
                       !.artifact = <<>>, !.evaluated = FALSE, !.status = "draft"]
      [] op = "deprecate" -> [row EXCEPT !.status = "deprecated"]

Permitted(op, v, row, content) ==
    CASE op = "replace"   -> row.status = "draft" /\ content \in accepted
      [] op = "compiled"  -> TRUE
      [] op = "candidate" -> "candidate" \in Transitions(row.status) /\ Provable(v, row)
                             /\ Content(row.source) \in accepted
      [] op = "publish"   -> "published" \in Transitions(row.status) /\ Provable(v, row)
                             /\ Content(row.source) \in accepted
      [] op = "redraft"   -> "draft" \in Transitions(row.status)
      [] op = "deprecate" -> "deprecated" \in Transitions(row.status)
      [] OTHER            -> FALSE

\* _guard_published_template_version, on the loaded status: nothing of a
\* published version changes but its status, to deprecated.
Guarded(seen, wanted) ==
    seen.status \in {"published", "deprecated"} =>
        wanted = [seen EXCEPT !.status = "deprecated"] \/ wanted = seen

\* The columns that differ from the loaded row are written.
Merged(current, seen, wanted) ==
    [column \in DOMAIN wanted |->
        IF wanted[column] = seen[column] THEN current[column] ELSE wanted[column]]

CommitEdit(e) ==
    LET edit == edits[e]
        v    == edit.version
        wanted == Wanted(edit.op, v, edit.seen, edit.content)
    IN
    /\ edit.op \in Operations \cup {"compiled"}
    /\ Permitted(edit.op, v, edit.seen, edit.content)
    /\ Guarded(edit.seen, wanted)
    /\ versions' = [versions EXCEPT ![v] = Merged(@, edit.seen, wanted)]
    /\ checks' = IF edit.op \in {"candidate", "publish"}
                 THEN [checks EXCEPT ![v] = "passed"] ELSE checks
    /\ outdated' = IF versions[v] # edit.seen THEN outdated \cup {v} ELSE outdated
    /\ edits' = [edits EXCEPT ![e] = NoEdit]
    /\ UNCHANGED <<accepted, edited, bindings, snapshots>>

RefuseEdit(e) ==
    /\ edits[e] # NoEdit
    /\ edits' = [edits EXCEPT ![e] = NoEdit]
    /\ UNCHANGED <<accepted, versions, checks, edited, bindings, snapshots, outdated>>

Deploy ==
    /\ \E next \in Deployments : next # accepted /\ accepted' = next
    /\ UNCHANGED <<versions, checks, edits, edited, bindings, snapshots, outdated>>

----------------------------------------------------------------------------
(* Bindings and sessions *)

\* Variant of Selectable: a candidate may be bound, too.
SelectableCandidate(v) ==
    versions[v].status \in {"published", "candidate"} /\ versions[v].artifact # <<>>

Selectable(v) ==
    versions[v].status = "published" /\ versions[v].artifact # <<>>

ActiveBindings(list) == {i \in DOMAIN list : list[i].active}

\* active_binding: the newest that is not superseded.
ActiveBinding(list) ==
    IF ActiveBindings(list) = {} THEN 0
    ELSE CHOOSE i \in ActiveBindings(list) : \A j \in ActiveBindings(list) : j <= i

\* bind_project and clear_project_binding load the active binding.
LoadBinding(e, op, v) ==
    /\ edits[e] = NoEdit
    /\ op = "bind" => /\ Selectable(v)
                      /\ Content(versions[v].source) \in accepted
                      /\ Len(bindings) < MaxBindings
    /\ edits' = [edits EXCEPT ![e] =
            [op |-> op, version |-> v, bound |-> bindings]]
    /\ UNCHANGED <<accepted, versions, checks, edited, bindings, snapshots, outdated>>

Superseded(list, i) == IF i = 0 THEN list ELSE [list EXCEPT ![i].active = FALSE]

CommitBinding(e) ==
    /\ edits[e].op \in {"bind", "clear"}
    /\ LET old == Superseded(bindings, ActiveBinding(edits[e].bound)) IN
       bindings' = IF edits[e].op = "bind"
                   THEN Append(old, [version |-> edits[e].version, active |-> TRUE])
                   ELSE old
    /\ edits' = [edits EXCEPT ![e] = NoEdit]
    /\ UNCHANGED <<accepted, versions, checks, edited, snapshots, outdated>>

\* SessionTemplateService.resolve in the request that creates a session: the
\* version asked for, else the project's, compiled again from its source.
StartSession(v) ==
    /\ Len(snapshots) < MaxSnapshots
    /\ Selectable(v)
    /\ Content(versions[v].source) \in accepted
    /\ snapshots' = Append(snapshots, [version |-> v, snapshot |-> versions[v].source])
    /\ UNCHANGED <<accepted, versions, checks, edits, edited, bindings, outdated>>

StartDefault ==
    LET i == ActiveBinding(bindings) IN i # 0 /\ StartSession(bindings[i].version)

NextTemplates ==
    \/ \E v, w \in Versions, content \in Contents : CreateLocal(v, content) \/ Clone(v, w)
    \/ \E v \in Versions : Validate(v) \/ StartSession(v)
    \/ \E e \in Edits :
        \/ \E v \in Versions, op \in Operations, content \in Contents : Load(e, op, v, content)
        \/ CompileCheck(e) \/ CommitEdit(e) \/ RefuseEdit(e)
        \/ \E v \in Versions, op \in {"bind", "clear"} : LoadBinding(e, op, v)
        \/ CommitBinding(e)
    \/ StartDefault \/ Deploy

TemplatesSpec == InitTemplates /\ [][NextTemplates]_templateVars

----------------------------------------------------------------------------
(* Properties *)

TemplatesTypeOK ==
    /\ accepted \in Deployments
    /\ \A v \in Versions :
        /\ versions[v].status \in {"none", "draft", "candidate", "published", "deprecated"}
        /\ versions[v] # Absent => Content(versions[v].source) \in Contents
        /\ checks[v] \in {"none", "passed", "failed"}
    /\ Len(bindings) <= MaxBindings + Cardinality(Edits)
    /\ outdated \subseteq Versions

\* A published version was evaluated, is trusted as published, and carries the
\* artifact of exactly its source (templates.py:394-466); before that, an
\* artifact is never that of another content than the source's
\* (templates.py:165-238, 312-347).  Both unless an edit that had loaded an
\* older row wrote the version, and whichever validator is deployed meanwhile.
PublishedSound ==
    \A v \in Versions \ outdated :
        /\ versions[v].artifact # <<>> =>
                Content(versions[v].artifact) = Content(versions[v].source)
        /\ versions[v].status \in {"published", "deprecated"} =>
                /\ versions[v].evaluated
                /\ versions[v].source[2] = "local_published"
                /\ versions[v].artifact = versions[v].source

\* What a session was started with is what its version still says, whatever was
\* edited, published, deprecated, bound or cleared since: the snapshot's
\* fingerprint verifies (session_templates.py:196-241, models.py:347-388).
SnapshotsVerify ==
    \A i \in DOMAIN snapshots :
        LET v == snapshots[i].version IN
        v \notin outdated => /\ snapshots[i].snapshot = versions[v].artifact
                             /\ versions[v].status \in {"published", "deprecated"}

\* Both: what is published is what was evaluated, and stays what the sessions
\* started with it say they ran (templates.py:394-466, session_templates.py:196-241).
TemplatesSound == TemplatesTypeOK /\ PublishedSound /\ SnapshotsVerify
=============================================================================
