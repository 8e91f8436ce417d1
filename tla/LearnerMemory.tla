--------------------------- MODULE LearnerMemory ---------------------------
(***************************************************************************)
(* The long-term memory of one learner: a ledger of events imported from   *)
(* the evidence of examinations, corrected by hand or added by retests;    *)
(* the concept states rebuilt from it; retest items and their sessions; a  *)
(* preference; exports; and deletion, which blocks writes, queues a job    *)
(* and erases a scope in the worker.                                       *)
(*                                                                         *)
(* A request reads the rows it decides on in one step and commits in       *)
(* another: nothing locks them.  A commit writes the columns that were     *)
(* set, fails on a row that is gone or that a unique key already holds,    *)
(* and rebuilds, where it does, from the ledger as it then is.             *)
(***************************************************************************)
EXTENDS Integers, Sequences, FiniteSets

CONSTANTS
    Evidence,     \* knowledge_evidence_events of the learner's examinations
    ConceptOf,    \* concept the unit of each evidence is mapped to
    SubjectOf,    \* learner subject (one per project) it was recorded for
    Writers,      \* API requests in progress
    Items,        \* retest items that can be planned
    Deletions,    \* deletion audits that can be opened
    Scopes,       \* deletions asked for: scope and target
    MaxEvents,    \* bound: events ever appended to the ledger
    MaxRetests    \* bound: retest sessions ever started

Concepts == {ConceptOf[e] : e \in Evidence}
Subjects == {SubjectOf[e] : e \in Evidence}

ASSUME MemoryAssumption ==
    /\ DOMAIN ConceptOf = Evidence /\ DOMAIN SubjectOf = Evidence
    /\ MaxEvents \in Nat /\ MaxRetests \in Nat /\ IsFiniteSet(Deletions)

VARIABLES
    identity,    \* learner_identities row
    links,       \* status of the link of each subject
    mapping,     \* status of the mapping of each concept
    ledger,      \* learner_memory_events
    appended,    \* events ever appended
    states,      \* for each concept, the events its state counts ({}: no row)
    preference,  \* status of a preference, "none" without a row
    items,       \* retest_items
    retests,     \* sessions started from items, by number: item and outcomes
    exports,     \* events in each export artifact
    audits,      \* memory_deletion_audits and their jobs
    writers,     \* requests in progress
    erasures,    \* deletions of the whole memory that committed
    forgotten,   \* since one, nobody enabled the memory again nor committed what
                 \* was read before it
    stale,       \* states were last written from rows that had changed
    crossed      \* what two actors advanced on the same reading

memoryVars == <<identity, links, mapping, ledger, appended, states, preference, items,
                retests, exports, audits, writers, erasures, forgotten, stale, crossed>>
rowVars == <<identity, links, mapping, ledger, appended, states, preference, items,
             retests, exports, audits>>
noteVars == <<erasures, forgotten, stale, crossed>>

Idle == [op |-> "idle"]
NoItem == [status |-> "none"]
NoAudit == [status |-> "none"]

InitMemory ==
    /\ identity = [exists |-> TRUE, enabled |-> TRUE, blocked |-> FALSE]
    /\ links = [s \in Subjects |-> "confirmed"]
    /\ mapping = [c \in Concepts |-> "accepted"]
    /\ ledger = {} /\ appended = 0
    /\ states = [c \in Concepts |-> {}]
    /\ preference = "none"
    /\ items = [i \in Items |-> NoItem]
    /\ retests = <<>> /\ exports = {}
    /\ audits = [a \in Deletions |-> NoAudit]
    /\ writers = [w \in Writers |-> Idle]
    /\ erasures = 0 /\ forgotten = FALSE /\ stale = FALSE /\ crossed = {}

----------------------------------------------------------------------------
(* The ledger and what is computed from it *)

Ids(events) == {e.id : e \in events}
Superseded(events) == {e.supersedes : e \in events}

\* Variant of Current: a corrected event still counts.
CurrentAll(events) == {e \in events : e.concept # "none"}

Current(events) == {e \in events : e.concept # "none" /\ e.id \notin Superseded(events)}

\* LongitudinalStateService.rebuild, as far as which events count.
Rebuilt(events) == [c \in Concepts |-> Ids({e \in Current(events) : e.concept = c})]

NewEvent(kind, concept, subject, source, supersedes) ==
    [id |-> appended + 1, kind |-> kind, concept |-> concept, subject |-> subject,
     source |-> source, supersedes |-> supersedes]

AppendEvent(event) ==
    /\ appended < MaxEvents
    /\ ledger' = ledger \cup {event}
    /\ appended' = appended + 1

Writable == identity.exists /\ ~identity.blocked

\* A request reads, decides to commit op, and keeps what it decided on.
Read(w, op, found) ==
    /\ writers[w] = Idle
    /\ writers' = [writers EXCEPT ![w] = [op |-> op, found |-> found, since |-> erasures]]
    /\ UNCHANGED <<rowVars, noteVars>>

Doing(w, op) == writers[w].op = op /\ identity.exists
Found(w) == writers[w].found
Done(w) ==
    /\ writers' = [writers EXCEPT ![w] = Idle]
    /\ forgotten' = (forgotten /\ writers[w].since = erasures)
    /\ UNCHANGED erasures

\* The commit breaks a key, finds its row gone, or the process stops.
Fails(w) ==
    /\ writers[w] # Idle
    /\ writers' = [writers EXCEPT ![w] = Idle]
    /\ UNCHANGED <<rowVars, noteVars>>

----------------------------------------------------------------------------
(* Linking, mapping, settings, preferences *)

LinkSubject(s) ==
    /\ Writable /\ links[s] # "confirmed"
    /\ links' = [links EXCEPT ![s] = "confirmed"]
    /\ UNCHANGED <<identity, mapping, ledger, appended, states, preference, items, retests,
                   exports, audits, writers, noteVars>>

RevokeLink(s) ==
    /\ identity.exists /\ links[s] = "confirmed"
    /\ links' = [links EXCEPT ![s] = "revoked"]
    /\ UNCHANGED <<identity, mapping, ledger, appended, states, preference, items, retests,
                   exports, audits, writers, noteVars>>

ReviewMapping(c, status) ==
    /\ status \in {"accepted", "rejected"} /\ mapping[c] # status
    /\ mapping' = [mapping EXCEPT ![c] = status]
    /\ UNCHANGED <<identity, links, ledger, appended, states, preference, items, retests,
                   exports, audits, writers, noteVars>>

ReadSettings(w, enabled) ==
    /\ Writable /\ identity.enabled # enabled
    /\ Read(w, "settings", [identity |-> identity, enabled |-> enabled])

\* Variant of Configured: the whole row is written back.
ConfiguredRow(current, found) == [found.identity EXCEPT !.enabled = found.enabled]

\* Only memory_enabled is written, and a control event without a concept.
Configured(current, found) == [current EXCEPT !.enabled = found.enabled]

CommitSettings(w) ==
    /\ Doing(w, "settings")
    /\ writers' = [writers EXCEPT ![w] = Idle]
    /\ identity' = Configured(identity, Found(w))
    /\ forgotten' = (forgotten /\ ~Found(w).enabled /\ writers[w].since = erasures)
    /\ UNCHANGED <<links, mapping, ledger, appended, states, preference, items, retests,
                   exports, audits, erasures, stale, crossed>>

\* create_or_replace, and the actions on a preference: all of them refuse a
\* disabled or a blocked identity; rejecting and expiring leave no event.
PreferenceStatuses == {"active", "proposed", "rejected", "expired"}
PreferenceSteps == ({"none"} \cup PreferenceStatuses) \X {"active", "proposed"}
                   \cup PreferenceStatuses \X {"rejected", "expired"}

ReadPreference(w, step) ==
    /\ Writable /\ identity.enabled /\ preference = step[1]
    /\ Read(w, "preference", step)

CommitPreference(w) ==
    /\ Doing(w, "preference") /\ Done(w)
    /\ (preference = "none") = (Found(w)[1] = "none")
    /\ preference' = Found(w)[2]
    /\ IF Found(w)[2] \in {"active", "proposed"}
       THEN AppendEvent(NewEvent("preference", "none", "none", "none", 0))
       ELSE UNCHANGED <<ledger, appended>>
    /\ UNCHANGED <<identity, links, mapping, states, items, retests, exports, audits,
                   stale, crossed>>

----------------------------------------------------------------------------
(* Importing, rebuilding and correcting *)

Imported(e) == \E event \in ledger : event.source = e

\* import_evidence looks for accepted mappings of confirmed subjects and skips
\* what the ledger holds; one new event stands for the batch.
ReadImport(w, e) ==
    /\ Writable /\ identity.enabled
    /\ links[SubjectOf[e]] = "confirmed" /\ mapping[ConceptOf[e]] = "accepted"
    /\ ~Imported(e)
    /\ Read(w, "import", e)

\* uq_memory_source_concept_type refuses the second import of the same evidence.
CommitImport(w) ==
    LET e == Found(w) IN
    /\ Doing(w, "import") /\ Done(w)
    /\ ~Imported(e)
    /\ AppendEvent(NewEvent("evidence", ConceptOf[e], SubjectOf[e], e, 0))
    /\ UNCHANGED <<identity, links, mapping, states, preference, items, retests, exports,
                   audits, stale, crossed>>

\* The rebuild endpoint checks no setting.
ReadRebuild(w) ==
    /\ identity.exists
    /\ Read(w, "rebuild", [states |-> states, ledger |-> ledger])

\* A state is inserted once and updated only while its row is there.
CommitRebuild(w) ==
    LET found == Found(w) IN
    /\ Doing(w, "rebuild") /\ Done(w)
    /\ \A c \in Concepts :
         Rebuilt(found.ledger)[c] # {} => (states[c] = {}) = (found.states[c] = {})
    /\ states' = [c \in Concepts |->
         IF Rebuilt(found.ledger)[c] = {} /\ found.states[c] = {}
         THEN states[c] ELSE Rebuilt(found.ledger)[c]]
    /\ stale' = (found # [states |-> states, ledger |-> ledger])
    /\ UNCHANGED <<identity, links, mapping, ledger, appended, preference, items, retests,
                   exports, audits, crossed>>

Correctable(event) == event.concept # "none" /\ event.id \notin Superseded(ledger)

ReadCorrection(w, event) ==
    /\ Writable /\ Correctable(event)
    /\ Read(w, "correction", [event |-> event, before |-> Superseded(ledger)])

CommitCorrection(w) ==
    LET event == Found(w).event IN
    /\ Doing(w, "correction") /\ Done(w)
    /\ event \in ledger
    /\ AppendEvent(NewEvent("correction", event.concept, event.subject, "none", event.id))
    /\ states' = Rebuilt(ledger') /\ stale' = FALSE
    /\ crossed' = IF event.id \in Superseded(ledger) \ Found(w).before
                  THEN crossed \cup {<<"event", event.id>>} ELSE crossed
    /\ UNCHANGED <<identity, links, mapping, preference, items, retests, exports, audits>>

----------------------------------------------------------------------------
(* Retests *)

Live(i) == items[i].status \notin {"none", "deleted"}

\* create_retest_plan, one item to a plan; whether a concept is due is a
\* choice.  It does not ask whether writes are blocked.
ReadPlan(w, i, c) ==
    /\ identity.exists /\ identity.enabled
    /\ states[c] # {} /\ items[i] = NoItem
    /\ ~ \E j \in Items : items[j].status = "dismissed" /\ items[j].concept = c
    /\ Read(w, "plan", <<i, c>>)

CommitPlan(w) ==
    LET i == Found(w)[1] IN
    /\ Doing(w, "plan") /\ Done(w)
    /\ items[i] = NoItem
    /\ items' = [items EXCEPT ![i] = [status |-> "proposed", concept |-> Found(w)[2], session |-> 0]]
    /\ UNCHANGED <<identity, links, mapping, ledger, appended, states, preference, retests,
                   exports, audits, stale, crossed>>

Decisions == {<<"proposed", "accepted">>, <<"dismissed", "accepted">>, <<"lapsed", "accepted">>,
              <<"proposed", "dismissed">>, <<"accepted", "dismissed">>}

ReadDecision(w, i, step) ==
    /\ Writable /\ identity.enabled /\ items[i].status = step[1]
    /\ Read(w, "decision", <<i, step[2]>>)

CommitDecision(w) ==
    LET i == Found(w)[1] IN
    /\ Doing(w, "decision") /\ Done(w)
    /\ Live(i)
    /\ items' = [items EXCEPT ![i].status = Found(w)[2]]
    /\ UNCHANGED <<identity, links, mapping, ledger, appended, states, preference, retests,
                   exports, audits, stale, crossed>>

\* dismissed_until passes.
CooldownEnds(i) ==
    /\ items[i].status = "dismissed"
    /\ items' = [items EXCEPT ![i].status = "lapsed"]
    /\ UNCHANGED <<identity, links, mapping, ledger, appended, states, preference, retests,
                   exports, audits, writers, noteVars>>

Startable(i) == items[i].status = "accepted" /\ items[i].session = 0

ReadStart(w, i) ==
    /\ Writable /\ identity.enabled /\ Startable(i)
    /\ mapping[items[i].concept] = "accepted"
    /\ Read(w, "start", [item |-> i, row |-> items[i]])

CommitStart(w) ==
    LET i == Found(w).item IN
    /\ Doing(w, "start") /\ Done(w)
    /\ Live(i) /\ Len(retests) < MaxRetests
    /\ \E s \in Subjects :
         /\ links[s] = "confirmed"
         /\ retests' = Append(retests, [item |-> i, subject |-> s, outcomes |-> 0])
    /\ items' = [items EXCEPT ![i].status = "started", ![i].session = Len(retests')]
    /\ crossed' = IF items[i].session # Found(w).row.session THEN crossed \cup {<<"item", i>>} ELSE crossed
    /\ UNCHANGED <<identity, links, mapping, ledger, appended, states, preference, exports,
                   audits, stale>>

\* Variant of Awaiting: the status of the item is not looked at.
AwaitingAny(n) == Live(retests[n].item) /\ items[retests[n].item].session = n

Awaiting(n) == items[retests[n].item].status = "started" /\ items[retests[n].item].session = n

\* complete_from_session, after the answer that completes the session: it asks
\* neither whether the memory is enabled nor whether writes are blocked.
ReadOutcome(w, n) ==
    /\ identity.exists /\ n \in DOMAIN retests /\ Awaiting(n)
    /\ Read(w, "outcome", [number |-> n, row |-> items[retests[n].item]])

CommitOutcome(w) ==
    LET n == Found(w).number
        i == retests[n].item IN
    /\ Doing(w, "outcome") /\ Done(w)
    /\ Live(i)
    /\ AppendEvent(NewEvent("outcome", items[i].concept, retests[n].subject, "none", 0))
    /\ retests' = [retests EXCEPT ![n].outcomes = @ + 1]
    /\ items' = [items EXCEPT ![i].status = "completed"]
    /\ states' = Rebuilt(ledger') /\ stale' = FALSE
    /\ crossed' = IF items[i] # Found(w).row THEN crossed \cup {<<"item", i>>} ELSE crossed
    /\ UNCHANGED <<identity, links, mapping, preference, exports, audits>>

----------------------------------------------------------------------------
(* Exporting *)

\* The worker reads the memory, writes the object and commits the artifact.
ReadExport(w) ==
    /\ identity.exists
    /\ Read(w, "export", Ids(ledger))

CommitExport(w) ==
    /\ Doing(w, "export") /\ Done(w)
    /\ exports' = exports \cup {Found(w)}
    /\ UNCHANGED <<identity, links, mapping, ledger, appended, states, preference, items,
                   retests, audits, stale, crossed>>

----------------------------------------------------------------------------
(* Deleting *)

Outstanding(a) == audits[a].status \in {"pending", "failed"}

ReadDeletion(w, a, scope) ==
    /\ Writable /\ audits[a] = NoAudit
    /\ Read(w, "deletion", <<a, scope>>)

\* begin_deletion and retry block every write, whatever the scope.
Blocked(row) == [row EXCEPT !.blocked = TRUE]

\* The audit commits before its job is queued: see Enqueue and Fails.
Queueing(w, a) == writers' = [writers EXCEPT ![w] = [op |-> "enqueue", found |-> a, since |-> erasures]]

CommitDeletion(w) ==
    LET a == Found(w)[1] IN
    /\ Doing(w, "deletion") /\ Queueing(w, a)
    /\ audits[a] = NoAudit
    /\ audits' = [audits EXCEPT ![a] = [status |-> "pending", scope |-> Found(w)[2], queued |-> FALSE]]
    /\ identity' = Blocked(identity)
    /\ UNCHANGED <<links, mapping, ledger, appended, states, preference, items, retests,
                   exports, noteVars>>

RetryDeletion(w, a) ==
    /\ writers[w] = Idle /\ identity.exists /\ audits[a].status = "failed"
    /\ Queueing(w, a)
    /\ audits' = [audits EXCEPT ![a].status = "pending"]
    /\ identity' = Blocked(identity)
    /\ UNCHANGED <<links, mapping, ledger, appended, states, preference, items, retests,
                   exports, noteVars>>

Enqueue(w) ==
    /\ writers[w].op = "enqueue"
    /\ writers' = [writers EXCEPT ![w] = Idle]
    /\ audits' = [audits EXCEPT ![Found(w)].queued = TRUE]
    /\ UNCHANGED <<identity, links, mapping, ledger, appended, states, preference, items,
                   retests, exports, noteVars>>

Erases(scope, event) ==
    CASE scope.kind = "preference"   -> event.kind = "preference"
      [] scope.kind = "concept"      -> event.concept = scope.target
      [] scope.kind = "project_link" -> event.subject = scope.target
      [] OTHER                       -> TRUE

\* Variant of ErasesItem: only a concept takes its items with it.
ErasesItemConcept(scope, i) ==
    Live(i) /\ scope.kind = "concept" /\ items[i].concept = scope.target

ErasesItem(scope, i) ==
    /\ Live(i)
    /\ CASE scope.kind = "preference" -> FALSE
         [] scope.kind = "concept"    -> items[i].concept = scope.target
         [] OTHER                     -> TRUE

Whole(scope) == scope.kind \in {"all_long_term_memory", "identity_and_memory"}

TargetFound(scope) ==
    CASE scope.kind = "preference"   -> preference # "none"
      [] scope.kind = "project_link" -> links[scope.target] # "none"
      [] OTHER                       -> TRUE

\* execute_deletion: what goes, the rebuild of what stays, the settings.
Erase(scope) ==
    /\ ledger' = {event \in ledger : ~Erases(scope, event)}
    /\ states' = Rebuilt(ledger') /\ stale' = FALSE
    /\ items' = [i \in Items |-> IF ErasesItem(scope, i) THEN [items[i] EXCEPT !.status = "deleted"]
                                 ELSE items[i]]
    /\ preference' = IF scope.kind = "preference" \/ Whole(scope) THEN "none" ELSE preference
    /\ links' = [s \in Subjects |->
         IF scope.kind = "identity_and_memory" \/ scope.target = s THEN "none" ELSE links[s]]
    /\ exports' = {}
    /\ identity' = [exists |-> scope.kind # "identity_and_memory",
                    enabled |-> identity.enabled /\ ~Whole(scope),
                    blocked |-> FALSE]
    /\ erasures' = IF Whole(scope) THEN erasures + 1 ELSE erasures
    /\ forgotten' = (forgotten \/ Whole(scope))

\* The worker executes the job; lost before it records the end of the job, it
\* leaves it to be executed again, whatever the audit says by then.
ExecuteDeletion(a, again) ==
    LET scope == audits[a].scope IN
    /\ audits[a] # NoAudit /\ audits[a].queued
    /\ identity.exists /\ TargetFound(scope)
    /\ Whole(scope) => erasures < Cardinality(Deletions)
    /\ Erase(scope)
    /\ audits' = [audits EXCEPT ![a].status = "completed", ![a].queued = again]
    /\ crossed' = crossed \cup {<<"audit", b>> : b \in {b \in Deletions \ {a} : Outstanding(b)}}
    /\ UNCHANGED <<mapping, appended, retests, writers>>

\* Its target or the identity is gone: the audit fails, the block stays.
DeletionFails(a, again) ==
    /\ audits[a] # NoAudit /\ audits[a].queued
    /\ ~identity.exists \/ ~TargetFound(audits[a].scope)
    /\ audits' = [audits EXCEPT ![a].status = "failed", ![a].queued = again]
    /\ crossed' = IF audits[a].status = "completed" THEN crossed \cup {<<"audit", a>>} ELSE crossed
    /\ UNCHANGED <<identity, links, mapping, ledger, appended, states, preference, items, retests,
                   exports, writers, erasures, forgotten, stale>>

NextMemory ==
    \/ \E s \in Subjects : LinkSubject(s) \/ RevokeLink(s)
    \/ \E c \in Concepts, status \in {"accepted", "rejected"} : ReviewMapping(c, status)
    \/ \E i \in Items : CooldownEnds(i)
    \/ \E w \in Writers :
         \/ \E enabled \in BOOLEAN : ReadSettings(w, enabled)
         \/ \E step \in PreferenceSteps : ReadPreference(w, step)
         \/ \E e \in Evidence : ReadImport(w, e)
         \/ \E event \in ledger : ReadCorrection(w, event)
         \/ \E i \in Items : ReadStart(w, i)
         \/ \E i \in Items, c \in Concepts : ReadPlan(w, i, c)
         \/ \E i \in Items, step \in Decisions : ReadDecision(w, i, step)
         \/ \E n \in DOMAIN retests : ReadOutcome(w, n)
         \/ \E a \in Deletions, scope \in Scopes : ReadDeletion(w, a, scope)
         \/ \E a \in Deletions : RetryDeletion(w, a)
         \/ ReadRebuild(w) \/ ReadExport(w)
         \/ CommitSettings(w) \/ CommitPreference(w) \/ CommitImport(w) \/ CommitRebuild(w)
         \/ CommitCorrection(w) \/ CommitPlan(w) \/ CommitDecision(w) \/ CommitStart(w)
         \/ CommitOutcome(w) \/ CommitExport(w) \/ CommitDeletion(w)
         \/ Enqueue(w) \/ Fails(w)
    \/ \E a \in Deletions, again \in BOOLEAN : ExecuteDeletion(a, again) \/ DeletionFails(a, again)

MemorySpec == InitMemory /\ [][NextMemory]_memoryVars

----------------------------------------------------------------------------
(* Properties *)

Statuses == {"none", "proposed", "accepted", "dismissed", "lapsed", "started", "completed", "deleted"}

MemoryTypeOK ==
    /\ identity \in [exists : BOOLEAN, enabled : BOOLEAN, blocked : BOOLEAN]
    /\ links \in [Subjects -> {"none", "confirmed", "revoked"}]
    /\ \A event \in ledger : event.id \in 1..appended /\ event.supersedes < event.id
    /\ \A i \in Items : items[i].status \in Statuses
    /\ appended <= MaxEvents /\ erasures <= Cardinality(Deletions)

\* After a deletion of the whole memory there is no event, state, retest item,
\* preference or export of the learner, until somebody enables the memory again
\* or a request commits what it had read before (memory_control.py:273-301): no
\* session, correction, rebuild or job brings any of it back.
ForgottenStaysForgotten ==
    forgotten =>
        /\ ledger = {} /\ preference = "none" /\ exports \subseteq {{}}
        /\ \A c \in Concepts : states[c] = {}
        /\ \A i \in Items : ~Live(i)

\* A concept state counts only events of its concept that the ledger still
\* holds and no correction has replaced, unless its last rebuild read a ledger
\* that changed before it committed (longitudinal.py:66-139,
\* memory_control.py:54-103 and 215-320).
StatesFromLedger ==
    stale \/ \A c \in Concepts : \A id \in states[c] :
        /\ \E e \in ledger : e.id = id /\ e.concept = c
        /\ \A e \in ledger : e.supersedes # id

\* An item is started once and its session yields one outcome, and an event is
\* corrected once, unless two requests passed the check before either committed
\* (retest.py:88-204, memory_control.py:71-78).
AdvancedOnce ==
    /\ \A i \in Items : <<"item", i>> \notin crossed =>
         /\ Cardinality({n \in DOMAIN retests : retests[n].item = i}) <= 1
         /\ \A n \in DOMAIN retests : retests[n].item = i => retests[n].outcomes <= 1
    /\ \A e, f \in ledger :
         e.supersedes = f.supersedes /\ e.supersedes # 0 /\ e # f
            => <<"event", e.supersedes>> \in crossed

\* Writes stay blocked while a deletion waits or has failed, through its
\* failures and retries and whatever settings are saved meanwhile
\* (memory_control.py:195-213, main.py:4071-4096), unless another deletion,
\* begun at the same time or executed again, released them.
DeletionHolds ==
    \A a \in Deletions :
        Outstanding(a) /\ identity.exists /\ <<"audit", a>> \notin crossed => identity.blocked

\* What the memory says, it has evidence for, and evidence counts once; what a
\* deletion stopped stays stopped, and what it removed stays away
\* (longitudinal.py:66-139, retest.py:88-204, memory_control.py:54-320).
MemorySound ==
    /\ MemoryTypeOK /\ StatesFromLedger /\ AdvancedOnce
    /\ DeletionHolds /\ ForgottenStaysForgotten

\* No request decides on a write while a deletion blocks them
\* (docs/api/V0_7_LONG_TERM_MEMORY_API.md:308): complete_from_session does.
BlockedRefusesWrites ==
    [][\A w \in Writers :
        writers[w] = Idle /\ writers'[w].op \in {"import", "correction", "preference", "outcome"}
            => ~identity.blocked]_memoryVars
=============================================================================
