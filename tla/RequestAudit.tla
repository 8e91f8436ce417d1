---------------------------- MODULE RequestAudit ----------------------------
(***************************************************************************)
(* The audit trail of the API: events committed together with the change   *)
(* they report (memberships, model policy and quota), events the middleware *)
(* commits after the response was produced, the pages an auditor reads     *)
(* meanwhile, and events that are exported and aged by the maintenance     *)
(* role (migration 0014).                                                  *)
(*                                                                         *)
(* An event takes its time when it is built, its place in the trail when   *)
(* it is committed: events commit out of the order of their times, and     *)
(* some have equal times.  audit_required is TRUE.                         *)
(***************************************************************************)
EXTENDS Integers, Sequences, FiniteSets

CONSTANTS
    AuditCalls,  \* requests to audited routes
    Together,    \* those whose route commits the event with the change
    EventIds,    \* identifiers of events, which are random: a set of numbers
    PageSize,    \* limit of the list endpoint
    MaxRows,     \* audit_export_max_rows
    MaxExports,  \* bound: exports
    MaxAged,     \* bound: events aged
    LastMoment   \* bound: clock

ASSUME RequestAuditAssumption ==
    /\ Together \subseteq AuditCalls
    /\ EventIds \subseteq Nat \ {0}
    /\ PageSize \in Nat \ {0} /\ MaxRows \in Nat \ {0}
    /\ MaxExports \in Nat /\ MaxAged \in Nat /\ LastMoment \in Nat

VARIABLES
    moment,
    trail,     \* committed events
    changed,   \* requests whose change is committed
    progress,  \* where each request is
    reading,   \* the auditor: the events read, those there at the first page, the cursor
    exported,  \* exports of adjoining windows of time, in their order
    aged       \* events the maintenance role has deleted

auditVars == <<moment, trail, changed, progress, reading, exported, aged>>

Unsent == [at |-> "unsent"]
NotReading == [at |-> "start", read |-> {}, first |-> {}, cursor |-> 0, again |-> FALSE,
               lost |-> FALSE]

InitAudit ==
    /\ moment = 0 /\ trail = {} /\ changed = {}
    /\ progress = [q \in AuditCalls |-> Unsent]
    /\ reading = NotReading /\ exported = <<>> /\ aged = {}

Built ==
    {progress[q].event : q \in {p \in AuditCalls : progress[p].at \in {"committing", "writing"}}}

\* append_audit_event: the flush of a new event.
NewEvents(q, code) ==
    {[id |-> i, time |-> moment, call |-> q, code |-> code] :
        i \in EventIds \ {e.id : e \in trail \cup Built \cup aged}}

Put(q, row) == progress' = [progress EXCEPT ![q] = row]
Responding(code) == [at |-> "responding", code |-> code]

----------------------------------------------------------------------------
(* The handlers *)

\* A route whose change is committed before the middleware sees the response, a
\* refusal, or an exception that nothing handles.
HandleAlone(q) ==
    /\ progress[q] = Unsent /\ q \notin Together
    /\ \/ Put(q, Responding(200)) /\ changed' = changed \cup {q}
       \/ Put(q, Responding(403)) /\ changed' = changed
       \/ Put(q, Responding(500)) /\ changed' \in {changed, changed \cup {q}}
    /\ UNCHANGED <<moment, trail, reading, exported, aged>>

\* Variant of HandleJointly: the change has its own commit, before the event's.
HandleAndAppend(q) ==
    /\ progress[q] = Unsent /\ q \in Together
    /\ \/ Put(q, Responding(403)) /\ changed' = changed
       \/ Put(q, Responding(503)) /\ changed' = changed
       \/ /\ \E event \in NewEvents(q, 200) : Put(q, [at |-> "committing", event |-> event])
          /\ changed' = changed \cup {q}
    /\ UNCHANGED <<moment, trail, reading, exported, aged>>

\* A route that flushes its event with its change; the event that cannot be
\* flushed rolls both back (AuditWriteError).
HandleJointly(q) ==
    /\ progress[q] = Unsent /\ q \in Together
    /\ \/ Put(q, Responding(403))
       \/ Put(q, Responding(503))
       \/ \E event \in NewEvents(q, 200) : Put(q, [at |-> "committing", event |-> event])
    /\ UNCHANGED <<moment, trail, changed, reading, exported, aged>>

\* The one commit; an exception it raises, although it may have reached the
\* database, is audited by the middleware.
CommitJointly(q) ==
    /\ progress[q].at = "committing"
    /\ \/ /\ trail' = trail \cup {progress[q].event}
          /\ changed' = changed \cup {q}
          /\ Put(q, [at |-> "answered", code |-> 200]) \/ Put(q, Responding(500))
       \/ Put(q, Responding(500)) /\ UNCHANGED <<trail, changed>>
    /\ UNCHANGED <<moment, reading, exported, aged>>

----------------------------------------------------------------------------
(* The middleware *)

\* write_request_audit, in a session of its own.
BuildEvent(q) ==
    /\ progress[q].at = "responding"
    /\ \E event \in NewEvents(q, progress[q].code) :
         Put(q, [at |-> "writing", event |-> event])
    /\ UNCHANGED <<moment, trail, changed, reading, exported, aged>>

Code(q) == IF progress[q].at = "writing" THEN progress[q].event.code ELSE progress[q].code

\* A response whose required event cannot be written becomes a 503; an exception
\* stays one, now AuditWriteError, that no handler of the application sees.
EventFails(q) ==
    /\ progress[q].at \in {"responding", "writing"}
    /\ Put(q, [at |-> "answered", code |-> IF Code(q) = 500 THEN 500 ELSE 503])
    /\ UNCHANGED <<moment, trail, changed, reading, exported, aged>>

CommitEvent(q) ==
    /\ progress[q].at = "writing"
    /\ trail' = trail \cup {progress[q].event}
    /\ Put(q, [at |-> "answered", code |-> progress[q].event.code])
    /\ UNCHANGED <<moment, changed, reading, exported, aged>>

CallLost(q) ==
    /\ progress[q].at \in {"responding", "committing", "writing"}
    /\ Put(q, [at |-> "lost"])
    /\ UNCHANGED <<moment, trail, changed, reading, exported, aged>>

ClockTicks ==
    /\ moment < LastMoment
    /\ moment' = moment + 1
    /\ UNCHANGED <<trail, changed, progress, reading, exported, aged>>

----------------------------------------------------------------------------
(* list_audit_events: newest first, from the event the cursor names *)

Newer(e, f) == e.time > f.time \/ (e.time = f.time /\ e.id > f.id)

\* Variant of Following: only the time is compared.
FollowingByTime(cursor) == {e \in trail : \A f \in trail : f.id = cursor => f.time > e.time}

\* What a page starts from; an unknown cursor filters nothing.
Following(cursor) == {e \in trail : \A f \in trail : f.id = cursor => Newer(f, e)}

Page(cursor) ==
    LET rest == Following(cursor)
    IN {e \in rest : Cardinality({f \in rest : Newer(f, e)}) < PageSize}

ReadPage ==
    /\ reading.at \in {"start", "more"} /\ exported = <<>>
    /\ LET page == Page(reading.cursor)
           more == page # Following(reading.cursor)
       IN reading' =
            [at     |-> IF more THEN "more" ELSE "end",
             read   |-> reading.read \cup page,
             first  |-> IF reading.at = "start" THEN trail ELSE reading.first,
             cursor |-> IF more THEN (CHOOSE e \in page : \A f \in page : e = f \/ Newer(f, e)).id
                        ELSE 0,
             again  |-> reading.again \/ page \cap reading.read # {},
             lost   |-> \/ reading.lost
                        \/ reading.at = "more" /\ \A e \in trail : e.id # reading.cursor]
    /\ UNCHANGED <<moment, trail, changed, progress, exported, aged>>

----------------------------------------------------------------------------
(* export_audit_events, and what is done with events that were exported *)

\* Variant of Window: the later bound counts too.
WindowClosed(from, until) == {e \in trail : e.time >= from /\ e.time <= until}

\* occurred_after and occurred_before
Window(from, until) == {e \in trail : e.time >= from /\ e.time < until}

\* The oldest rows, and whether there were more.
OldestRows(events) == {e \in events : Cardinality({f \in events : Newer(e, f)}) < MaxRows}

ExportEvents(until) ==
    LET from == IF exported = <<>> THEN 0 ELSE exported[Len(exported)].until
        events == Window(from, until)
    IN
    /\ reading = NotReading /\ Len(exported) < MaxExports /\ from < until
    /\ exported' = Append(exported, [until |-> until, there |-> trail, rows |-> OldestRows(events),
                                     truncated |-> OldestRows(events) # events])
    /\ UNCHANGED <<moment, trail, changed, progress, reading, aged>>

\* Variant of MutationPermitted: the setting alone is enough.
MutationBySetting(role, maintenance, operation) == operation = "delete" /\ maintenance

\* reject_audit_event_mutation and the grants: app.audit_maintenance is a setting
\* of the connection, which any role can make.
MutationPermitted(role, maintenance, operation) ==
    operation = "delete" /\ role = "maintenance" /\ maintenance

Dated(e) == \E i \in DOMAIN exported : e.time < exported[i].until

\* The maintenance role ages what was exported, or what an auditor pages through.
MutateEvent(role, maintenance, operation) ==
    /\ MutationPermitted(role, maintenance, operation)
    /\ \E e \in trail :
        /\ Cardinality(aged) < MaxAged
        /\ role = "maintenance" => reading # NotReading \/ Dated(e)
        /\ trail' = (trail \ {e}) \cup IF operation = "delete" THEN {} ELSE {[e EXCEPT !.code = 0]}
        /\ aged' = IF role = "maintenance" THEN aged \cup {e} ELSE aged
    /\ UNCHANGED <<moment, changed, progress, reading, exported>>

NextAudit ==
    \/ \E q \in AuditCalls :
        \/ HandleAlone(q) \/ HandleJointly(q) \/ CommitJointly(q)
        \/ BuildEvent(q) \/ EventFails(q) \/ CommitEvent(q) \/ CallLost(q)
    \/ ClockTicks \/ ReadPage
    \/ \E until \in 1..LastMoment + 1 : ExportEvents(until)
    \/ \E role \in {"runtime", "owner", "maintenance"}, maintenance \in BOOLEAN,
          operation \in {"update", "delete"} : MutateEvent(role, maintenance, operation)

AuditSpec == InitAudit /\ [][NextAudit]_auditVars

----------------------------------------------------------------------------
(* Properties *)

AuditTypeOK ==
    /\ moment \in 0..LastMoment
    /\ \A e \in trail : e.id \in EventIds /\ e.time \in 0..moment /\ e.call \in AuditCalls
    /\ \A e, f \in trail : e.id = f.id => e = f
    /\ reading.read \subseteq trail \cup aged

Recorded == trail \cup aged

\* A request is answered, unless by a server error, only after an event with the
\* code of the answer is in the trail, which nobody but the maintenance role takes
\* away; no event reports a success whose change was rolled back; and a membership
\* or a policy never changes without its event, whichever commit fails or is never
\* reached (main.py:507-578, audit.py:383-478, migration 0014).
AnswersAudited ==
    /\ \A q \in AuditCalls : progress[q].at = "answered" /\ progress[q].code < 500 =>
         \E e \in Recorded : e.call = q /\ e.code = progress[q].code
    /\ \A e \in Recorded : e.code = 200 => e.call \in changed
    /\ \A q \in Together \cap changed : \E e \in Recorded : e.call = q /\ e.code = 200

\* An auditor who follows the cursors to the end has read every event that was
\* there when the first page was, and none twice, although events with earlier
\* and with equal times are committed between the pages (audit.py:528-565); only
\* when the event the cursor names is aged does the reading begin again.
PagesComplete ==
    /\ reading.again => reading.lost
    /\ reading.at = "end" => reading.first \subseteq reading.read \cup aged

\* Exports of adjoining windows have no event twice, and an event that is aged
\* once its window was exported is in an export, unless that was truncated or the
\* event was built before the window's end and committed after the export.
ExportsAdjoin ==
    /\ \A i, j \in DOMAIN exported : i # j => exported[i].rows \cap exported[j].rows = {}
    /\ reading = NotReading => \A e \in aged : \E i \in DOMAIN exported :
        /\ e.time < exported[i].until
        /\ e \in exported[i].rows \/ exported[i].truncated \/ e \notin exported[i].there

\* The trail is complete when it is written and when it is read, and what leaves
\* it was exported (audit.py:383-478 and 528-601).
TrailComplete == AuditTypeOK /\ AnswersAudited /\ PagesComplete /\ ExportsAdjoin
=============================================================================
