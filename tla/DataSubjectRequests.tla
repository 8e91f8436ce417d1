------------------------ MODULE DataSubjectRequests ------------------------
(***************************************************************************)
(* One reviewed request to delete a project: the row of                    *)
(* data_subject_requests, the API requests that decide, dispatch, cancel   *)
(* and retry it, the jobs that run data_subject_deletion, the legal hold,  *)
(* the project with its stored objects, and uploads to that project.       *)
(*                                                                         *)
(* The database runs at READ COMMITTED.  A session that loads the row and  *)
(* writes it later is two steps.  The deletion handler flushes the row     *)
(* before it deletes, so it holds the row's lock until it commits or rolls *)
(* back; objects of the store are not part of the transaction.             *)
(*                                                                         *)
(* Jobs are known here by what JobLease promises of them: an attempt is    *)
(* taken from a budget, and only the newest holder ends the job.           *)
(***************************************************************************)
EXTENDS Integers, FiniteSets

CONSTANTS
    Workers,     \* worker processes
    Requests,    \* API requests that may be in progress at the same time
    Principals,  \* people with retention.manage
    Requester,   \* the one who asked for the deletion
    Keys,        \* values of the Idempotency-Key header
    Objects,     \* objects stored for the project when it was asked for
    Uploads,     \* objects being uploaded to the project
    MaxAttempts, \* JOB_MAX_ATTEMPTS
    MaxFaults    \* bound: lost processes, exceptions, jobs stopped or retried by
                 \* people

ASSUME RequesterAssumption == Requester \in Principals
ASSUME ObjectAssumption == Objects \intersect Uploads = {}
ASSUME BoundAssumption ==
    MaxAttempts \in Nat \ {0} /\ MaxFaults \in Nat

CONSTANTS NoKey, NoOne
ASSUME NoneAssumption == NoKey \notin Keys /\ NoOne \notin Principals \union Workers

VARIABLES
    row,       \* the committed row of the request
    jobs,      \* [Keys -> Job]: deletion jobs, unique by idempotency key
    requests,  \* [Requests -> Request]: API requests in progress
    workers,   \* [Workers -> Worker]
    uploads,   \* [Uploads -> program point of upload_document]
    held,      \* a legal hold that applies to the request is active
    project,   \* the project's row exists
    stored,    \* [Objects \union Uploads -> status of its stored_objects row]
    store,     \* the objects in the storage backend
    approvers, \* history: who committed an approval
    faults     \* faults so far

content == <<project, stored, store>>
vars == <<row, jobs, requests, workers, uploads, held, content, approvers,
          faults>>

-----------------------------------------------------------------------------
Statuses == {"requested", "approved", "running", "completed", "blocked", "failed",
             "cancelled", "denied"}
Row == [status: Statuses,
        final: {"none", "approved", "denied", "cancelled"},
        reviewer: Principals \union {NoOne},   \* reviewer_principal_id
        key: Keys \union {NoKey},              \* decision_idempotency_key
        job: Keys \union {NoKey}]              \* job_id

NewRow == [status |-> "requested", final |-> "none", reviewer |-> NoOne,
           key |-> NoKey, job |-> NoKey]

\* A commit writes the columns whose value the session changed.
Column(loaded, assigned, current) == IF assigned # loaded THEN assigned ELSE current
Save(loaded, new) ==
    row' = [status   |-> Column(loaded.status, new.status, row.status),
            final    |-> Column(loaded.final, new.final, row.final),
            reviewer |-> Column(loaded.reviewer, new.reviewer, row.reviewer),
            key      |-> Column(loaded.key, new.key, row.key),
            job      |-> Column(loaded.job, new.job, row.job)]
SaveStatus(seen, new) == row' = [row EXCEPT !.status = Column(seen, new, @)]

Job == [status: {"absent", "open", "completed", "failed"},
        owner: Principals \union {NoOne}, left: 0..MaxAttempts,
        holder: Workers \union {NoOne}]
NoJob == [status |-> "absent", owner |-> NoOne, left |-> 0, holder |-> NoOne]

Decisions == {"approved", "denied"}
Request == [pc: {"idle", "decide", "decideWrite", "dispatch", "refresh",
                 "linkWrite", "cancelWrite", "retryWrite"},
            snap: Row, who: Principals, key: Keys \union {NoKey},
            decision: Decisions]
Idle == [pc |-> "idle", snap |-> NewRow, who |-> Requester, key |-> NoKey,
         decision |-> "denied"]

\* The transaction of the deletion handler, from the flush of "running" on.
LockPoints == {"deleting", "verifying"}

\* seen: the status the session loaded; removed: the objects this transaction
\* deleted; under: a hold has been active ever since the handler loaded the
\* request (history).
Worker == [pc: {"idle", "claimed", "checking", "blocking", "starting", "failing",
                "marking", "raising", "returning"} \union LockPoints,
           job: Keys \union {NoKey}, seen: Statuses,
           todo: SUBSET (Objects \union Uploads),
           removed: SUBSET (Objects \union Uploads), retryable: BOOLEAN,
           under: BOOLEAN]
Free == [pc |-> "idle", job |-> NoKey, seen |-> "requested", todo |-> {},
         removed |-> {}, retryable |-> FALSE, under |-> FALSE]

TypeOK ==
    /\ row \in Row
    /\ jobs \in [Keys -> Job]
    /\ requests \in [Requests -> Request]
    /\ workers \in [Workers -> Worker]
    /\ uploads \in [Uploads -> {"waiting", "inserted", "put", "ended"}]
    /\ held \in BOOLEAN /\ project \in BOOLEAN
    /\ stored \in [Objects \union Uploads -> {"none", "active", "deleted"}]
    /\ store \subseteq Objects \union Uploads
    /\ approvers \subseteq Principals
    /\ faults \in 0..MaxFaults

\* DataSubjectRequestService.create committed the request and its review case.
Init ==
    /\ row = NewRow
    /\ jobs = [k \in Keys |-> NoJob]
    /\ requests = [q \in Requests |-> Idle]
    /\ workers = [w \in Workers |-> Free]
    /\ uploads = [u \in Uploads |-> "waiting"]
    /\ held \in BOOLEAN
    /\ project = TRUE
    /\ stored = [o \in Objects \union Uploads |->
                   IF o \in Objects THEN "active" ELSE "none"]
    /\ store = Objects
    /\ approvers = {} /\ faults = 0

\* Variant: the handler marks the request failed while its first session is open.
RowLockedWhileFailing ==
    \E w \in Workers : workers[w].pc \in LockPoints \union {"failing", "marking"}

RowLocked == \E w \in Workers : workers[w].pc \in LockPoints

RequestAt(q, point) == requests' = [requests EXCEPT ![q] = [@ EXCEPT !.pc = point,
                                                              !.snap = NewRow]]
RequestLoads(q, point, who, key, decision) ==
    requests' = [requests EXCEPT ![q] = [pc |-> point, snap |-> row, who |-> who,
                                         key |-> key, decision |-> decision]]
Answer(q) == requests' = [requests EXCEPT ![q] = Idle]

WorkerIs(w, record) == workers' = [workers EXCEPT ![w] = record]
WorkerAt(w, point) == WorkerIs(w, [workers[w] EXCEPT !.pc = point])
WorkerFails(w, retryable) ==
    WorkerIs(w, [Free EXCEPT !.pc = "failing", !.job = workers[w].job,
                             !.retryable = retryable])

Holds(w) == /\ jobs[workers[w].job].status = "open"
            /\ jobs[workers[w].job].holder = w

Fault == faults < MaxFaults /\ faults' = faults + 1

-----------------------------------------------------------------------------
(* Deciding.                                                                 *)

\* Variant: the requester may approve the deletion.
DecidableByAnyone(r, who) == r.status = "requested"

Decidable(r, who) == r.status = "requested" /\ who # Requester

\* decide on the loaded row.  The same decision again, with the same key, is
\* answered; approved, it is dispatched if it has no job yet.
DecideRead(q) ==
    /\ requests[q].pc = "idle"
    /\ \E who \in Principals, key \in Keys, decision \in Decisions :
         IF row.key = key
         THEN /\ row.final = decision /\ row.reviewer = who
              /\ decision = "approved" /\ row.job = NoKey
              /\ RequestLoads(q, "dispatch", who, key, decision)
         ELSE Decidable(row, who) /\ RequestLoads(q, "decide", who, key, decision)
    /\ UNCHANGED <<row, jobs, workers, uploads, held, content, approvers, faults>>

\* HumanReviewService.decide: a case that somebody decided is terminal.
DecideCase(q) ==
    /\ requests[q].pc = "decide"
    /\ IF row.reviewer = NoOne
       THEN requests' = [requests EXCEPT ![q].pc = "decideWrite"]
       ELSE Answer(q)
    /\ UNCHANGED <<row, jobs, workers, uploads, held, content, approvers, faults>>

DecideWrite(q) ==
    LET r == requests[q] IN
    /\ r.pc = "decideWrite" /\ ~RowLocked
    /\ Save(r.snap, [r.snap EXCEPT !.status = r.decision, !.final = r.decision,
                                   !.reviewer = r.who, !.key = r.key])
    /\ IF r.decision = "approved"
       THEN /\ approvers' = approvers \union {r.who}
            /\ IF r.snap.job = NoKey THEN RequestAt(q, "dispatch") ELSE Answer(q)
       ELSE Answer(q) /\ UNCHANGED approvers
    /\ UNCHANGED <<jobs, workers, uploads, held, content, faults>>

-----------------------------------------------------------------------------
(* Dispatching: _dispatch_approved_data_subject_request.                     *)

\* enqueue_job: a key that was used returns its job, whatever became of it, or
\* raises when the job has another actor.
Enqueue(q) ==
    LET r == requests[q] IN
    /\ r.pc = "dispatch"
    /\ CASE jobs[r.key].status = "absent" ->
              /\ jobs' = [jobs EXCEPT ![r.key] = [NoJob EXCEPT !.status = "open",
                                          !.owner = r.who, !.left = MaxAttempts]]
              /\ RequestAt(q, "refresh")
         [] jobs[r.key].status # "absent" /\ jobs[r.key].owner = r.who ->
              RequestAt(q, "refresh") /\ UNCHANGED jobs
         [] OTHER -> Answer(q) /\ UNCHANGED jobs
    /\ UNCHANGED <<row, workers, uploads, held, content, approvers, faults>>

\* delay() raised and no worker took the job.
EnqueueFails(q) ==
    LET r == requests[q] IN
    /\ r.pc = "dispatch" /\ jobs[r.key].status = "absent"
    /\ Fault
    /\ jobs' = [jobs EXCEPT ![r.key] = [NoJob EXCEPT !.status = "failed", !.owner = r.who]]
    /\ Answer(q)
    /\ UNCHANGED <<row, workers, uploads, held, content, approvers>>

Refresh(q) ==
    /\ requests[q].pc = "refresh"
    /\ requests' = [requests EXCEPT ![q].pc = "linkWrite", ![q].snap = row]
    /\ UNCHANGED <<row, jobs, workers, uploads, held, content, approvers, faults>>

LinkWrite(q) ==
    LET r == requests[q] IN
    /\ r.pc = "linkWrite" /\ ~RowLocked
    /\ Save(r.snap, [r.snap EXCEPT !.job = r.key,
                       !.status = IF @ = "approved" THEN "running" ELSE @])
    /\ Answer(q)
    /\ UNCHANGED <<jobs, workers, uploads, held, content, approvers, faults>>

-----------------------------------------------------------------------------
(* Cancelling, retrying, holding.                                            *)

CancelRead(q) ==
    /\ requests[q].pc = "idle"
    /\ row.status \in {"requested", "approved", "blocked", "failed"}
    /\ \E who \in {Requester, row.reviewer} \ {NoOne} :
         RequestLoads(q, "cancelWrite", who, NoKey, "denied")
    /\ UNCHANGED <<row, jobs, workers, uploads, held, content, approvers, faults>>

CancelWrite(q) ==
    LET r == requests[q] IN
    /\ r.pc = "cancelWrite" /\ ~RowLocked
    /\ Save(r.snap, [r.snap EXCEPT !.status = "cancelled", !.final = "cancelled"])
    /\ Answer(q)
    /\ UNCHANGED <<jobs, workers, uploads, held, content, approvers, faults>>

RetryRead(q) ==
    /\ requests[q].pc = "idle"
    /\ row.final = "approved" /\ row.status \in {"failed", "blocked"}
    /\ \E who \in Principals, key \in Keys :
         RequestLoads(q, "retryWrite", who, key, "approved")
    /\ UNCHANGED <<row, jobs, workers, uploads, held, content, approvers, faults>>

RetryWrite(q) ==
    LET r == requests[q] IN
    /\ r.pc = "retryWrite" /\ ~RowLocked
    /\ Save(r.snap, [r.snap EXCEPT !.status = "approved"])
    /\ RequestAt(q, "dispatch")
    /\ UNCHANGED <<jobs, workers, uploads, held, content, approvers, faults>>

\* create_organization_legal_hold, release_organization_legal_hold.
PlaceHold ==
    /\ ~held /\ project
    /\ held' = TRUE
    /\ UNCHANGED <<row, jobs, requests, workers, uploads, content, approvers, faults>>

ReleaseHold ==
    /\ held
    /\ held' = FALSE
    /\ workers' = [w \in Workers |-> [workers[w] EXCEPT !.under = FALSE]]
    /\ UNCHANGED <<row, jobs, requests, uploads, content, approvers, faults>>

-----------------------------------------------------------------------------
(* The job around the handler.                                               *)

\* Variant: the last attempt is not counted.
ClaimOnceTooOften(w) ==
    /\ workers[w].pc = "idle"
    /\ \E k \in Keys :
         /\ jobs[k].status = "open"
         /\ jobs' = [jobs EXCEPT ![k].left = @ - 1, ![k].holder = w]
         /\ WorkerIs(w, [Free EXCEPT !.pc = "claimed", !.job = k])
    /\ UNCHANGED <<row, requests, uploads, held, content, approvers, faults>>

\* The lease of an earlier holder may have run out.
Claim(w) ==
    /\ workers[w].pc = "idle"
    /\ \E k \in Keys :
         /\ jobs[k].status = "open" /\ jobs[k].left > 0
         /\ jobs' = [jobs EXCEPT ![k].left = @ - 1, ![k].holder = w]
         /\ WorkerIs(w, [Free EXCEPT !.pc = "claimed", !.job = k])
    /\ UNCHANGED <<row, requests, uploads, held, content, approvers, faults>>

Ends(w, status) == jobs' = [jobs EXCEPT ![workers[w].job] =
                              [@ EXCEPT !.status = status, !.holder = NoOne]]

\* The last checkpoint and complete_job, or a lease found lost.
Complete(w) ==
    /\ workers[w].pc = "returning"
    /\ IF Holds(w) THEN Ends(w, "completed") \/ Ends(w, "failed") ELSE UNCHANGED jobs
    /\ WorkerIs(w, Free)
    /\ UNCHANGED <<row, requests, uploads, held, content, approvers, faults>>

\* fail_job: a transient failure leaves the job to its remaining attempts.
FailJob(w) ==
    LET k == workers[w].job IN
    /\ workers[w].pc = "raising"
    /\ IF ~Holds(w) THEN UNCHANGED jobs
       ELSE \/ Ends(w, "failed")
            \/ workers[w].retryable /\ jobs[k].left > 0 /\ Ends(w, "open")
    /\ WorkerIs(w, Free)
    /\ UNCHANGED <<row, requests, uploads, held, content, approvers, faults>>

\* Authorization revoked, cancellation of the job, attempts exhausted.
JobStops(k) ==
    /\ jobs[k].status = "open"
    /\ Fault
    /\ jobs' = [jobs EXCEPT ![k].status = "failed", ![k].holder = NoOne]
    /\ UNCHANGED <<row, requests, workers, uploads, held, content, approvers>>

\* The retry endpoint of jobs.
JobRetry(k) ==
    /\ jobs[k].status = "failed"
    /\ Fault
    /\ jobs' = [jobs EXCEPT ![k].status = "open", ![k].left = MaxAttempts]
    /\ UNCHANGED <<row, requests, workers, uploads, held, content, approvers>>

-----------------------------------------------------------------------------
(* The handler: _delete_data_subject and execute_deletion.                   *)

Executable == {"approved", "failed", "blocked"}

\* Not the holder any more: raised before request_id is known.
Load(w) ==
    /\ workers[w].pc = "claimed"
    /\ IF ~Holds(w) THEN WorkerIs(w, Free)
       ELSE IF row.status \in Executable
            THEN WorkerIs(w, [workers[w] EXCEPT !.pc = "checking", !.seen = row.status,
                                                !.under = held])
            ELSE WorkerFails(w, FALSE)
    /\ UNCHANGED <<row, jobs, requests, uploads, held, content, approvers, faults>>

\* Variant: a request that was blocked before is not checked again.
HoldFoundOnce(w) == held /\ workers[w].seen # "blocked"

HoldFound(w) == held

\* active_legal_holds.
CheckHolds(w) ==
    /\ workers[w].pc = "checking"
    /\ WorkerAt(w, IF HoldFound(w) THEN "blocking" ELSE "starting")
    /\ UNCHANGED <<row, jobs, requests, uploads, held, content, approvers, faults>>

Block(w) ==
    /\ workers[w].pc = "blocking" /\ ~RowLocked
    /\ SaveStatus(workers[w].seen, "blocked")
    /\ WorkerIs(w, [Free EXCEPT !.pc = "returning", !.job = workers[w].job])
    /\ UNCHANGED <<jobs, requests, uploads, held, content, approvers, faults>>

\* The flush of "running" takes the row's lock; the project and its active
\* objects are read under it.
Start(w) ==
    /\ workers[w].pc = "starting" /\ ~RowLocked
    /\ WorkerIs(w, [workers[w] EXCEPT !.seen = "requested",
                      !.pc = IF project THEN "deleting" ELSE "verifying",
                      !.todo = {o \in DOMAIN stored : project /\ stored[o] = "active"}])
    /\ UNCHANGED <<row, jobs, requests, uploads, held, content, approvers, faults>>

Removed(w, o) ==
    WorkerIs(w, [workers[w] EXCEPT !.todo = @ \ {o}, !.removed = @ \union {o}])

\* Variant: an object the backend refuses to delete is skipped.
DeleteObjectOrSkip(w) ==
    /\ workers[w].pc = "deleting"
    /\ \E o \in workers[w].todo :
         \/ Removed(w, o) /\ store' = store \ {o}
         \/ WorkerIs(w, [workers[w] EXCEPT !.todo = @ \ {o}]) /\ UNCHANGED store
    /\ UNCHANGED <<row, jobs, requests, uploads, held, project, stored, approvers, faults>>

\* StorageService.delete and the check that the object is gone.
DeleteObject(w) ==
    /\ workers[w].pc = "deleting"
    /\ \E o \in workers[w].todo : Removed(w, o) /\ store' = store \ {o}
    /\ UNCHANGED <<row, jobs, requests, uploads, held, project, stored, approvers, faults>>

\* The DELETE waits for uploads that reference the project.
DeleteProject(w) ==
    /\ workers[w].pc = "deleting" /\ workers[w].todo = {}
    /\ \A u \in Uploads : uploads[u] \notin {"inserted", "put"}
    /\ WorkerAt(w, "verifying")
    /\ UNCHANGED <<row, jobs, requests, uploads, held, content, approvers, faults>>

\* Verification and commit.  Rows of objects that were not listed go with the
\* project.
CommitDeletion(w) ==
    LET removed == workers[w].removed IN
    /\ workers[w].pc = "verifying" /\ removed \intersect store = {}
    /\ row' = [row EXCEPT !.status = "completed"]
    /\ project' = FALSE
    /\ stored' = [o \in DOMAIN stored |->
                    IF o \in removed \/ stored[o] = "deleted" THEN "deleted" ELSE "none"]
    /\ WorkerIs(w, [Free EXCEPT !.pc = "returning", !.job = workers[w].job])
    /\ UNCHANGED <<jobs, requests, uploads, held, store, approvers, faults>>

\* The store or the database raises; the store may have acted.
HandlerRaises(w) ==
    /\ workers[w].pc \in {"checking", "blocking", "starting"} \union LockPoints
    /\ Fault
    /\ \/ UNCHANGED store
       \/ \E o \in workers[w].todo : store' = store \ {o}
    /\ \E retryable \in BOOLEAN : WorkerFails(w, retryable)
    /\ UNCHANGED <<row, jobs, requests, uploads, held, project, stored, approvers>>

\* The second session of the handler.
FailRead(w) ==
    /\ workers[w].pc = "failing"
    /\ WorkerIs(w, IF row.status = "blocked"
                   THEN [workers[w] EXCEPT !.pc = "raising"]
                   ELSE [workers[w] EXCEPT !.pc = "marking", !.seen = row.status])
    /\ UNCHANGED <<row, jobs, requests, uploads, held, content, approvers, faults>>

\* mark_failed.
MarkFailed(w) ==
    /\ workers[w].pc = "marking" /\ ~RowLocked
    /\ SaveStatus(workers[w].seen, "failed")
    /\ WorkerIs(w, [workers[w] EXCEPT !.pc = "raising", !.seen = "requested"])
    /\ UNCHANGED <<jobs, requests, uploads, held, content, approvers, faults>>

-----------------------------------------------------------------------------
(* Uploads to the project, and lost processes.                               *)

\* upload_document: the inserted document references the project, the object is
\* put, and the row of the object is committed.
UploadInsert(u) ==
    /\ uploads[u] = "waiting" /\ project
    /\ \A w \in Workers : workers[w].pc # "verifying"
    /\ uploads' = [uploads EXCEPT ![u] = "inserted"]
    /\ UNCHANGED <<row, jobs, requests, workers, held, content, approvers, faults>>

UploadPut(u) ==
    /\ uploads[u] = "inserted"
    /\ uploads' = [uploads EXCEPT ![u] = "put"]
    /\ store' = store \union {u}
    /\ UNCHANGED <<row, jobs, requests, workers, held, project, stored, approvers, faults>>

UploadCommit(u) ==
    /\ uploads[u] = "put"
    /\ uploads' = [uploads EXCEPT ![u] = "ended"]
    /\ stored' = [stored EXCEPT ![u] = "active"]
    /\ UNCHANGED <<row, jobs, requests, workers, held, project, store, approvers, faults>>

UploadLost(u) ==
    /\ uploads[u] \in {"inserted", "put"}
    /\ Fault
    /\ uploads' = [uploads EXCEPT ![u] = "ended"]
    /\ UNCHANGED <<row, jobs, requests, workers, held, content, approvers>>

WorkerLost(w) ==
    /\ workers[w].pc # "idle"
    /\ Fault
    /\ WorkerIs(w, Free)
    /\ UNCHANGED <<row, jobs, requests, uploads, held, content, approvers>>

RequestLost(q) ==
    /\ requests[q].pc # "idle"
    /\ Fault
    /\ Answer(q)
    /\ UNCHANGED <<row, jobs, workers, uploads, held, content, approvers>>

-----------------------------------------------------------------------------
Ask(q) == DecideRead(q) \/ CancelRead(q) \/ RetryRead(q)

Proceed(q) ==
    \/ DecideCase(q) \/ DecideWrite(q) \/ Enqueue(q) \/ Refresh(q) \/ LinkWrite(q)
    \/ CancelWrite(q) \/ RetryWrite(q)

Handle(w) ==
    \/ Load(w) \/ CheckHolds(w) \/ Block(w) \/ Start(w) \/ DeleteObject(w)
    \/ DeleteProject(w) \/ CommitDeletion(w) \/ FailRead(w) \/ MarkFailed(w)
    \/ Complete(w) \/ FailJob(w)

Upload(u) == UploadInsert(u) \/ UploadPut(u) \/ UploadCommit(u)

Next ==
    \/ \E q \in Requests : Ask(q) \/ Proceed(q) \/ EnqueueFails(q) \/ RequestLost(q)
    \/ \E w \in Workers : Claim(w) \/ Handle(w) \/ HandlerRaises(w) \/ WorkerLost(w)
    \/ \E k \in Keys : JobStops(k) \/ JobRetry(k)
    \/ \E u \in Uploads : Upload(u) \/ UploadLost(u)
    \/ PlaceHold \/ ReleaseHold

Spec == Init /\ [][Next]_vars

\* Threads and processes that run are scheduled, and the database grants a row's
\* lock to those who wait.
FairSpec ==
    /\ Spec
    /\ \A q \in Requests : SF_vars(Proceed(q))
    /\ \A w \in Workers : SF_vars(Handle(w))
    /\ \A u \in Uploads : WF_vars(UploadPut(u) \/ UploadCommit(u))

-----------------------------------------------------------------------------
(* Properties.                                                               *)

Deletes == (\E o \in store : o \notin store') \/ project' # project

\* Dual control: no object is removed and no project deleted before somebody
\* other than the requester committed an approval, whatever requests, jobs and
\* retries run at the same time (DataSubjectRequestService.decide).
IndependentApproval == [][Deletes => approvers \ {Requester} # {}]_vars

\* A hold that was active when the handler loaded the request, and was not
\* released since, keeps that attempt from deleting (execute_deletion).
HoldRespected ==
    \A w \in Workers : workers[w].pc \in LockPoints => ~workers[w].under

\* Completed means gone: after any sequence of lost workers, half-done
\* deletions and repeated attempts, a completed request leaves neither the
\* project nor one of the objects it had, and every tombstone is true
\* (_delete_project).
VerifiedGone ==
    /\ row.status = "completed" => ~project /\ store \intersect Objects = {}
    /\ \A o \in DOMAIN stored : stored[o] = "deleted" => o \notin store

\* An attempt deletes nothing that is held, and claims nothing it did not
\* delete (execute_deletion, _delete_project).
DeletionSound == TypeOK /\ HoldRespected /\ VerifiedGone

\* Nobody waits forever: every API request that entered is answered and every
\* worker comes to the end of its delivery, with row locks held across the
\* deletion of objects (execute_deletion, mark_failed in a second session).
AllReturn ==
    /\ \A q \in Requests : requests[q].pc # "idle" ~> requests[q].pc = "idle"
    /\ \A w \in Workers : workers[w].pc # "idle" ~> workers[w].pc = "idle"

\* Violated.  "Recheck human approval": an attempt goes on to delete only if the
\* final decision of the request it loads is an approval (execute_deletion;
\* V0_9_DATA_LIFECYCLE_AND_REVIEW.md, "Verified deletion").
ApprovalRechecked ==
    [][\A w \in Workers :
         workers[w].pc = "claimed" /\ workers'[w].pc = "checking"
           => row.final = "approved"]_vars

=============================================================================
