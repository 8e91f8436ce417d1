---------------------------- MODULE JobDelivery ----------------------------
(***************************************************************************)
(* Delivery of one background job: the row of background_jobs, the Celery  *)
(* messages that notify workers of it, the worker deliveries that claim,   *)
(* run and settle it, and the API requests that enqueue, cancel, retry and *)
(* recover it.                                                             *)
(*                                                                         *)
(* The database runs at READ COMMITTED and no statement of these paths     *)
(* locks the row, so a session that loads the row and commits later is two *)
(* steps here: the load keeps a snapshot, the commit goes through Save,    *)
(* which writes by primary key the columns the session changed.  A         *)
(* conditional UPDATE is one step.                                         *)
(*                                                                         *)
(* Time is abstracted to its deadlines: a lease is live until LeaseExpires,*)
(* a backoff runs until BackoffElapses, and a process reads its clock when *)
(* its UPDATE runs.                                                        *)
(***************************************************************************)
EXTENDS Naturals

CONSTANTS
    Deliveries,   \* slots for broker messages, each with the worker that takes it
    Requests,     \* API requests that may be in progress at the same time
    MaxAttempts,  \* background_jobs.max_attempts, JOB_MAX_ATTEMPTS
    Operations,   \* what operators and administrators do in this instance
    LostAt,       \* program points at which a worker or API process may be lost
    Redelivers,   \* the broker may deliver an unacknowledged message again
    PublishFails, \* handing a message to the broker may raise
    MaxResets,    \* bound: operator retries
    MaxFaults     \* bound: lost processes, redeliveries and failed publishes

ASSUME AttemptsAssumption == MaxAttempts \in Nat \ {0}
ASSUME BoundsAssumption == MaxResets \in Nat /\ MaxFaults \in Nat
ASSUME SwitchAssumption == Redelivers \in BOOLEAN /\ PublishFails \in BOOLEAN

VARIABLES
    row,        \* the committed row of the job
    deliveries, \* [Deliveries -> Delivery]: messages and the workers on them
    requests,   \* [Requests -> Request]: API requests in progress
    claims,     \* claims so far; the n-th one writes the lease token n
    pending,    \* tokens of failed attempts whose backoff has not elapsed
    published,  \* Celery task ids handed out so far
    revoked,    \* task ids the workers were told to discard
    authorized, \* the job's actor still holds the required capability
    resets,     \* operator retries so far
    faults      \* faults so far

vars == <<row, deliveries, requests, claims, pending, published, revoked,
          authorized, resets, faults>>

-----------------------------------------------------------------------------
(* The row.  lease_token and celery_task_id are numbers, 0 for NULL;         *)
(* next_attempt_at is {} for NULL, {0} for a time already past, {t} for the  *)
(* backoff of the attempt that held token t; result names the attempt whose  *)
(* result is stored.                                                         *)

Terminal == {"completed", "failed", "cancelled", "dead_letter"}
Retryable == {"queued", "retry_scheduled"}
Statuses == Terminal \union Retryable \union {"running", "cancelling"}

Row == [status: Statuses, attempts: 0..MaxAttempts, token: Nat,
        lease: {"null", "live", "expired"}, next: SUBSET Nat, cancel: BOOLEAN,
        task: Nat, result: Nat]

NewRow == [status |-> "queued", attempts |-> 0, token |-> 0, lease |-> "null",
           next |-> {}, cancel |-> FALSE, task |-> 0, result |-> 0]

\* A column a session did not change keeps what others committed meanwhile.
Column(loaded, assigned, current) == IF assigned # loaded THEN assigned ELSE current

\* Variant: the session writes every column it loaded.
SaveWholeRow(loaded, new) == new

Save(loaded, new) ==
    [status   |-> Column(loaded.status, new.status, row.status),
     attempts |-> Column(loaded.attempts, new.attempts, row.attempts),
     token    |-> Column(loaded.token, new.token, row.token),
     lease    |-> Column(loaded.lease, new.lease, row.lease),
     next     |-> Column(loaded.next, new.next, row.next),
     cancel   |-> Column(loaded.cancel, new.cancel, row.cancel),
     task     |-> Column(loaded.task, new.task, row.task),
     result   |-> Column(loaded.result, new.result, row.result)]

CancelPending(r) == r.cancel \/ r.status = "cancelling"
Due(r) == r.next \intersect pending = {}

-----------------------------------------------------------------------------
(* A delivery is a message and, once a worker takes it, that worker.         *)

HandlerPoints == {"started", "handler"}   \* inside `with heartbeat`
OwnerPoints == HandlerPoints \union {"completing", "failing", "failWrite"}
ClaimPoints == {"cancelWrite", "exhaustWrite", "claimWrite", "denied", "denyWrite"}
WorkerPoints == OwnerPoints \union ClaimPoints \union {"retrying"}

Delivery == [pc: {"free", "ready"} \union WorkerPoints, task: Nat, retries: Nat,
             token: Nat, snap: Row,
             exc: {"none", "cancelled", "transient", "permanent"}]

Free == [pc |-> "free", task |-> 0, retries |-> 0, token |-> 0,
         snap |-> NewRow, exc |-> "none"]

Message(task, retries, token) ==
    [Free EXCEPT !.pc = "ready", !.task = task, !.retries = retries, !.token = token]

Become(d, record) == deliveries' = [deliveries EXCEPT ![d] = record]
GoTo(d, point) == Become(d, [deliveries[d] EXCEPT !.pc = point, !.snap = NewRow])
GoWith(d, point) == Become(d, [deliveries[d] EXCEPT !.pc = point, !.snap = row])
Raise(d, e) == Become(d, [deliveries[d] EXCEPT !.pc = "failing", !.exc = e])
Finish(d) == Become(d, Free)      \* acknowledged or rejected: the message is gone

Owns(d) == row.token = deliveries[d].token

\* The program points of an API request after its first commit or load.
DispatchPoints == {"enqueued", "reset", "recovered", "orphaned"}
RequestPoints == {"idle", "cancelWrite", "revoke", "resetWrite", "recoverWrite",
                  "record", "undelivered", "undeliveredWrite"} \union DispatchPoints

Request == [pc: RequestPoints, snap: Row, task: Nat]
Idle == [pc |-> "idle", snap |-> NewRow, task |-> 0]

RequestGoes(q, point, loaded) ==
    requests' = [requests EXCEPT ![q] = [pc |-> point, snap |-> loaded, task |-> 0]]
Answer(q) == requests' = [requests EXCEPT ![q] = Idle]

TypeOK ==
    /\ row \in Row
    /\ deliveries \in [Deliveries -> Delivery]
    /\ requests \in [Requests -> Request]
    /\ claims \in Nat /\ published \in Nat /\ resets \in Nat /\ faults \in Nat
    /\ pending \in SUBSET Nat /\ revoked \in SUBSET Nat
    /\ authorized \in BOOLEAN

\* enqueue_job committed the row and has not called delay() yet.
Init ==
    /\ row = NewRow
    /\ deliveries = [d \in Deliveries |-> Free]
    /\ \E q \in Requests :
         requests = [p \in Requests |->
                       IF p = q THEN [Idle EXCEPT !.pc = "enqueued"] ELSE Idle]
    /\ claims = 0 /\ published = 0 /\ resets = 0 /\ faults = 0
    /\ pending = {} /\ revoked = {}
    /\ authorized = TRUE

-----------------------------------------------------------------------------
(* Claiming.                                                                 *)

control == <<claims, pending, published, revoked, authorized, resets>>

\* The branch claim_job takes on the row it loaded.
ClaimPoint(r) ==
    IF CancelPending(r) THEN "cancelWrite"
    ELSE IF r.attempts >= MaxAttempts THEN "exhaustWrite"
    ELSE IF authorized THEN "claimWrite" ELSE "denied"

ClaimRead(d) ==
    /\ deliveries[d].pc = "ready"
    /\ deliveries[d].token \notin pending       \* the ETA of a retried message
    /\ IF row.status \in Terminal THEN Finish(d)
       ELSE IF ClaimPoint(row) \in {"cancelWrite", "exhaustWrite"}
            THEN GoWith(d, ClaimPoint(row))
            ELSE GoTo(d, ClaimPoint(row))
    /\ UNCHANGED <<control, row, requests, faults>>

\* The two dead ends of claim_job leave the lease columns as they are.
CancelAtClaim(d) ==
    LET old == deliveries[d].snap IN
    /\ deliveries[d].pc = "cancelWrite"
    /\ row' = Save(old, [old EXCEPT !.status = "cancelled"])
    /\ Finish(d)
    /\ UNCHANGED <<control, requests, faults>>

ExhaustAtClaim(d) ==
    LET old == deliveries[d].snap IN
    /\ deliveries[d].pc = "exhaustWrite"
    /\ row' = Save(old, [old EXCEPT !.status = "dead_letter"])
    /\ Finish(d)
    /\ UNCHANGED <<control, requests, faults>>

Claimable(r) ==
    /\ r.attempts < MaxAttempts
    /\ r.status \in Retryable \/ (r.status = "running" /\ r.lease = "expired")
    /\ Due(r)
    /\ ~r.cancel

ClaimUpdate(d) ==
    /\ deliveries[d].pc = "claimWrite"
    /\ IF Claimable(row)
       THEN /\ claims' = claims + 1
            /\ row' = [row EXCEPT !.status = "running", !.attempts = @ + 1,
                         !.token = claims + 1, !.lease = "live", !.next = {}]
            /\ Become(d, [deliveries[d] EXCEPT !.pc = "started", !.snap = NewRow,
                            !.token = claims + 1])
       ELSE Finish(d) /\ UNCHANGED <<row, claims>>
    /\ UNCHANGED <<requests, pending, published, revoked, authorized,
                   resets, faults>>

\* JobAuthorizationError: a second session loads the row and fails it.
DeniedRead(d) ==
    /\ deliveries[d].pc = "denied"
    /\ GoWith(d, "denyWrite")
    /\ UNCHANGED <<control, row, requests, faults>>

DeniedWrite(d) ==
    LET old == deliveries[d].snap IN
    /\ deliveries[d].pc = "denyWrite"
    /\ row' = Save(old, [old EXCEPT !.status = "failed"])
    /\ Finish(d)
    /\ UNCHANGED <<control, requests, faults>>

-----------------------------------------------------------------------------
(* Running.                                                                  *)

\* The renewals of the heartbeat thread.
Heartbeat(d) ==
    /\ deliveries[d].pc \in HandlerPoints
    /\ row.status = "running" /\ Owns(d) /\ ~row.cancel
    /\ row' = [row EXCEPT !.lease = "live"]
    /\ UNCHANGED <<control, deliveries, requests, faults>>

\* JobHeartbeat.checkpoint.  A renewal that found no row to renew, or raised,
\* makes the next checkpoint raise JobLeaseLost, which is classified as
\* permanent; since a renewal may raise at any time, a checkpoint always may.
Checkpoint(d, onward) ==
    \/ Raise(d, "permanent")
    \/ Owns(d) /\ CancelPending(row) /\ Raise(d, "cancelled")
    \/ Owns(d) /\ ~CancelPending(row) /\ GoTo(d, onward)

FirstCheckpoint(d) ==
    /\ deliveries[d].pc = "started"
    /\ Checkpoint(d, "handler")
    /\ UNCHANGED <<control, row, requests, faults>>

\* The handler's own checkpoints; _job_or_error, _progress and the work itself
\* raise permanent errors or transient ones.
HandlerRaises(d) ==
    /\ deliveries[d].pc = "handler"
    /\ \/ Raise(d, "transient")
       \/ Raise(d, "permanent")
       \/ Owns(d) /\ CancelPending(row) /\ Raise(d, "cancelled")
    /\ UNCHANGED <<control, row, requests, faults>>

\* The handler returns its result, and the last checkpoint.
HandlerReturns(d) ==
    /\ deliveries[d].pc = "handler"
    /\ Checkpoint(d, "completing")
    /\ UNCHANGED <<control, row, requests, faults>>

\* Variants: the UPDATE matches the token but not the status, and the status but
\* not the token.
CompleteByToken(d) ==
    /\ deliveries[d].pc = "completing"
    /\ IF Owns(d)
       THEN /\ row' = [row EXCEPT !.status = "completed", !.token = 0,
                         !.lease = "null", !.result = deliveries[d].token]
            /\ Finish(d)
       ELSE Raise(d, "permanent") /\ UNCHANGED row
    /\ UNCHANGED <<control, requests, faults>>

CompleteByStatus(d) ==
    /\ deliveries[d].pc = "completing"
    /\ IF row.status = "running"
       THEN /\ row' = [row EXCEPT !.status = "completed", !.token = 0,
                         !.lease = "null", !.result = deliveries[d].token]
            /\ Finish(d)
       ELSE Raise(d, "permanent") /\ UNCHANGED row
    /\ UNCHANGED <<control, requests, faults>>

\* complete_job: one conditional UPDATE and its audit event.
Complete(d) ==
    /\ deliveries[d].pc = "completing"
    /\ IF row.status = "running" /\ Owns(d)
       THEN /\ row' = [row EXCEPT !.status = "completed", !.token = 0,
                         !.lease = "null", !.result = deliveries[d].token]
            /\ Finish(d)
       ELSE Raise(d, "permanent") /\ UNCHANGED row
    /\ UNCHANGED <<control, requests, faults>>

-----------------------------------------------------------------------------
(* Failing: fail_job loads the row, checks the token, and writes by key.     *)

FailRead(d) ==
    /\ deliveries[d].pc = "failing"
    /\ IF Owns(d) THEN GoWith(d, "failWrite") ELSE Finish(d)
    /\ UNCHANGED <<control, row, requests, faults>>

FailStatus(old, exc) ==
    IF exc = "cancelled" \/ old.cancel THEN "cancelled"
    ELSE IF exc = "permanent" THEN "failed"
    ELSE IF old.attempts < MaxAttempts THEN "retry_scheduled" ELSE "dead_letter"

FailWrite(d) ==
    LET del    == deliveries[d]
        old    == del.snap
        status == FailStatus(old, del.exc)
        new    == [old EXCEPT !.status = status, !.token = 0, !.lease = "null"]
    IN  /\ del.pc = "failWrite"
        /\ IF status = "retry_scheduled"
           THEN /\ row' = Save(old, [new EXCEPT !.next = {del.token}])
                /\ pending' = pending \union {del.token}
                /\ GoTo(d, "retrying")
           ELSE row' = Save(old, new) /\ Finish(d) /\ UNCHANGED pending
        /\ UNCHANGED <<requests, claims, published, revoked, authorized, resets,
                       faults>>

\* task.retry publishes the message again, with the same task id and an ETA;
\* past max_retries it raises instead, and nothing is published.
Republish(d) ==
    LET del == deliveries[d] IN
    /\ del.pc = "retrying"
    /\ IF del.retries + 1 <= MaxAttempts - 1
       THEN Become(d, Message(del.task, del.retries + 1, del.token))
       ELSE Finish(d)
    /\ UNCHANGED <<control, row, requests, faults>>

-----------------------------------------------------------------------------
(* API requests.  Each loads the row, checks its status and commits later.   *)

\* delay(): the broker takes a message with a new task id.  An exception tells
\* the request nothing: the broker may hold the message all the same.
PublishTo(slot) ==
    /\ deliveries[slot].pc = "free"
    /\ published' = published + 1
    /\ Become(slot, Message(published + 1, 0, 0))

Dispatch(q) ==
    /\ requests[q].pc \in DispatchPoints
    /\ \E slot \in Deliveries : PublishTo(slot)
    /\ requests' = [requests EXCEPT ![q] =
                       [Idle EXCEPT !.pc = "record", !.task = published + 1]]
    /\ UNCHANGED <<row, claims, pending, revoked, authorized, resets, faults>>

DispatchRaises(q) ==
    /\ PublishFails /\ faults < MaxFaults
    /\ requests[q].pc \in DispatchPoints
    /\ \/ \E slot \in Deliveries : PublishTo(slot)
       \/ UNCHANGED <<deliveries, published>>
    /\ RequestGoes(q, "undelivered", NewRow)
    /\ faults' = faults + 1
    /\ UNCHANGED <<row, claims, pending, revoked, authorized, resets>>

RecordTask(q) ==
    /\ requests[q].pc = "record"
    /\ row' = [row EXCEPT !.task = requests[q].task]
    /\ Answer(q)
    /\ UNCHANGED <<control, deliveries, faults>>

\* After the exception: reload, give up silently unless still queued, else fail.
UndeliveredRead(q) ==
    /\ requests[q].pc = "undelivered"
    /\ IF row.status = "queued" THEN RequestGoes(q, "undeliveredWrite", row)
       ELSE Answer(q)
    /\ UNCHANGED <<control, row, deliveries, faults>>

UndeliveredWrite(q) ==
    LET old == requests[q].snap IN
    /\ requests[q].pc = "undeliveredWrite"
    /\ row' = Save(old, [old EXCEPT !.status = "failed"])
    /\ Answer(q)
    /\ UNCHANGED <<control, deliveries, faults>>

\* POST cancel: the endpoint's load, request_job_cancellation, then the revoke.
\* cancel_requested_at is always written: the time differs from any loaded one.
CancelRead(q) ==
    /\ "cancel" \in Operations
    /\ requests[q].pc = "idle"
    /\ RequestGoes(q, IF row.status \in Terminal THEN "revoke" ELSE "cancelWrite", row)
    /\ UNCHANGED <<control, row, deliveries, faults>>

CancelWrite(q) ==
    LET old    == requests[q].snap
        status == IF old.status = "running" THEN "cancelling" ELSE "cancelled"
    IN  /\ requests[q].pc = "cancelWrite"
        /\ row' = [Save(old, [old EXCEPT !.status = status]) EXCEPT !.cancel = TRUE]
        /\ RequestGoes(q, "revoke", row')
        /\ UNCHANGED <<control, deliveries, faults>>

\* Sent for a terminal job as well.
Revoke(q) ==
    /\ requests[q].pc = "revoke"
    /\ revoked' = revoked \union ({requests[q].snap.task} \ {0})
    /\ Answer(q)
    /\ UNCHANGED <<row, deliveries, claims, pending, published, authorized,
                   resets, faults>>

\* POST retry: reset_job_for_retry, then dispatch_persisted_job.
ResetRead(q) ==
    /\ "retry" \in Operations /\ resets < MaxResets
    /\ requests[q].pc = "idle"
    /\ row.status \in Terminal \ {"completed"}
    /\ RequestGoes(q, "resetWrite", row)
    /\ UNCHANGED <<control, row, deliveries, faults>>

\* The recorded task id and the stored result survive the reset.
Fresh(old) == [NewRow EXCEPT !.task = old.task, !.result = old.result]

ResetWrite(q) ==
    LET old == requests[q].snap IN
    /\ requests[q].pc = "resetWrite" /\ resets < MaxResets
    /\ row' = Save(old, Fresh(old))
    /\ resets' = resets + 1
    /\ RequestGoes(q, "reset", NewRow)
    /\ UNCHANGED <<deliveries, claims, pending, published, revoked, authorized, faults>>

\* POST recover: recover_stale_jobs, and the dispatch of what it rescheduled.
RecoverRead(q) ==
    /\ "recover" \in Operations
    /\ requests[q].pc = "idle"
    /\ row.status = "running" /\ row.lease = "expired"
    /\ RequestGoes(q, "recoverWrite", row)
    /\ UNCHANGED <<control, row, deliveries, faults>>

\* Variants: recovery reschedules without dispatching, or clears the lease of an
\* exhausted job and leaves its status.
RecoverWithoutDispatch(q) ==
    LET old == requests[q].snap IN
    /\ requests[q].pc = "recoverWrite"
    /\ row' = Save(old, [old EXCEPT !.token = 0, !.lease = "null", !.next = {0},
                           !.status = "retry_scheduled"])
    /\ Answer(q)
    /\ UNCHANGED <<control, deliveries, faults>>

RecoverWithoutStatus(q) ==
    LET old == requests[q].snap IN
    /\ requests[q].pc = "recoverWrite"
    /\ row' = Save(old, [old EXCEPT !.token = 0, !.lease = "null", !.next = {0}])
    /\ RequestGoes(q, "recovered", NewRow)
    /\ UNCHANGED <<control, deliveries, faults>>

RecoverWrite(q) ==
    LET old   == requests[q].snap
        clear == [old EXCEPT !.token = 0, !.lease = "null"]
    IN  /\ requests[q].pc = "recoverWrite"
        /\ IF old.cancel
           THEN row' = Save(old, [clear EXCEPT !.status = "cancelled"]) /\ Answer(q)
           ELSE IF old.attempts >= MaxAttempts
           THEN row' = Save(old, [clear EXCEPT !.status = "dead_letter"]) /\ Answer(q)
           ELSE /\ row' = Save(old, [clear EXCEPT !.status = "retry_scheduled", !.next = {0}])
                /\ RequestGoes(q, "recovered", NewRow)
        /\ UNCHANGED <<control, deliveries, faults>>

\* recover_orphaned_queued_jobs; the grace period may have passed at any time.
OrphanRead(q) ==
    /\ "recover" \in Operations
    /\ requests[q].pc = "idle"
    /\ row.status = "queued" /\ row.task = 0
    /\ RequestGoes(q, "orphaned", NewRow)
    /\ UNCHANGED <<control, row, deliveries, faults>>

-----------------------------------------------------------------------------
(* Time, access, the broker, and lost processes.                             *)

LeaseExpires ==
    /\ row.lease = "live"
    /\ row' = [row EXCEPT !.lease = "expired"]
    /\ UNCHANGED <<control, deliveries, requests, faults>>

BackoffElapses ==
    /\ \E t \in pending : pending' = pending \ {t}
    /\ UNCHANGED <<row, deliveries, requests, claims, published, revoked, authorized,
                   resets, faults>>

RevokeAccess ==
    /\ "revokeAccess" \in Operations
    /\ authorized' = FALSE
    /\ UNCHANGED <<row, deliveries, requests, claims, pending, published, revoked,
                   resets, faults>>

\* A worker that got the revoke signal discards the message; one that did not
\* (it restarted since) runs it.
Discard(d) ==
    /\ deliveries[d].pc = "ready" /\ deliveries[d].task \in revoked
    /\ Finish(d)
    /\ UNCHANGED <<control, row, requests, faults>>

\* task_acks_late, task_reject_on_worker_lost: the message goes back.
WorkerLost(d) ==
    LET del == deliveries[d] IN
    /\ faults < MaxFaults
    /\ del.pc \in WorkerPoints \intersect LostAt
    /\ Become(d, Message(del.task, del.retries, 0))
    /\ faults' = faults + 1
    /\ UNCHANGED <<control, row, requests>>

Redeliver(d, slot) ==
    LET del == deliveries[d] IN
    /\ Redelivers /\ faults < MaxFaults
    /\ del.pc # "free" /\ deliveries[slot].pc = "free"
    /\ Become(slot, Message(del.task, del.retries, IF del.pc = "ready" THEN del.token ELSE 0))
    /\ faults' = faults + 1
    /\ UNCHANGED <<control, row, requests>>

RequestLost(q) ==
    /\ faults < MaxFaults
    /\ requests[q].pc \in (RequestPoints \ {"idle"}) \intersect LostAt
    /\ Answer(q)
    /\ faults' = faults + 1
    /\ UNCHANGED <<control, row, deliveries>>

-----------------------------------------------------------------------------
Claiming(d) == ClaimRead(d) \/ CancelAtClaim(d) \/ ExhaustAtClaim(d) \/ ClaimUpdate(d)
               \/ DeniedRead(d) \/ DeniedWrite(d)
Running(d) == FirstCheckpoint(d) \/ HandlerRaises(d) \/ HandlerReturns(d) \/ Complete(d)
Failing(d) == FailRead(d) \/ FailWrite(d) \/ Republish(d)
Working(d) == Claiming(d) \/ Running(d) \/ Failing(d)

Dispatching(q) == Dispatch(q) \/ RecordTask(q) \/ UndeliveredRead(q) \/ UndeliveredWrite(q)
Committing(q) == CancelWrite(q) \/ Revoke(q) \/ ResetWrite(q) \/ RecoverWrite(q)
Asking(q) == CancelRead(q) \/ ResetRead(q)
Recovering(q) == RecoverRead(q) \/ OrphanRead(q)

Next ==
    \/ \E d \in Deliveries : Working(d) \/ Heartbeat(d) \/ Discard(d) \/ WorkerLost(d)
    \/ \E d, slot \in Deliveries : Redeliver(d, slot)
    \/ \E q \in Requests : Dispatching(q) \/ DispatchRaises(q) \/ Committing(q)
                           \/ Asking(q) \/ Recovering(q) \/ RequestLost(q)
    \/ LeaseExpires \/ BackoffElapses \/ RevokeAccess

Spec == Init /\ [][Next]_vars

\* Workers, requests and deadlines make progress, and somebody keeps calling the
\* recovery endpoint.  Nothing makes an operator cancel or retry, a broker
\* redeliver, or a process die.
Fairness ==
    /\ \A d \in Deliveries : WF_vars(Working(d))
    /\ \A q \in Requests : WF_vars(Dispatching(q)) /\ WF_vars(Committing(q))
                           /\ WF_vars(Recovering(q))
    /\ WF_vars(LeaseExpires) /\ WF_vars(BackoffElapses)

FairSpec == Spec /\ Fairness

-----------------------------------------------------------------------------
(* Properties.                                                               *)

\* claim_job, complete_job, fail_job: the row names at most one attempt, the
\* newest, and no two deliveries act for the same attempt, so a delivery whose
\* lease was taken away can never pass a token check again.
TokenFence ==
    /\ row.token \in {0, claims}
    /\ \A d \in Deliveries : deliveries[d].pc \in OwnerPoints =>
         deliveries[d].token \in 1..claims
    /\ \A d, e \in Deliveries :
         /\ {deliveries[d].pc, deliveries[e].pc} \subseteq OwnerPoints
         /\ deliveries[d].token = deliveries[e].token
         => d = e

\* request_job_cancellation against claim_job, complete_job and fail_job: once a
\* cancellation is committed no stale write or late worker brings the job back
\* to running, or completes it.
CancellationSticks == row.cancel => row.status \notin {"running", "completed"}

\* claim_job and reset_job_for_retry: the handler is invoked at most max_attempts
\* times per operator retry, although stale sessions write to the same row.
AttemptBudget ==
    claims + (MaxAttempts - row.attempts) <= MaxAttempts * (resets + 1)

\* complete_job: a result is stored only while its attempt is the newest and
\* still holds the lease; the worker of an earlier attempt never stores one.
ResultFromHolder ==
    [][row'.result # row.result =>
         /\ row.status = "running" /\ row.token = claims
         /\ row'.result = claims]_vars

\* recover_stale_jobs and claim_job find an abandoned job by its lease: a running
\* job should have one, or no recovery will ever select it.
HasLease(r) == r.status = "running" => r.token # 0 /\ r.lease # "null"
RunningHoldsLease == HasLease(row)

\* fail_job clears the lease and leaves the status to what it is meanwhile, when
\* it loaded a job that had already been settled as it settles it.
SettlesAgain(d) ==
    LET del == deliveries[d] IN
    /\ del.pc = "failWrite" /\ deliveries'[d].pc # "failWrite"
    /\ FailStatus(del.snap, del.exc) = del.snap.status

\* recover_stale_jobs (job_control.py:756-827) and every other commit on a row
\* loaded before, but that of SettlesAgain: none takes the lease from a job and
\* leaves it running, however it is overtaken, so recovery still finds it.
RunningKeepsLease ==
    [][HasLease(row) /\ ~(\E d \in Deliveries : SettlesAgain(d)) => HasLease(row')]_vars

\* The job's statuses implement the lease contract.
Lease == INSTANCE JobLease WITH
    holder <- row.token, left <- MaxAttempts - row.attempts,
    withdrawn <- row.cancel, result <- row.result

ImplementsLease == Lease!Spec

\* Without cancellations and operator retries, a job whose workers or enqueuing
\* request may die before or while the handler runs ends in a terminal status,
\* as long as recovery is called.
Settles == <>[](row.status \in Terminal)

\* The delivery document, section 5: only the delivery that holds the lease
\* settles a run whose lease is live; another delivery just observes it.
LiveLeaseUndisturbed ==
    [][/\ row.status = "running" /\ row.lease = "live"
       /\ row'.status \notin {"running", "cancelling"}
       => \E d \in Deliveries : Owns(d) /\ deliveries[d].pc \in OwnerPoints
                                /\ deliveries'[d] # deliveries[d]]_vars

\* Sections 7 and 8: a running job that is cancelled while a worker holds it gets
\* cancelled, by the worker or, should that be lost, by recovery.
CancellationCommits ==
    row.status = "cancelling" /\ row.token # 0 ~> row.status # "cancelling"

=============================================================================
