--------------------- MODULE DataSubjectRequestsProofs ---------------------
(***************************************************************************)
(* Theorems about DataSubjectRequests, for every set of workers, API       *)
(* requests, people, keys, objects and uploads and every number of         *)
(* attempts and faults, and about ReviewCases, for every set of reviewers  *)
(* and calls and every number of events.                                   *)
(***************************************************************************)
EXTENDS DataSubjectRequests, ReviewCases, SequenceTheorems, TLAPS

-----------------------------------------------------------------------------
(* Lemmas about the helpers the actions are built from.                      *)

LEMMA NewRowType == NewRow \in Row
  BY DEF NewRow, Row, Statuses

LEMMA IdleType == Idle \in Request
  BY NewRowType, RequesterAssumption DEF Idle, Request, Decisions

LEMMA FreeType == Free \in Worker
  BY DEF Free, Worker, Statuses, LockPoints

LEMMA NoJobType == NoJob \in Job
  BY BoundAssumption DEF NoJob, Job

LEMMA NewJobType ==
  ASSUME NEW who \in Principals
  PROVE  /\ [NoJob EXCEPT !.status = "open", !.owner = who, !.left = MaxAttempts] \in Job
         /\ [NoJob EXCEPT !.status = "failed", !.owner = who] \in Job
<1>1. MaxAttempts \in 0..MaxAttempts
  BY BoundAssumption
<1>2. QED
  BY <1>1, NoJobType DEF Job

\* A commit through a session leaves in each column what the session assigned,
\* where that differs from what it had loaded, and what was there elsewhere.
LEMMA SaveType ==
  ASSUME row \in Row, NEW loaded \in Row, NEW new \in Row, Save(loaded, new)
  PROVE  /\ row' \in Row
         /\ row'.status \in {new.status, row.status}
         /\ row'.final \in {new.final, row.final}
         /\ row'.status = new.status => loaded.status # new.status \/ row.status = new.status
  BY DEF Save, Column, Row

LEMMA SaveStatusType ==
  ASSUME row \in Row, NEW seen \in Statuses, NEW new \in Statuses, SaveStatus(seen, new)
  PROVE  row' \in Row /\ row'.status \in {new, row.status} /\ row'.final = row.final
  BY DEF SaveStatus, Column, Row

LEMMA RequestMoves ==
  ASSUME requests \in [Requests -> Request], NEW q \in Requests,
         NEW point \in {"dispatch", "refresh"}
  PROVE  /\ Answer(q) => /\ requests'[q].pc = "idle"
                         /\ \A p \in Requests : p # q => requests'[p] = requests[p]
         /\ RequestAt(q, point) => /\ requests'[q].pc = point
                                   /\ \A p \in Requests : p # q => requests'[p] = requests[p]
<1>1. [requests[q] EXCEPT !.pc = point, !.snap = NewRow].pc = point
  BY DEF Request
<1>2. Idle.pc = "idle"
  BY DEF Idle
<1>3. QED
  BY <1>1, <1>2 DEF Answer, RequestAt

LEMMA WorkerBecomes ==
  ASSUME workers \in [Workers -> Worker], NEW w \in Workers, NEW record \in Worker,
         WorkerIs(w, record)
  PROVE  /\ workers' \in [Workers -> Worker]
         /\ workers'[w] = record
         /\ \A v \in Workers : v # w => workers'[v] = workers[v]
  BY DEF WorkerIs

Points == {"idle", "claimed", "checking", "blocking", "starting", "failing",
           "marking", "raising", "returning"} \union LockPoints

-----------------------------------------------------------------------------
(* Type correctness.                                                         *)

LEMMA InitType == Init => TypeOK
<1> SUFFICES ASSUME Init PROVE TypeOK
  OBVIOUS
<1>1. row \in Row /\ jobs \in [Keys -> Job]
  BY NewRowType, NoJobType DEF Init
<1>2. requests \in [Requests -> Request] /\ workers \in [Workers -> Worker]
  BY IdleType, FreeType DEF Init
<1>3. QED
  BY <1>1, <1>2, BoundAssumption DEF Init, TypeOK

\* Steps of an API request that only moves on or loads.
LEMMA RequestGoes ==
  ASSUME TypeOK, NEW q \in Requests
  PROVE  /\ Answer(q) => requests' \in [Requests -> Request]
         /\ RequestAt(q, "dispatch") => requests' \in [Requests -> Request]
         /\ RequestAt(q, "refresh") => requests' \in [Requests -> Request]
         /\ requests' = [requests EXCEPT ![q].pc = "decideWrite"]
              => requests' \in [Requests -> Request]
         /\ requests' = [requests EXCEPT ![q].pc = "linkWrite", ![q].snap = row]
              => requests' \in [Requests -> Request]
<1>1. requests[q] \in Request /\ row \in Row
  BY DEF TypeOK
<1>2. /\ [requests[q] EXCEPT !.pc = "dispatch", !.snap = NewRow] \in Request
      /\ [requests[q] EXCEPT !.pc = "refresh", !.snap = NewRow] \in Request
      /\ [requests[q] EXCEPT !.pc = "decideWrite"] \in Request
      /\ [requests[q] EXCEPT !.pc = "linkWrite", !.snap = row] \in Request
  BY <1>1, NewRowType DEF Request
<1>3. QED
  BY <1>2, IdleType DEF TypeOK, Answer, RequestAt

LEMMA RequestLoadsType ==
  ASSUME TypeOK, NEW q \in Requests, NEW who \in Principals, NEW key \in Keys \union {NoKey},
         NEW decision \in Decisions, NEW point \in {"dispatch", "decide", "cancelWrite", "retryWrite"},
         RequestLoads(q, point, who, key, decision)
  PROVE  requests' \in [Requests -> Request]
<1>1. [pc |-> point, snap |-> row, who |-> who, key |-> key, decision |-> decision] \in Request
  BY DEF TypeOK, Request
<1>2. QED
  BY <1>1 DEF TypeOK, RequestLoads

LEMMA AskType == ASSUME TypeOK, NEW q \in Requests, Ask(q) PROVE TypeOK'
<1>1. CASE DecideRead(q)
  BY <1>1, RequestLoadsType DEF DecideRead, TypeOK, content
<1>2. CASE CancelRead(q)
  <2>1. row.reviewer \in Principals \union {NoOne}
    BY DEF TypeOK, Row
  <2>2. "denied" \in Decisions
    BY DEF Decisions
  <2>3. requests' \in [Requests -> Request]
    BY <1>2, <2>1, <2>2, RequestLoadsType, RequesterAssumption DEF CancelRead
  <2>4. QED
    BY <1>2, <2>3 DEF CancelRead, TypeOK, content
<1>3. CASE RetryRead(q)
  <2>1. "approved" \in Decisions
    BY DEF Decisions
  <2>2. requests' \in [Requests -> Request]
    BY <1>3, <2>1, RequestLoadsType DEF RetryRead
  <2>3. QED
    BY <1>3, <2>2 DEF RetryRead, TypeOK, content
<1>4. QED
  BY <1>1, <1>2, <1>3 DEF Ask

\* What the requests that write have assigned.
LEMMA AssignedType ==
  ASSUME TypeOK, NEW q \in Requests
  PROVE  LET r == requests[q] IN
         /\ r \in Request /\ r.snap \in Row
         /\ r.pc = "decideWrite" =>
              [r.snap EXCEPT !.status = r.decision, !.final = r.decision,
                             !.reviewer = r.who, !.key = r.key] \in Row
         /\ [r.snap EXCEPT !.job = r.key,
                           !.status = IF @ = "approved" THEN "running" ELSE @] \in Row
         /\ [r.snap EXCEPT !.status = "cancelled", !.final = "cancelled"] \in Row
         /\ [r.snap EXCEPT !.status = "approved"] \in Row
<1> DEFINE r == requests[q]
<1>1. r \in Request /\ r.snap \in Row
  BY DEF TypeOK, Request
<1>2. /\ r.decision \in {"approved", "denied"} /\ r.who \in Principals
      /\ r.key \in Keys \union {NoKey}
  BY <1>1 DEF Request, Decisions
<1> HIDE DEF r
<1>3. [r.snap EXCEPT !.status = r.decision, !.final = r.decision,
                     !.reviewer = r.who, !.key = r.key] \in Row
  BY <1>1, <1>2 DEF Row, Statuses
<1>4. [r.snap EXCEPT !.job = r.key,
                     !.status = IF @ = "approved" THEN "running" ELSE @] \in Row
  BY <1>1, <1>2 DEF Row, Statuses
<1>5. /\ [r.snap EXCEPT !.status = "cancelled", !.final = "cancelled"] \in Row
      /\ [r.snap EXCEPT !.status = "approved"] \in Row
  BY <1>1 DEF Row, Statuses
<1>6. QED
  BY <1>1, <1>3, <1>4, <1>5 DEF r

LEMMA ProceedType == ASSUME TypeOK, NEW q \in Requests, Proceed(q) PROVE TypeOK'
<1>0. requests[q] \in Request /\ requests[q].who \in Principals
  BY DEF TypeOK, Request
<1>1. CASE DecideCase(q)
  BY <1>1, RequestGoes DEF DecideCase, TypeOK, content
<1>2. CASE DecideWrite(q)
  <2>1. row' \in Row
    BY <1>2, AssignedType, SaveType DEF DecideWrite, TypeOK
  <2>2. requests' \in [Requests -> Request] /\ approvers' \subseteq Principals
    BY <1>0, <1>2, RequestGoes DEF DecideWrite, TypeOK
  <2>3. QED
    BY <1>2, <2>1, <2>2 DEF DecideWrite, TypeOK, content
<1>3. CASE Enqueue(q)
  <2>1. jobs' \in [Keys -> Job]
    BY <1>0, <1>3, NewJobType DEF Enqueue, TypeOK
  <2>2. jobs' \in [Keys -> Job] /\ requests' \in [Requests -> Request]
    BY <1>3, <2>1, RequestGoes DEF Enqueue, TypeOK
  <2>3. QED
    BY <1>3, <2>2 DEF Enqueue, TypeOK, content
<1>4. CASE Refresh(q)
  BY <1>4, RequestGoes DEF Refresh, TypeOK, content
<1>5. CASE LinkWrite(q)
  <2>1. row' \in Row
    BY <1>5, AssignedType, SaveType DEF LinkWrite, TypeOK
  <2>2. QED
    BY <1>5, <2>1, RequestGoes DEF LinkWrite, TypeOK, content
<1>6. CASE CancelWrite(q)
  <2>1. row' \in Row
    BY <1>6, AssignedType, SaveType DEF CancelWrite, TypeOK
  <2>2. QED
    BY <1>6, <2>1, RequestGoes DEF CancelWrite, TypeOK, content
<1>7. CASE RetryWrite(q)
  <2>1. row' \in Row
    BY <1>7, AssignedType, SaveType DEF RetryWrite, TypeOK
  <2>2. QED
    BY <1>7, <2>1, RequestGoes DEF RetryWrite, TypeOK, content
<1>8. QED
  BY <1>1, <1>2, <1>3, <1>4, <1>5, <1>6, <1>7 DEF Proceed

LEMMA JobStepType ==
  ASSUME TypeOK, NEW k \in Keys, JobStops(k) \/ JobRetry(k)
  PROVE  TypeOK'
<1>1. faults' \in 0..MaxFaults
  BY BoundAssumption DEF TypeOK, JobStops, JobRetry, Fault
<1>2. jobs' \in [Keys -> Job]
  <2>1. jobs[k] \in Job /\ MaxAttempts \in 0..MaxAttempts
    BY BoundAssumption DEF TypeOK
  <2>2. /\ [jobs[k] EXCEPT !.status = "failed", !.holder = NoOne] \in Job
        /\ [jobs[k] EXCEPT !.status = "open", !.left = MaxAttempts] \in Job
    BY <2>1 DEF Job
  <2>3. QED
    BY <2>2 DEF TypeOK, JobStops, JobRetry
<1>3. QED
  BY <1>1, <1>2 DEF TypeOK, JobStops, JobRetry, content

\* The records the handler's steps give to a worker.
LEMMA HandlerRecords ==
  ASSUME TypeOK, NEW w \in Workers
  PROVE  /\ workers[w] \in Worker
         /\ \A point \in Points : [workers[w] EXCEPT !.pc = point] \in Worker
         /\ \A point \in Points, seen \in Statuses :
              [workers[w] EXCEPT !.pc = point, !.seen = seen] \in Worker
         /\ \A point \in Points : [Free EXCEPT !.pc = point, !.job = workers[w].job] \in Worker
         /\ \A k \in Keys : [Free EXCEPT !.pc = "claimed", !.job = k] \in Worker
         /\ \A retryable \in BOOLEAN :
              [Free EXCEPT !.pc = "failing", !.job = workers[w].job,
                           !.retryable = retryable] \in Worker
         /\ [workers[w] EXCEPT !.pc = "checking", !.seen = row.status, !.under = held] \in Worker
         /\ [workers[w] EXCEPT !.seen = "requested",
               !.pc = IF project THEN "deleting" ELSE "verifying",
               !.todo = {o \in DOMAIN stored : project /\ stored[o] = "active"}] \in Worker
         /\ \A o \in Objects \union Uploads :
              [workers[w] EXCEPT !.todo = @ \ {o}, !.removed = @ \union {o}] \in Worker
<1>1. /\ workers[w] \in Worker /\ held \in BOOLEAN /\ row.status \in Statuses
      /\ DOMAIN stored = Objects \union Uploads
  BY DEF TypeOK, Row
<1>2. /\ "claimed" \in Points /\ "failing" \in Points /\ "checking" \in Points
      /\ "deleting" \in Points /\ "verifying" \in Points /\ "requested" \in Statuses
  BY DEF Points, LockPoints, Statuses
<1>3. \A point \in Points, seen \in Statuses :
         /\ [workers[w] EXCEPT !.pc = point] \in Worker
         /\ [workers[w] EXCEPT !.pc = point, !.seen = seen] \in Worker
         /\ [Free EXCEPT !.pc = point, !.job = workers[w].job] \in Worker
  BY <1>1, FreeType DEF Worker, Points
<1>4. \A k \in Keys : [Free EXCEPT !.pc = "claimed", !.job = k] \in Worker
  BY <1>2, FreeType DEF Worker, Points
<1>5. \A retryable \in BOOLEAN :
         [Free EXCEPT !.pc = "failing", !.job = workers[w].job, !.retryable = retryable] \in Worker
  BY <1>1, <1>2, FreeType DEF Worker, Points
<1>6. [workers[w] EXCEPT !.pc = "checking", !.seen = row.status, !.under = held] \in Worker
  BY <1>1, <1>2 DEF Worker, Points
<1>7. [workers[w] EXCEPT !.seen = "requested",
         !.pc = IF project THEN "deleting" ELSE "verifying",
         !.todo = {o \in DOMAIN stored : project /\ stored[o] = "active"}] \in Worker
  <2> DEFINE todo == {o \in DOMAIN stored : project /\ stored[o] = "active"}
  <2>1. todo \in SUBSET (Objects \union Uploads)
    BY <1>1
  <2> HIDE DEF todo
  <2>2. [workers[w] EXCEPT !.seen = "requested",
           !.pc = IF project THEN "deleting" ELSE "verifying", !.todo = todo] \in Worker
    BY <1>1, <1>2, <2>1 DEF Worker, Points
  <2>3. QED
    BY <2>2 DEF todo
<1>8. \A o \in Objects \union Uploads :
         [workers[w] EXCEPT !.todo = @ \ {o}, !.removed = @ \union {o}] \in Worker
  BY <1>1 DEF Worker
<1>9. QED
  BY <1>1, <1>2, <1>3, <1>4, <1>5, <1>6, <1>7, <1>8

LEMMA ClaimType == ASSUME TypeOK, NEW w \in Workers, Claim(w) PROVE TypeOK'
<1>1. PICK k \in Keys :
        /\ jobs[k].status = "open" /\ jobs[k].left > 0
        /\ jobs' = [jobs EXCEPT ![k].left = @ - 1, ![k].holder = w]
        /\ WorkerIs(w, [Free EXCEPT !.pc = "claimed", !.job = k])
  BY DEF Claim
<1>2. jobs' \in [Keys -> Job]
  <2>1. jobs[k] \in Job
    BY DEF TypeOK
  <2>2. jobs[k].left - 1 \in 0..MaxAttempts
    BY <1>1, <2>1, BoundAssumption DEF Job
  <2>3. [jobs[k] EXCEPT !.left = @ - 1, !.holder = w] \in Job
    BY <2>1, <2>2 DEF Job
  <2>4. QED
    BY <1>1, <2>3 DEF TypeOK
<1>3. workers' \in [Workers -> Worker]
  BY <1>1, HandlerRecords, WorkerBecomes DEF TypeOK
<1>4. QED
  BY <1>2, <1>3 DEF Claim, TypeOK, content

\* complete_job and fail_job change the job the delivery was made for.
LEMMA EndsType ==
  ASSUME TypeOK, NEW w \in Workers, Holds(w), NEW status \in {"open", "completed", "failed"},
         Ends(w, status)
  PROVE  jobs' \in [Keys -> Job]
<1>1. CASE workers[w].job \in Keys
  <2>1. jobs[workers[w].job] \in Job
    BY <1>1 DEF TypeOK
  <2>2. [jobs[workers[w].job] EXCEPT !.status = status, !.holder = NoOne] \in Job
    BY <2>1 DEF Job
  <2>3. QED
    BY <1>1, <2>2 DEF TypeOK, Ends
<1>2. CASE workers[w].job \notin Keys
  BY <1>2 DEF TypeOK, Ends
<1>3. QED
  BY <1>1, <1>2

LEMMA HandleType == ASSUME TypeOK, NEW w \in Workers, Handle(w) PROVE TypeOK'
<1>0. workers[w] \in Worker /\ workers \in [Workers -> Worker] /\ row \in Row
  BY DEF TypeOK
<1>1. CASE Load(w)
  <2>1. workers' \in [Workers -> Worker]
    BY <1>0, <1>1, FreeType, HandlerRecords, WorkerBecomes DEF Load, WorkerFails
  <2>2. QED
    BY <1>1, <2>1 DEF Load, TypeOK, content
<1>2. CASE CheckHolds(w)
  <2>1. workers' \in [Workers -> Worker]
    BY <1>0, <1>2, HandlerRecords, WorkerBecomes DEF CheckHolds, WorkerAt, Points
  <2>2. QED
    BY <1>2, <2>1 DEF CheckHolds, TypeOK, content
<1>3. CASE Block(w)
  <2>1. "returning" \in Points /\ "blocked" \in Statuses /\ workers[w].seen \in Statuses
    BY <1>0 DEF Points, Statuses, Worker
  <2>2. workers' \in [Workers -> Worker] /\ row' \in Row
    BY <1>0, <1>3, <2>1, HandlerRecords, WorkerBecomes, SaveStatusType DEF Block
  <2>3. QED
    BY <1>3, <2>2 DEF Block, TypeOK, content
<1>4. CASE Start(w)
  <2>1. workers' \in [Workers -> Worker]
    BY <1>0, <1>4, HandlerRecords, WorkerBecomes DEF Start
  <2>2. QED
    BY <1>4, <2>1 DEF Start, TypeOK, content
<1>5. CASE DeleteObject(w)
  <2>1. PICK o \in workers[w].todo : Removed(w, o) /\ store' = store \ {o}
    BY <1>5 DEF DeleteObject
  <2>2. o \in Objects \union Uploads
    BY <1>0, <2>1 DEF Worker
  <2>3. workers' \in [Workers -> Worker]
    BY <1>0, <2>1, <2>2, HandlerRecords, WorkerBecomes DEF Removed
  <2>4. QED
    BY <1>5, <2>1, <2>3 DEF DeleteObject, TypeOK
<1>6. CASE DeleteProject(w)
  <2>1. "verifying" \in Points
    BY DEF Points, LockPoints
  <2>2. workers' \in [Workers -> Worker]
    BY <1>0, <1>6, <2>1, HandlerRecords, WorkerBecomes DEF DeleteProject, WorkerAt
  <2>3. QED
    BY <1>6, <2>2 DEF DeleteProject, TypeOK, content
<1>7. CASE CommitDeletion(w)
  <2>1. "returning" \in Points
    BY DEF Points
  <2>2. workers' \in [Workers -> Worker]
    BY <1>0, <1>7, <2>1, HandlerRecords, WorkerBecomes DEF CommitDeletion
  <2>3. row' \in Row
    BY <1>0, <1>7 DEF CommitDeletion, Row, Statuses
  <2>4. stored' \in [Objects \union Uploads -> {"none", "active", "deleted"}]
    BY <1>7 DEF CommitDeletion, TypeOK
  <2>5. QED
    BY <1>7, <2>2, <2>3, <2>4 DEF CommitDeletion, TypeOK
<1>8. CASE FailRead(w)
  <2>1. "raising" \in Points /\ "marking" \in Points /\ row.status \in Statuses
    BY <1>0 DEF Points, Row
  <2>2. workers' \in [Workers -> Worker]
    BY <1>0, <1>8, <2>1, HandlerRecords, WorkerBecomes DEF FailRead
  <2>3. QED
    BY <1>8, <2>2 DEF FailRead, TypeOK, content
<1>9. CASE MarkFailed(w)
  <2>1. /\ "raising" \in Points /\ "failed" \in Statuses /\ "requested" \in Statuses
        /\ workers[w].seen \in Statuses
    BY <1>0 DEF Points, Statuses, Worker
  <2>2. workers' \in [Workers -> Worker] /\ row' \in Row
    BY <1>0, <1>9, <2>1, HandlerRecords, WorkerBecomes, SaveStatusType DEF MarkFailed
  <2>3. QED
    BY <1>9, <2>2 DEF MarkFailed, TypeOK, content
<1>10. CASE Complete(w)
  <2>1. workers' \in [Workers -> Worker]
    BY <1>0, <1>10, FreeType, WorkerBecomes DEF Complete
  <2>2. jobs' \in [Keys -> Job]
    BY <1>10, EndsType DEF Complete, TypeOK
  <2>3. QED
    BY <1>10, <2>1, <2>2 DEF Complete, TypeOK, content
<1>11. CASE FailJob(w)
  <2>1. workers' \in [Workers -> Worker]
    BY <1>0, <1>11, FreeType, WorkerBecomes DEF FailJob
  <2>2. jobs' \in [Keys -> Job]
    BY <1>11, EndsType DEF FailJob, TypeOK
  <2>3. QED
    BY <1>11, <2>1, <2>2 DEF FailJob, TypeOK, content
<1>12. QED
  BY <1>1, <1>2, <1>3, <1>4, <1>5, <1>6, <1>7, <1>8, <1>9, <1>10, <1>11 DEF Handle

\* What goes wrong, by itself or by hand.
LEMMA MishapType ==
  ASSUME TypeOK,
         \/ \E q \in Requests : EnqueueFails(q) \/ RequestLost(q)
         \/ \E w \in Workers : HandlerRaises(w) \/ WorkerLost(w)
         \/ \E u \in Uploads : UploadLost(u)
  PROVE  TypeOK'
<1>1. faults' \in 0..MaxFaults
  <2>1. Fault
    BY DEF EnqueueFails, RequestLost, HandlerRaises, WorkerLost, UploadLost
  <2>2. QED
    BY <2>1, BoundAssumption DEF TypeOK, Fault
<1>2. ASSUME NEW q \in Requests, EnqueueFails(q) PROVE TypeOK'
  <2>1. requests[q].who \in Principals
    BY DEF TypeOK, Request
  <2>2. jobs' \in [Keys -> Job]
    BY <1>2, <2>1, NewJobType DEF EnqueueFails, TypeOK
  <2>3. QED
    BY <1>1, <1>2, <2>2, RequestGoes DEF EnqueueFails, TypeOK, content
<1>3. ASSUME NEW q \in Requests, RequestLost(q) PROVE TypeOK'
  BY <1>1, <1>3, RequestGoes DEF RequestLost, TypeOK, content
<1>4. ASSUME NEW w \in Workers, HandlerRaises(w) PROVE TypeOK'
  <2>1. workers' \in [Workers -> Worker]
    BY <1>4, HandlerRecords, WorkerBecomes DEF HandlerRaises, WorkerFails, TypeOK
  <2>2. store' \subseteq Objects \union Uploads
    BY <1>4 DEF HandlerRaises, TypeOK
  <2>3. QED
    BY <1>1, <1>4, <2>1, <2>2 DEF HandlerRaises, TypeOK
<1>5. ASSUME NEW w \in Workers, WorkerLost(w) PROVE TypeOK'
  BY <1>1, <1>5, FreeType, WorkerBecomes DEF WorkerLost, TypeOK, content
<1>6. ASSUME NEW u \in Uploads, UploadLost(u) PROVE TypeOK'
  BY <1>1, <1>6 DEF UploadLost, TypeOK, content
<1>7. QED
  BY <1>2, <1>3, <1>4, <1>5, <1>6

LEMMA UploadType == ASSUME TypeOK, NEW u \in Uploads, Upload(u) PROVE TypeOK'
  BY DEF Upload, UploadInsert, UploadPut, UploadCommit, TypeOK, content

LEMMA HoldType == ASSUME TypeOK, PlaceHold \/ ReleaseHold PROVE TypeOK'
<1>1. CASE PlaceHold
  BY <1>1 DEF PlaceHold, TypeOK, content
<1>2. CASE ReleaseHold
  <2>1. \A w \in Workers : [workers[w] EXCEPT !.under = FALSE] \in Worker
    BY ZenonT(60) DEF TypeOK, Worker
  <2>2. QED
    BY <1>2, <2>1 DEF ReleaseHold, TypeOK, content
<1>3. QED
  BY <1>1, <1>2

LEMMA StepType == TypeOK /\ [Next]_vars => TypeOK'
<1> SUFFICES ASSUME TypeOK, [Next]_vars PROVE TypeOK'
  OBVIOUS
<1>1. CASE UNCHANGED vars
  BY <1>1 DEF TypeOK, vars, content
<1>2. CASE Next
  BY <1>2, AskType, ProceedType, ClaimType, HandleType, JobStepType, MishapType,
     UploadType, HoldType DEF Next
<1>3. QED
  BY <1>1, <1>2

\* Every reachable state is well typed.
THEOREM TypeCorrect == Spec => []TypeOK
  BY InitType, StepType, PTL DEF Spec

-----------------------------------------------------------------------------
(* Dual control.                                                             *)

Independent == approvers \ {Requester} # {}

\* Until somebody else approved, nothing is on its way: no approval stands, no
\* request dispatches, no job exists and no worker has one; and whoever is about
\* to decide is somebody else.
Waiting ==
    /\ row.final = "approved" => Independent
    /\ \A q \in Requests :
         /\ requests[q].pc \in {"decide", "decideWrite"} => requests[q].who # Requester
         /\ requests[q].pc \in {"dispatch", "refresh", "linkWrite", "retryWrite"} => Independent
    /\ \A k \in Keys : jobs[k].status # "absent" => Independent
    /\ \A w \in Workers : workers[w].pc # "idle" => Independent

LEMMA InitWaiting == Init => Waiting
  BY DEF Init, Waiting, NewRow, NoJob, Idle, Free

\* Steps of API requests.
LEMMA AskWaits == ASSUME TypeOK, Waiting, NEW q \in Requests, Ask(q) PROVE Waiting'
<1>1. UNCHANGED <<row, jobs, workers, approvers>>
  BY DEF Ask, DecideRead, CancelRead, RetryRead
<1>2. /\ \A p \in Requests : p # q => requests'[p] = requests[p]
      /\ requests'[q].pc \in {"decide", "decideWrite"} => requests'[q].who # Requester
      /\ requests'[q].pc \in {"dispatch", "refresh", "linkWrite", "retryWrite"} => Independent
  BY DEF Ask, DecideRead, CancelRead, RetryRead, RequestLoads, Decidable, Waiting, TypeOK
<1>3. QED
  BY <1>1, <1>2 DEF Waiting, Independent

LEMMA ProceedWaits == ASSUME TypeOK, Waiting, NEW q \in Requests, Proceed(q) PROVE Waiting'
<1>0. /\ requests[q] \in Request /\ row \in Row /\ requests \in [Requests -> Request]
      /\ requests[q].snap \in Row
  BY DEF TypeOK, Request
<1>1. CASE DecideCase(q)
  <2>1. UNCHANGED <<row, jobs, workers, approvers>>
    BY <1>1 DEF DecideCase
  <2>2. CASE Answer(q)
    BY <1>0, <2>1, <2>2, RequestMoves DEF Waiting, Independent
  <2>3. CASE requests' = [requests EXCEPT ![q].pc = "decideWrite"]
    <3>1. /\ \A p \in Requests : p # q => requests'[p] = requests[p]
          /\ requests'[q].pc = "decideWrite" /\ requests'[q].who = requests[q].who
      BY <1>0, <2>3 DEF Request
    <3>2. QED
      BY <1>1, <2>1, <3>1 DEF DecideCase, Waiting, Independent
  <2>4. QED
    BY <1>1, <2>2, <2>3 DEF DecideCase
<1>2. CASE DecideWrite(q)
  <2>1. requests[q].decision = "approved" => Independent'
    BY <1>2 DEF DecideWrite, Waiting, Independent
  <2>2. Independent => Independent'
    BY <1>2 DEF DecideWrite, Independent
  <2>3. row'.final \in {requests[q].decision, row.final}
    <3>1. [requests[q].snap EXCEPT !.status = requests[q].decision, !.final = requests[q].decision,
              !.reviewer = requests[q].who, !.key = requests[q].key].final = requests[q].decision
      BY <1>0 DEF Row
    <3>2. QED
      BY <1>0, <1>2, <3>1, AssignedType, SaveType DEF DecideWrite
  <2>4. /\ \A p \in Requests : p # q => requests'[p] = requests[p]
        /\ requests'[q].pc \in {"idle", "dispatch"}
        /\ requests'[q].pc = "dispatch" => requests[q].decision = "approved"
    <3>1. CASE requests[q].decision = "approved"
      BY <1>0, <1>2, <3>1, RequestMoves DEF DecideWrite
    <3>2. CASE requests[q].decision # "approved"
      BY <1>0, <1>2, <3>2, RequestMoves DEF DecideWrite
    <3>3. QED
      BY <3>1, <3>2
  <2>5. QED
    BY <1>2, <2>1, <2>2, <2>3, <2>4 DEF DecideWrite, Waiting
<1>3. CASE Enqueue(q)
  <2>1. Independent /\ UNCHANGED <<row, workers, approvers>>
    BY <1>3 DEF Enqueue, Waiting
  <2>2. /\ \A p \in Requests : p # q => requests'[p] = requests[p]
        /\ requests'[q].pc \in {"idle", "refresh"}
    <3>1. RequestAt(q, "refresh") \/ Answer(q)
      BY <1>3 DEF Enqueue
    <3>2. QED
      BY <1>0, <3>1, RequestMoves
  <2>3. QED
    BY <2>1, <2>2 DEF Waiting, Independent
<1>4. CASE Refresh(q)
  BY <1>0, <1>4 DEF Refresh, Waiting, Independent
<1>5. CASE LinkWrite(q)
  <2>1. Independent /\ UNCHANGED <<jobs, workers, approvers>>
    BY <1>5 DEF LinkWrite, Waiting
  <2>2. QED
    BY <1>0, <1>5, <2>1 DEF LinkWrite, Answer, Idle, Waiting, Independent
<1>6. CASE CancelWrite(q)
  <2>1. row'.final \in {"cancelled", row.final}
    <3>1. [requests[q].snap EXCEPT !.status = "cancelled", !.final = "cancelled"].final = "cancelled"
      BY <1>0 DEF Row
    <3>2. QED
      BY <1>0, <1>6, <3>1, AssignedType, SaveType DEF CancelWrite
  <2>2. QED
    BY <1>0, <1>6, <2>1 DEF CancelWrite, Answer, Idle, Waiting, Independent
<1>7. CASE RetryWrite(q)
  <2>1. Independent /\ UNCHANGED <<jobs, workers, approvers>>
    BY <1>7 DEF RetryWrite, Waiting
  <2>2. QED
    BY <1>0, <1>7, <2>1 DEF RetryWrite, RequestAt, Waiting, Independent
<1>8. QED
  BY <1>1, <1>2, <1>3, <1>4, <1>5, <1>6, <1>7 DEF Proceed

\* A worker has a job only if there is one, and a job ends without being absent.
LEMMA WorkWaits ==
  ASSUME TypeOK, Waiting, NEW w \in Workers,
         Claim(w) \/ Handle(w) \/ HandlerRaises(w) \/ WorkerLost(w)
  PROVE  Waiting'
<1>1. Independent
  BY DEF Claim, Handle, Load, CheckHolds, Block, Start, DeleteObject, DeleteProject,
     CommitDeletion, FailRead, MarkFailed, Complete, FailJob, HandlerRaises, WorkerLost,
     LockPoints, Waiting
<1>2. UNCHANGED <<requests, approvers>>
  BY DEF Claim, Handle, Load, CheckHolds, Block, Start, DeleteObject, DeleteProject,
     CommitDeletion, FailRead, MarkFailed, Complete, FailJob, HandlerRaises, WorkerLost, content
<1>3. QED
  BY <1>1, <1>2 DEF Waiting, Independent

LEMMA StepWaits == TypeOK /\ Waiting /\ [Next]_vars => Waiting'
<1> SUFFICES ASSUME TypeOK, Waiting, [Next]_vars PROVE Waiting'
  OBVIOUS
<1>1. ASSUME NEW q \in Requests, EnqueueFails(q) \/ RequestLost(q) PROVE Waiting'
  <2>1. UNCHANGED <<row, workers, approvers>>
    BY <1>1 DEF EnqueueFails, RequestLost
  <2>2. /\ \A p \in Requests : p # q => requests'[p] = requests[p]
        /\ requests'[q].pc = "idle"
    BY <1>1 DEF EnqueueFails, RequestLost, Answer, Idle, TypeOK
  <2>3. \A k \in Keys : jobs'[k].status # "absent" => Independent
    BY <1>1 DEF EnqueueFails, RequestLost, Waiting, TypeOK
  <2>4. QED
    BY <2>1, <2>2, <2>3 DEF Waiting, Independent
<1>2. ASSUME NEW k \in Keys, JobStops(k) \/ JobRetry(k) PROVE Waiting'
  <2>1. Independent /\ UNCHANGED <<row, requests, workers, approvers>>
    BY <1>2 DEF JobStops, JobRetry, Waiting
  <2>2. QED
    BY <2>1 DEF Waiting, Independent
<1>3. ASSUME NEW u \in Uploads, Upload(u) \/ UploadLost(u) PROVE Waiting'
  BY <1>3 DEF Upload, UploadInsert, UploadPut, UploadCommit, UploadLost, Waiting, Independent
<1>4. CASE PlaceHold
  BY <1>4 DEF PlaceHold, Waiting, Independent
<1>5. CASE ReleaseHold
  <2>1. \A w \in Workers : workers'[w].pc = workers[w].pc
    BY <1>5 DEF ReleaseHold, TypeOK, Worker
  <2>2. QED
    BY <1>5, <2>1 DEF ReleaseHold, Waiting, Independent
<1>6. CASE UNCHANGED vars
  BY <1>6 DEF vars, Waiting, Independent
<1>7. QED
  BY <1>1, <1>2, <1>3, <1>4, <1>5, <1>6, AskWaits, ProceedWaits, WorkWaits DEF Next

\* Objects and projects are deleted by workers alone.
LEMMA DeletersWork ==
  ASSUME TypeOK, Waiting, [Next]_vars, Deletes
  PROVE  Independent
<1>1. ASSUME NEW w \in Workers, Claim(w) \/ Handle(w) \/ HandlerRaises(w) \/ WorkerLost(w)
      PROVE  Independent
  BY <1>1 DEF Claim, Handle, Load, CheckHolds, Block, Start, DeleteObject, DeleteProject,
     CommitDeletion, FailRead, MarkFailed, Complete, FailJob, HandlerRaises, WorkerLost,
     LockPoints, Waiting
<1>2. ASSUME NEW q \in Requests, Ask(q) \/ Proceed(q) \/ EnqueueFails(q) \/ RequestLost(q)
      PROVE  UNCHANGED content
  BY <1>2 DEF Ask, DecideRead, CancelRead, RetryRead, Proceed, DecideCase, DecideWrite,
     Enqueue, Refresh, LinkWrite, CancelWrite, RetryWrite, EnqueueFails, RequestLost
<1>3. ASSUME NEW k \in Keys, JobStops(k) \/ JobRetry(k)
      PROVE  UNCHANGED content
  BY <1>3 DEF JobStops, JobRetry
<1>4. ASSUME NEW u \in Uploads, Upload(u) \/ UploadLost(u)
      PROVE  store \subseteq store' /\ UNCHANGED project
  BY <1>4 DEF Upload, UploadInsert, UploadPut, UploadCommit, UploadLost, content
<1>5. PlaceHold \/ ReleaseHold \/ UNCHANGED vars => UNCHANGED content
  BY DEF PlaceHold, ReleaseHold, vars
<1>6. QED
  BY <1>1, <1>2, <1>3, <1>4, <1>5 DEF Next, Deletes, content

\* Dual control: whatever requests, jobs and retries run at the same time,
\* nothing is deleted before somebody other than the requester approved it
\* (DataSubjectRequestService.decide).
THEOREM NothingDeletedUnapproved == Spec => IndependentApproval
<1>1. Spec => [](TypeOK /\ Waiting)
  BY InitType, InitWaiting, StepType, StepWaits, PTL DEF Spec
<1>2. TypeOK /\ Waiting /\ [Next]_vars => [Deletes => approvers \ {Requester} # {}]_vars
  BY DeletersWork DEF Independent
<1>3. QED
  BY <1>1, <1>2, PTL DEF Spec, IndependentApproval

-----------------------------------------------------------------------------
(* What an attempt deletes and what it claims.                               *)

\* A worker that is marked as under a hold has found it, or will: it does not
\* come to delete.
UnderHold ==
    \A w \in Workers :
      /\ workers[w].under => held
      /\ workers[w].pc \in {"starting"} \union LockPoints => ~workers[w].under

\* The row's lock has one holder.
OneDeleter ==
    \A v, w \in Workers :
      workers[v].pc \in LockPoints /\ workers[w].pc \in LockPoints => v = w

\* The rows of stored objects: an upload has one when it ended, and the objects
\* the project had are active for as long as it exists.
RowsKept ==
    /\ \A u \in Uploads : uploads[u] # "ended" => stored[u] = "none"
    /\ project => \A o \in Objects : stored[o] = "active"

\* What a worker lists: the objects of the project, and no upload in progress.
Listed ==
    \A w \in Workers :
      /\ workers[w].pc = "deleting"
           => project /\ Objects \subseteq workers[w].todo \union workers[w].removed
      /\ workers[w].pc = "verifying" /\ project => Objects \subseteq workers[w].removed
      /\ \A u \in Uploads :
           u \in workers[w].todo \union workers[w].removed => uploads[u] = "ended"

\* With the project its objects are gone.
Gone == ~project => store \intersect Objects = {}

Kept == UnderHold /\ OneDeleter /\ RowsKept /\ Listed /\ Gone /\ VerifiedGone

LEMMA InitKept == Init => Kept
<1> SUFFICES ASSUME Init PROVE Kept
  OBVIOUS
<1>1. UnderHold /\ OneDeleter /\ Listed
  BY DEF Init, Free, UnderHold, OneDeleter, Listed, LockPoints
<1>2. RowsKept /\ Gone
  BY ObjectAssumption DEF Init, RowsKept, Gone
<1>3. VerifiedGone
  BY DEF Init, NewRow, VerifiedGone
<1>4. QED
  BY <1>1, <1>2, <1>3 DEF Kept

\* A step of requests and jobs, or of a worker that is not about to delete: it
\* may only have removed objects, and does not complete the request.
LEMMA OthersKeep ==
  ASSUME Kept, UNCHANGED <<workers, uploads, held, content>>,
         row'.status = "completed" => row.status = "completed"
  PROVE  Kept'
  BY DEF Kept, UnderHold, OneDeleter, RowsKept, Listed, Gone, VerifiedGone, content

LEMMA OutsideKeeps ==
  ASSUME TypeOK, Kept, NEW w \in Workers, NEW record \in Worker, WorkerIs(w, record),
         record.pc \notin {"starting"} \union LockPoints, record.under => held,
         record.todo \union record.removed \subseteq workers[w].todo \union workers[w].removed,
         UNCHANGED <<uploads, held, project, stored>>, store' \subseteq store,
         row'.status = "completed" => row.status = "completed"
  PROVE  Kept'
<1>1. /\ workers'[w] = record
      /\ \A v \in Workers : v # w => workers'[v] = workers[v]
  BY WorkerBecomes DEF TypeOK
<1>2. UnderHold'
  BY <1>1 DEF Kept, UnderHold
<1>3. OneDeleter'
  BY <1>1 DEF Kept, OneDeleter
<1>4. Listed'
  BY <1>1 DEF Kept, Listed, LockPoints
<1>5. RowsKept' /\ Gone' /\ VerifiedGone'
  BY DEF Kept, RowsKept, Gone, VerifiedGone
<1>6. QED
  BY <1>2, <1>3, <1>4, <1>5 DEF Kept

\* No write of a session completes the request.
LEMMA SavesDontComplete ==
  ASSUME TypeOK, NEW q \in Requests, Proceed(q), row'.status = "completed"
  PROVE  row.status = "completed"
<1> DEFINE r == requests[q]
<1>0. row \in Row /\ r.snap \in Row /\ r.decision # "completed"
  BY DEF TypeOK, Request, Decisions
<1>1. CASE DecideWrite(q)
  BY <1>0, <1>1 DEF DecideWrite, Save, Column, Row
<1>2. CASE LinkWrite(q)
  BY <1>0, <1>2 DEF LinkWrite, Save, Column, Row
<1>3. CASE CancelWrite(q)
  BY <1>0, <1>3 DEF CancelWrite, Save, Column, Row
<1>4. CASE RetryWrite(q)
  BY <1>0, <1>4 DEF RetryWrite, Save, Column, Row
<1>5. CASE DecideCase(q) \/ Enqueue(q) \/ Refresh(q)
  BY <1>5 DEF DecideCase, Enqueue, Refresh
<1>6. QED
  BY <1>1, <1>2, <1>3, <1>4, <1>5 DEF Proceed

\* The handler before and after its transaction.
LEMMA OutsideHandlerKeeps ==
  ASSUME TypeOK, Kept, NEW w \in Workers,
         \/ Claim(w) \/ Load(w) \/ Block(w) \/ FailRead(w) \/ MarkFailed(w)
         \/ Complete(w) \/ FailJob(w) \/ HandlerRaises(w) \/ WorkerLost(w)
  PROVE  Kept'
<1>0. /\ workers[w] \in Worker /\ row \in Row /\ workers[w].seen \in Statuses
      /\ workers[w].under => held
  BY DEF TypeOK, Worker, Kept, UnderHold
<1>1. CASE Claim(w)
  <2>1. PICK k \in Keys : WorkerIs(w, [Free EXCEPT !.pc = "claimed", !.job = k])
    BY <1>1 DEF Claim
  <2> DEFINE record == [Free EXCEPT !.pc = "claimed", !.job = k]
  <2>2. record \in Worker
    BY HandlerRecords
  <2>3. record.pc = "claimed" /\ record.under = FALSE /\ record.todo = {} /\ record.removed = {}
    BY DEF Free
  <2>4. QED
    BY <1>1, <2>1, <2>2, <2>3, OutsideKeeps DEF Claim, content, LockPoints
<1>2. ASSUME WorkerIs(w, Free), UNCHANGED <<row, uploads, held, content>>
      PROVE  Kept'
  <2>1. Free.pc = "idle" /\ Free.under = FALSE /\ Free.todo = {} /\ Free.removed = {}
    BY DEF Free
  <2>2. QED
    BY <1>2, <2>1, FreeType, OutsideKeeps DEF content, LockPoints
<1>3. ASSUME NEW retryable \in BOOLEAN, WorkerFails(w, retryable),
             UNCHANGED <<row, uploads, held, project, stored>>, store' \subseteq store
      PROVE  Kept'
  <2> DEFINE record == [Free EXCEPT !.pc = "failing", !.job = workers[w].job,
                                    !.retryable = retryable]
  <2>1. record \in Worker /\ WorkerIs(w, record)
    BY <1>3, HandlerRecords DEF WorkerFails
  <2>2. record.pc = "failing" /\ record.under = FALSE /\ record.todo = {} /\ record.removed = {}
    BY DEF Free
  <2> HIDE DEF record
  <2>3. QED
    BY <1>3, <2>1, <2>2, OutsideKeeps DEF LockPoints
<1>4. CASE Load(w)
  <2>1. CASE WorkerIs(w, [workers[w] EXCEPT !.pc = "checking", !.seen = row.status,
                                            !.under = held])
    <3> DEFINE record == [workers[w] EXCEPT !.pc = "checking", !.seen = row.status,
                                            !.under = held]
    <3>1. /\ record \in Worker /\ record.pc = "checking" /\ record.under = held
          /\ record.todo = workers[w].todo /\ record.removed = workers[w].removed
      BY <1>0, HandlerRecords DEF Worker
    <3>2. WorkerIs(w, record)
      BY <2>1
    <3> HIDE DEF record
    <3>3. QED
      BY <1>4, <3>1, <3>2, OutsideKeeps DEF Load, content, LockPoints
  <2>2. CASE WorkerFails(w, FALSE) \/ WorkerIs(w, Free)
    BY <1>2, <1>3, <1>4, <2>2 DEF Load, content
  <2>3. QED
    BY <1>4, <2>1, <2>2 DEF Load
<1>5. CASE Block(w)
  <2> DEFINE record == [Free EXCEPT !.pc = "returning", !.job = workers[w].job]
  <2>1. record \in Worker /\ WorkerIs(w, record)
    BY <1>5, HandlerRecords DEF Block, Points
  <2>2. record.pc = "returning" /\ record.under = FALSE /\ record.todo = {} /\ record.removed = {}
    BY DEF Free
  <2>3. row'.status \in {"blocked", row.status}
    BY <1>0, <1>5, SaveStatusType DEF Block, Statuses
  <2> HIDE DEF record
  <2>4. QED
    BY <1>5, <2>1, <2>2, <2>3, OutsideKeeps DEF Block, content, LockPoints
<1>6. CASE FailRead(w)
  <2> DEFINE raising == [workers[w] EXCEPT !.pc = "raising"]
             marking == [workers[w] EXCEPT !.pc = "marking", !.seen = row.status]
  <2>1. raising \in Worker /\ marking \in Worker
    BY <1>0, HandlerRecords DEF Points, Row
  <2>2. /\ raising.pc = "raising" /\ raising.under = workers[w].under
        /\ raising.todo = workers[w].todo /\ raising.removed = workers[w].removed
        /\ marking.pc = "marking" /\ marking.under = workers[w].under
        /\ marking.todo = workers[w].todo /\ marking.removed = workers[w].removed
    BY <1>0 DEF Worker
  <2>3. WorkerIs(w, raising) \/ WorkerIs(w, marking)
    BY <1>6 DEF FailRead
  <2> HIDE DEF raising, marking
  <2>4. QED
    BY <1>0, <1>6, <2>1, <2>2, <2>3, OutsideKeeps DEF FailRead, content, LockPoints
<1>7. CASE MarkFailed(w)
  <2> DEFINE record == [workers[w] EXCEPT !.pc = "raising", !.seen = "requested"]
  <2>1. record \in Worker /\ WorkerIs(w, record)
    BY <1>7, HandlerRecords DEF MarkFailed, Points, Statuses
  <2>2. /\ record.pc = "raising" /\ record.under = workers[w].under
        /\ record.todo = workers[w].todo /\ record.removed = workers[w].removed
    BY <1>0 DEF Worker
  <2>3. row'.status \in {"failed", row.status}
    BY <1>0, <1>7, SaveStatusType DEF MarkFailed, Statuses
  <2> HIDE DEF record
  <2>4. QED
    BY <1>0, <1>7, <2>1, <2>2, <2>3, OutsideKeeps DEF MarkFailed, content, LockPoints
<1>8. CASE Complete(w) \/ FailJob(w) \/ WorkerLost(w)
  BY <1>2, <1>8 DEF Complete, FailJob, WorkerLost
<1>9. CASE HandlerRaises(w)
  BY <1>3, <1>9 DEF HandlerRaises
<1>10. QED
  BY <1>1, <1>4, <1>5, <1>6, <1>7, <1>8, <1>9

\* A hold that was there when the handler loaded the request is found here.
LEMMA CheckHoldsKeeps ==
  ASSUME TypeOK, Kept, NEW w \in Workers, CheckHolds(w)
  PROVE  Kept'
<1> DEFINE point == IF held THEN "blocking" ELSE "starting"
           record == [workers[w] EXCEPT !.pc = point]
<1>1. workers[w] \in Worker /\ point \in Points
  BY DEF TypeOK, Points
<1>2. record \in Worker /\ WorkerIs(w, record)
  BY <1>1, HandlerRecords DEF CheckHolds, WorkerAt, HoldFound
<1>3. /\ record.pc = point /\ record.under = workers[w].under
      /\ record.todo = workers[w].todo /\ record.removed = workers[w].removed
  BY <1>1 DEF Worker
<1>4. /\ workers'[w] = record
      /\ \A v \in Workers : v # w => workers'[v] = workers[v]
  BY <1>2, WorkerBecomes DEF TypeOK
<1> HIDE DEF record
<1>5. UNCHANGED <<row, uploads, held, project, stored, store>>
  BY DEF CheckHolds, content
<1>6. UnderHold'
  BY <1>3, <1>4, <1>5 DEF Kept, UnderHold, LockPoints
<1>7. OneDeleter' /\ Listed'
  BY <1>3, <1>4, <1>5 DEF Kept, OneDeleter, Listed, LockPoints
<1>8. RowsKept' /\ Gone' /\ VerifiedGone'
  BY <1>5 DEF Kept, RowsKept, Gone, VerifiedGone
<1>9. QED
  BY <1>6, <1>7, <1>8 DEF Kept

\* The row's lock is free, so the worker that takes it is the only one; what it
\* lists are the active objects.
LEMMA StartKeeps ==
  ASSUME TypeOK, Kept, NEW w \in Workers, Start(w)
  PROVE  Kept'
<1> DEFINE listed == {o \in DOMAIN stored : project /\ stored[o] = "active"}
           record == [workers[w] EXCEPT !.seen = "requested",
                        !.pc = IF project THEN "deleting" ELSE "verifying",
                        !.todo = listed]
<1>1. workers[w] \in Worker /\ project \in BOOLEAN
  BY DEF TypeOK
<1>2. record \in Worker /\ WorkerIs(w, record)
  BY HandlerRecords DEF Start
<1>3. /\ record.pc = (IF project THEN "deleting" ELSE "verifying")
      /\ record.under = workers[w].under /\ record.todo = listed
      /\ record.removed = workers[w].removed
  BY <1>1 DEF Worker
<1>4. /\ workers'[w] = record
      /\ \A v \in Workers : v # w => workers'[v] = workers[v]
  BY <1>2, WorkerBecomes DEF TypeOK
<1>5. /\ project => Objects \subseteq listed
      /\ \A u \in Uploads : u \in listed => uploads[u] = "ended"
  BY DEF Kept, RowsKept, TypeOK
<1> HIDE DEF record, listed
<1>6. UNCHANGED <<row, uploads, held, project, stored, store>>
  BY DEF Start, content
<1>7. UnderHold'
  BY <1>3, <1>4, <1>6 DEF Start, Kept, UnderHold
<1>8. OneDeleter'
  BY <1>4 DEF Start, RowLocked, Kept, OneDeleter
<1>9. Listed'
  BY <1>3, <1>4, <1>5, <1>6 DEF Kept, Listed
<1>10. RowsKept' /\ Gone' /\ VerifiedGone'
  BY <1>6 DEF Kept, RowsKept, Gone, VerifiedGone
<1>11. QED
  BY <1>7, <1>8, <1>9, <1>10 DEF Kept

LEMMA DeleteObjectKeeps ==
  ASSUME TypeOK, Kept, NEW w \in Workers, DeleteObject(w)
  PROVE  Kept'
<1>1. PICK o \in workers[w].todo : Removed(w, o) /\ store' = store \ {o}
  BY DEF DeleteObject
<1> DEFINE record == [workers[w] EXCEPT !.todo = @ \ {o}, !.removed = @ \union {o}]
<1>2. workers[w] \in Worker /\ o \in Objects \union Uploads
  BY <1>1 DEF TypeOK, Worker
<1>3. record \in Worker /\ WorkerIs(w, record)
  BY <1>1, <1>2, HandlerRecords DEF Removed
<1>4. /\ record.pc = workers[w].pc /\ record.under = workers[w].under
      /\ record.todo = workers[w].todo \ {o}
      /\ record.removed = workers[w].removed \union {o}
  BY <1>2 DEF Worker
<1>5. /\ workers'[w] = record
      /\ \A v \in Workers : v # w => workers'[v] = workers[v]
  BY <1>3, WorkerBecomes DEF TypeOK
<1> HIDE DEF record
<1>6. UNCHANGED <<row, uploads, held, project, stored>> /\ workers[w].pc = "deleting"
  BY DEF DeleteObject
<1>7. UnderHold' /\ OneDeleter'
  BY <1>4, <1>5, <1>6 DEF Kept, UnderHold, OneDeleter
<1>8. Listed'
  BY <1>1, <1>4, <1>5, <1>6 DEF Kept, Listed
<1>9. RowsKept' /\ Gone' /\ VerifiedGone'
  BY <1>1, <1>6 DEF Kept, RowsKept, Gone, VerifiedGone
<1>10. QED
  BY <1>7, <1>8, <1>9 DEF Kept

LEMMA DeleteProjectKeeps ==
  ASSUME TypeOK, Kept, NEW w \in Workers, DeleteProject(w)
  PROVE  Kept'
<1> DEFINE record == [workers[w] EXCEPT !.pc = "verifying"]
<1>1. workers[w] \in Worker /\ "verifying" \in Points
  BY DEF TypeOK, Points, LockPoints
<1>2. record \in Worker /\ WorkerIs(w, record)
  BY <1>1, HandlerRecords DEF DeleteProject, WorkerAt
<1>3. /\ record.pc = "verifying" /\ record.under = workers[w].under
      /\ record.todo = workers[w].todo /\ record.removed = workers[w].removed
  BY <1>1 DEF Worker
<1>4. /\ workers'[w] = record
      /\ \A v \in Workers : v # w => workers'[v] = workers[v]
  BY <1>2, WorkerBecomes DEF TypeOK
<1> HIDE DEF record
<1>5. /\ UNCHANGED <<row, uploads, held, project, stored, store>>
      /\ workers[w].pc = "deleting" /\ workers[w].todo = {}
  BY DEF DeleteProject, content
<1>6. UnderHold' /\ OneDeleter'
  BY <1>3, <1>4, <1>5 DEF Kept, UnderHold, OneDeleter, LockPoints
<1>7. Listed'
  BY <1>3, <1>4, <1>5 DEF Kept, Listed
<1>8. RowsKept' /\ Gone' /\ VerifiedGone'
  BY <1>5 DEF Kept, RowsKept, Gone, VerifiedGone
<1>9. QED
  BY <1>6, <1>7, <1>8 DEF Kept

\* All objects of the project were removed, now or with the project.
LEMMA CommitKeeps ==
  ASSUME TypeOK, Kept, NEW w \in Workers, CommitDeletion(w)
  PROVE  Kept'
<1> DEFINE record == [Free EXCEPT !.pc = "returning", !.job = workers[w].job]
<1>1. workers[w] \in Worker /\ "returning" \in Points /\ DOMAIN stored = Objects \union Uploads
  BY DEF TypeOK, Points
<1>2. record \in Worker /\ WorkerIs(w, record)
  BY <1>1, HandlerRecords DEF CommitDeletion
<1>3. record.pc = "returning" /\ record.under = FALSE /\ record.todo = {} /\ record.removed = {}
  BY DEF Free
<1>4. /\ workers'[w] = record
      /\ \A v \in Workers : v # w => workers'[v] = workers[v]
  BY <1>2, WorkerBecomes DEF TypeOK
<1> HIDE DEF record
<1>5. /\ workers[w].pc = "verifying" /\ workers[w].removed \intersect store = {}
      /\ project' = FALSE /\ UNCHANGED <<uploads, held, store>>
      /\ stored' = [o \in Objects \union Uploads |->
                      IF o \in workers[w].removed \/ stored[o] = "deleted"
                        THEN "deleted" ELSE "none"]
  BY <1>1 DEF CommitDeletion
<1>6. store \intersect Objects = {}
  BY <1>1, <1>5 DEF Kept, Listed, Gone, TypeOK
<1>7. \A o \in Objects \union Uploads : stored'[o] = "deleted" => o \notin store
  BY <1>1, <1>5 DEF Kept, VerifiedGone
<1>8. \A u \in Uploads : uploads[u] # "ended" => stored'[u] = "none"
  BY <1>5 DEF Kept, Listed, RowsKept
<1>9. UnderHold'
  BY <1>3, <1>4, <1>5 DEF Kept, UnderHold, LockPoints
<1>10. OneDeleter'
  BY <1>3, <1>4 DEF Kept, OneDeleter, LockPoints
<1>11. Listed'
  <2>1. \A v \in Workers : workers'[v].pc # "deleting"
    BY <1>3, <1>4, <1>5 DEF Kept, OneDeleter, LockPoints
  <2>2. QED
    BY <1>3, <1>4, <1>5, <2>1 DEF Kept, Listed
<1>12. RowsKept' /\ Gone' /\ VerifiedGone'
  BY <1>5, <1>6, <1>7, <1>8 DEF RowsKept, Gone, VerifiedGone
<1>13. QED
  BY <1>9, <1>10, <1>11, <1>12 DEF Kept

\* An upload puts an object that has no tombstone, and gets its row when it ends.
LEMMA UploadKeeps ==
  ASSUME TypeOK, Kept, NEW u \in Uploads, Upload(u) \/ UploadLost(u)
  PROVE  Kept'
<1>1. UNCHANGED <<row, workers, held, project>> /\ uploads[u] # "ended"
  BY DEF Upload, UploadInsert, UploadPut, UploadCommit, UploadLost, content
<1>2. \A t \in Uploads : uploads[t] = "ended" => uploads'[t] = "ended"
  BY DEF Upload, UploadInsert, UploadPut, UploadCommit, UploadLost, TypeOK
<1>3. UnderHold' /\ OneDeleter' /\ Listed'
  BY <1>1, <1>2 DEF Kept, UnderHold, OneDeleter, Listed
<1>4. u \notin Objects /\ stored[u] = "none"
  BY <1>1, ObjectAssumption DEF Kept, RowsKept
<1>5. RowsKept'
  BY <1>1, <1>4 DEF Upload, UploadInsert, UploadPut, UploadCommit, UploadLost, content,
     TypeOK, Kept, RowsKept
<1>6. Gone' /\ VerifiedGone'
  <2>1. store' \intersect Objects = store \intersect Objects /\ DOMAIN stored' = DOMAIN stored
    BY <1>4 DEF Upload, UploadInsert, UploadPut, UploadCommit, UploadLost, content, TypeOK
  <2>2. \A o \in DOMAIN stored : stored'[o] = "deleted" => o \notin store'
    BY <1>4 DEF Upload, UploadInsert, UploadPut, UploadCommit, UploadLost, content, TypeOK,
       Kept, VerifiedGone
  <2>3. QED
    BY <1>1, <2>1, <2>2 DEF Kept, Gone, VerifiedGone
<1>7. QED
  BY <1>3, <1>5, <1>6 DEF Kept

\* A hold that is placed binds nobody who is on his way; a hold that is released
\* no longer binds those who found it.
LEMMA HoldsKeep == ASSUME TypeOK, Kept, PlaceHold \/ ReleaseHold PROVE Kept'
<1>1. CASE PlaceHold
  BY <1>1 DEF PlaceHold, content, Kept, UnderHold, OneDeleter, RowsKept, Listed, Gone,
     VerifiedGone
<1>2. CASE ReleaseHold
  <2>1. \A w \in Workers :
           /\ workers'[w].pc = workers[w].pc /\ workers'[w].under = FALSE
           /\ workers'[w].todo = workers[w].todo /\ workers'[w].removed = workers[w].removed
    BY <1>2 DEF ReleaseHold, TypeOK, Worker
  <2>2. UNCHANGED <<row, uploads, project, stored, store>>
    BY <1>2 DEF ReleaseHold, content
  <2>3. QED
    BY <2>1, <2>2 DEF Kept, UnderHold, OneDeleter, RowsKept, Listed, Gone, VerifiedGone
<1>3. QED
  BY <1>1, <1>2

LEMMA StepKeeps == TypeOK /\ Kept /\ [Next]_vars => Kept'
<1> SUFFICES ASSUME TypeOK, Kept, [Next]_vars PROVE Kept'
  OBVIOUS
<1>1. ASSUME NEW q \in Requests, Ask(q) \/ Proceed(q) \/ EnqueueFails(q) \/ RequestLost(q)
      PROVE  Kept'
  <2>1. UNCHANGED <<workers, uploads, held, content>>
    BY <1>1 DEF Ask, DecideRead, CancelRead, RetryRead, Proceed, DecideCase, DecideWrite,
       Enqueue, Refresh, LinkWrite, CancelWrite, RetryWrite, EnqueueFails, RequestLost
  <2>2. row'.status = "completed" => row.status = "completed"
    BY <1>1, SavesDontComplete DEF Ask, DecideRead, CancelRead, RetryRead, EnqueueFails,
       RequestLost
  <2>3. QED
    BY <2>1, <2>2, OthersKeep
<1>2. ASSUME NEW w \in Workers, Claim(w) \/ Handle(w) \/ HandlerRaises(w) \/ WorkerLost(w)
      PROVE  Kept'
  BY <1>2, OutsideHandlerKeeps, CheckHoldsKeeps, StartKeeps, DeleteObjectKeeps,
     DeleteProjectKeeps, CommitKeeps DEF Handle
<1>3. ASSUME NEW k \in Keys, JobStops(k) \/ JobRetry(k) PROVE Kept'
  BY <1>3, OthersKeep DEF JobStops, JobRetry
<1>4. CASE UNCHANGED vars
  BY <1>4, OthersKeep DEF vars
<1>5. QED
  BY <1>1, <1>2, <1>3, <1>4, UploadKeeps, HoldsKeep DEF Next

\* The inductive invariant of the deletion.
THEOREM DeletionKept == Spec => [](TypeOK /\ Kept)
  BY InitType, InitKept, StepType, StepKeeps, PTL DEF Spec

\* An attempt deletes nothing that is held, and a request that is completed left
\* neither the project nor one of its objects, nor a tombstone that is not true
\* (execute_deletion, _delete_project).
THEOREM DeletionIsSound == Spec => []DeletionSound
<1>1. TypeOK /\ Kept => DeletionSound
  BY DEF Kept, UnderHold, DeletionSound, HoldRespected
<1>2. QED
  BY <1>1, DeletionKept, PTL

-----------------------------------------------------------------------------
(* Review cases: the inductive invariant.                                    *)

Persons == Reviewers \cup {Nobody}
Verdicts == {"none", "approved", "denied"}
CaseRow == [status : {"absent", "open", "assigned", "decided", "appealed"}, assigned : Persons,
            decision : Verdicts, by : Persons]
WishRow == [status : {"absent", "requested", "approved", "denied", "cancelled"},
            kind : {"export", "delete"}, of : Persons,
            decision : Verdicts \cup {"cancelled"}, by : Persons]
Incident == [kind : {"created", "assigned", "decision", "appeal"}, by : Reviewers,
             decision : Verdicts]
Review == [op : {"none", "assign", "decide", "appeal", "find", "review", "cancel"},
           who : Persons, whom : Persons, decision : Verdicts, seen : CaseRow,
           wished : WishRow]

ReviewsTyped ==
    /\ reviewCase \in CaseRow /\ wish \in WishRow /\ recorded \in Seq(Incident)
    /\ reviews \in [Reviews -> Review] /\ crossing \in BOOLEAN

\* A case is there before its request and before any call on either; nobody has
\* decided a request that waits.
CasesThere ==
    /\ reviewCase.status = "absent" => wish.status = "absent"
    /\ \A v \in Reviews : reviews[v].op # "none" => reviewCase.status # "absent"
    /\ wish.status = "requested" => wish.by = Nobody

\* A call acts for somebody, and decides if it is a decision.
CallsMade ==
    \A v \in Reviews :
        LET call == reviews[v] IN
        /\ call.op # "none" => call.who \in Reviewers
        /\ call.op \in {"assign", "appeal"} => call.decision = "none"
        /\ call.op \in {"find", "review"} => call.decision \in {"approved", "denied"}

\* A decision on a request was let in for the request that is there, in its time.
WishesFound ==
    \A v \in Reviews :
        LET call == reviews[v] IN
        call.op \in {"find", "review"} =>
            /\ wish.status # "absent"
            /\ call.wished.kind = wish.kind /\ call.wished.of = wish.of
            /\ call.wished.status = "requested" /\ call.wished.by = Nobody
            /\ wish.kind = "delete" => call.who # wish.of

\* A withdrawal found the request there, and not withdrawn.
WithdrawalsFound ==
    \A v \in Reviews : reviews[v].op = "cancel" =>
        /\ wish.status # "absent"
        /\ reviews[v].wished.status \in {"requested", "approved"}

ReviewsHeld ==
    ReviewsTyped /\ CasesThere /\ CallsMade /\ WishesFound /\ WithdrawalsFound
    /\ EventsTell /\ DecidedBySomeone

LEMMA NothingYet ==
  /\ NoCase \in CaseRow /\ NoCase.status = "absent" /\ NoCase.by = Nobody
  /\ OpenCase \in CaseRow /\ OpenCase.status = "open" /\ OpenCase.by = Nobody
  /\ OpenCase.decision = "none"
  /\ NoWish \in WishRow /\ NoWish.status = "absent"
  /\ NoReview \in Review /\ NoReview.op = "none"
<1>1. NoCase \in CaseRow /\ NoCase.status = "absent" /\ NoCase.by = Nobody
      /\ NoCase.decision = "none"
  BY DEF NoCase, CaseRow, Persons, Verdicts
<1>2. NoWish \in WishRow /\ NoWish.status = "absent"
  BY DEF NoWish, WishRow, Persons, Verdicts
<1>3. OpenCase \in CaseRow /\ OpenCase.status = "open" /\ OpenCase.by = Nobody
      /\ OpenCase.decision = "none"
  BY <1>1 DEF OpenCase, CaseRow
<1>4. NoReview \in Review /\ NoReview.op = "none"
  BY <1>1, <1>2 DEF NoReview, Review, Persons, Verdicts
<1> QED BY <1>1, <1>2, <1>3, <1>4

LEMMA ReviewsStart == ASSUME InitReviews PROVE ReviewsHeld
<1> USE DEF InitReviews
<1>1. \A v \in Reviews : reviews[v].op = "none"
  BY NothingYet
<1>2. <<>> \in Seq(Incident)
  OBVIOUS
<1>3. ReviewsTyped
  BY <1>2, NothingYet DEF ReviewsTyped
<1>4. CasesThere /\ CallsMade /\ WishesFound /\ WithdrawalsFound
  BY <1>1, NothingYet DEF CasesThere, CallsMade, WishesFound, WithdrawalsFound
<1>5. EventsTell /\ DecidedBySomeone
  BY NothingYet DEF EventsTell, DecidedBySomeone
<1> QED BY <1>3, <1>4, <1>5 DEF ReviewsHeld

\* What a commit leaves in the columns of a case, and of a request.
LEMMA OverlaidCase ==
  ASSUME NEW current \in CaseRow, NEW loaded \in CaseRow, NEW new \in CaseRow
  PROVE  LET written == Overlaid(current, loaded, new) IN
         /\ written \in CaseRow
         /\ written.status = IF new.status # loaded.status THEN new.status ELSE current.status
         /\ written.by = IF new.by # loaded.by THEN new.by ELSE current.by
         /\ written.decision = IF new.decision # loaded.decision THEN new.decision
                               ELSE current.decision
  BY DEF Overlaid, CaseRow

LEMMA OverlaidWish ==
  ASSUME NEW current \in WishRow, NEW loaded \in WishRow, NEW new \in WishRow
  PROVE  LET written == Overlaid(current, loaded, new) IN
         /\ written \in WishRow
         /\ written.status = IF new.status # loaded.status THEN new.status ELSE current.status
         /\ written.by = IF new.by # loaded.by THEN new.by ELSE current.by
         /\ written.kind = IF new.kind # loaded.kind THEN new.kind ELSE current.kind
         /\ written.of = IF new.of # loaded.of THEN new.of ELSE current.of
  BY DEF Overlaid, WishRow

-----------------------------------------------------------------------------
(* Every step keeps it.                                                      *)

\* A case that is opened has one event.
LEMMA OpeningKeeps ==
  ASSUME ReviewsHeld, NEW who \in Reviewers,
         OpenReview(who) \/ \E kind \in {"export", "delete"} : AskFor(who, kind)
  PROVE  ReviewsHeld'
<1> USE DEF ReviewsHeld
<1> DEFINE first == Happened("created", who, "none")
<1>1. /\ reviewCase = NoCase /\ reviewCase' = OpenCase /\ recorded' = <<first>>
      /\ UNCHANGED <<reviews, crossing>>
  BY DEF OpenReview, AskFor
<1>2. first \in Incident /\ first.kind = "created" /\ first.decision = "none"
  BY DEF Happened, Incident, Verdicts
<1> HIDE DEF first
<1>3. /\ recorded' \in Seq(Incident) /\ Len(recorded') = 1 /\ recorded'[1] = first
      /\ DOMAIN recorded' = 1..1 /\ recorded' # <<>>
  BY <1>1, <1>2
<1>4. wish.status = "absent" /\ \A v \in Reviews : reviews[v].op = "none"
  BY <1>1, NothingYet DEF CasesThere
<1>5. wish' \in WishRow /\ wish'.status \in {"absent", "requested"}
      /\ (wish'.status = "requested" => wish'.by = Nobody)
  <2>1. CASE OpenReview(who)
    BY <1>4, <2>1 DEF OpenReview, ReviewsTyped
  <2>2. ASSUME NEW kind \in {"export", "delete"}, AskFor(who, kind)
        PROVE  wish' \in WishRow /\ wish'.status = "requested" /\ wish'.by = Nobody
    <3>1. NoWish \in WishRow /\ NoWish.by = Nobody
      BY NothingYet DEF NoWish
    <3> QED BY <2>2, <3>1 DEF AskFor, WishRow, Persons
  <2> QED BY <2>1, <2>2
<1>6. ReviewsTyped'
  BY <1>1, <1>3, <1>5, NothingYet DEF ReviewsTyped
<1>7. CasesThere' /\ CallsMade' /\ WishesFound' /\ WithdrawalsFound'
  BY <1>1, <1>4, <1>5, NothingYet DEF CasesThere, CallsMade, WishesFound, WithdrawalsFound
<1>8. EventsTell'
  <2>1. Standing(1)'
    BY <1>2, <1>3 DEF Standing
  <2>2. StatusAfter[recorded'[Len(recorded')].kind] = "open"
    BY <1>2, <1>3 DEF StatusAfter
  <2>3. 1 \in DOMAIN recorded' /\ recorded'[1].decision = "none" /\ recorded'[1].kind # "decision"
    BY <1>2, <1>3
  <2> QED BY <1>1, <1>3, <2>1, <2>2, <2>3, NothingYet DEF EventsTell
<1>9. DecidedBySomeone'
  BY <1>1, <1>5, NothingYet DEF DecidedBySomeone
<1> QED BY <1>6, <1>7, <1>8, <1>9

\* A call that only loads, or gives up.
LEMMA LoadsKeep ==
  ASSUME ReviewsHeld, NEW v \in Reviews, NEW call \in Review,
         reviews' = [reviews EXCEPT ![v] = call],
         UNCHANGED <<reviewCase, recorded, wish, crossing>>,
         call.op # "none" => reviewCase.status # "absent" /\ call.who \in Reviewers,
         call.op \in {"assign", "appeal"} => call.decision = "none",
         call.op \in {"find", "review"} =>
            /\ call.decision \in {"approved", "denied"}
            /\ wish.status # "absent"
            /\ call.wished.kind = wish.kind /\ call.wished.of = wish.of
            /\ call.wished.status = "requested" /\ call.wished.by = Nobody
            /\ wish.kind = "delete" => call.who # wish.of,
         call.op = "cancel" =>
            wish.status # "absent" /\ call.wished.status \in {"requested", "approved"}
  PROVE  ReviewsHeld'
<1> USE DEF ReviewsHeld
<1>1. ReviewsTyped'
  BY DEF ReviewsTyped
<1>2. reviews'[v] = call /\ \A w \in Reviews \ {v} : reviews'[w] = reviews[w]
  BY DEF ReviewsTyped
<1>3. CasesThere'
  BY <1>2 DEF CasesThere
<1>4. CallsMade'
  BY <1>2 DEF CallsMade
<1>5. WishesFound'
  BY <1>2 DEF WishesFound
<1>6. WithdrawalsFound'
  BY <1>2 DEF WithdrawalsFound
<1>7. EventsTell' /\ DecidedBySomeone'
  BY DEF EventsTell, Standing, DecidedBySomeone
<1> QED BY <1>1, <1>3, <1>4, <1>5, <1>6, <1>7

LEMMA LoadReviewKeeps ==
  ASSUME ReviewsHeld, NEW v \in Reviews, NEW op \in {"assign", "decide", "appeal"},
         NEW who \in Reviewers, NEW whom \in Persons, NEW decision \in Verdicts,
         op \in {"assign", "appeal"} => decision = "none",
         LoadReview(v, op, who, whom, decision)
  PROVE  ReviewsHeld'
<1> DEFINE call == [NoReview EXCEPT !.op = op, !.who = who, !.whom = whom,
                                    !.decision = decision, !.seen = reviewCase]
<1>1. /\ reviews' = [reviews EXCEPT ![v] = call] /\ reviewCase.status # "absent"
      /\ UNCHANGED <<reviewCase, recorded, wish, crossing>>
  BY DEF LoadReview, Assignable, Reviewing, Appealable
<1>2. call \in Review /\ call.op = op /\ call.who = who /\ call.decision = decision
  BY NothingYet DEF Review, Persons, ReviewsHeld, ReviewsTyped
<1> HIDE DEF call
<1> QED BY <1>1, <1>2, LoadsKeep

LEMMA LoadWishKeeps ==
  ASSUME ReviewsHeld, NEW v \in Reviews, NEW who \in Reviewers,
         NEW decision \in {"approved", "denied"}, LoadWish(v, who, decision)
  PROVE  ReviewsHeld'
<1> DEFINE call == [NoReview EXCEPT !.op = "find", !.who = who, !.decision = decision,
                                    !.wished = wish]
<1>1. /\ reviews' = [reviews EXCEPT ![v] = call] /\ wish.status = "requested"
      /\ wish.kind = "delete" => who # wish.of
      /\ UNCHANGED <<reviewCase, recorded, wish, crossing>>
  BY DEF LoadWish, Reviewable
<1>2. call \in Review /\ call.op = "find" /\ call.who = who /\ call.decision = decision
      /\ call.wished = wish
  BY NothingYet DEF Review, Persons, Verdicts, ReviewsHeld, ReviewsTyped
<1>3. reviewCase.status # "absent" /\ wish.by = Nobody
  BY <1>1 DEF ReviewsHeld, CasesThere
<1> HIDE DEF call
<1> QED BY <1>1, <1>2, <1>3, LoadsKeep

LEMMA LoadWithdrawalKeeps ==
  ASSUME ReviewsHeld, NEW v \in Reviews, NEW who \in Reviewers, LoadWithdrawal(v, who)
  PROVE  ReviewsHeld'
<1> DEFINE call == [NoReview EXCEPT !.op = "cancel", !.who = who, !.wished = wish]
<1>1. /\ reviews' = [reviews EXCEPT ![v] = call] /\ wish.status \in {"requested", "approved"}
      /\ UNCHANGED <<reviewCase, recorded, wish, crossing>>
  BY DEF LoadWithdrawal
<1>2. call \in Review /\ call.op = "cancel" /\ call.who = who /\ call.wished = wish
  BY NothingYet DEF Review, Persons, ReviewsHeld, ReviewsTyped
<1>3. reviewCase.status # "absent"
  BY <1>1 DEF ReviewsHeld, CasesThere
<1> HIDE DEF call
<1> QED BY <1>1, <1>2, <1>3, LoadsKeep

LEMMA FindCaseKeeps ==
  ASSUME ReviewsHeld, NEW v \in Reviews, FindCase(v)
  PROVE  ReviewsHeld'
<1>1. reviews[v] \in Review /\ reviews[v].op = "find" /\ reviewCase \in CaseRow
      /\ UNCHANGED <<reviewCase, recorded, wish, crossing>>
  BY DEF FindCase, ReviewsHeld, ReviewsTyped
<1>2. CASE reviewCase.status \in Reviewing
  <2> DEFINE call == [reviews[v] EXCEPT !.op = "review", !.seen = reviewCase]
  <2>1. reviews' = [reviews EXCEPT ![v] = call]
    BY <1>2 DEF FindCase
  <2>2. /\ call \in Review /\ call.op = "review" /\ call.who = reviews[v].who
        /\ call.decision = reviews[v].decision /\ call.wished = reviews[v].wished
    BY <1>1 DEF Review
  <2> HIDE DEF call
  <2>3. /\ reviews[v].decision \in {"approved", "denied"} /\ reviews[v].who \in Reviewers
        /\ reviewCase.status # "absent"
    BY <1>1 DEF ReviewsHeld, CallsMade, CasesThere
  <2>4. /\ wish.status # "absent"
        /\ reviews[v].wished.kind = wish.kind /\ reviews[v].wished.of = wish.of
        /\ reviews[v].wished.status = "requested" /\ reviews[v].wished.by = Nobody
        /\ wish.kind = "delete" => reviews[v].who # wish.of
    BY <1>1 DEF ReviewsHeld, WishesFound
  <2> QED BY <1>1, <2>1, <2>2, <2>3, <2>4, LoadsKeep
<1>3. CASE reviewCase.status \notin Reviewing
  <2>1. reviews' = [reviews EXCEPT ![v] = NoReview]
    BY <1>3 DEF FindCase
  <2> QED BY <1>1, <2>1, NothingYet, LoadsKeep
<1> QED BY <1>2, <1>3

\* What a commit of a case leaves: the columns it changed, and one more event.
LEMMA CommitsWrite ==
  ASSUME ReviewsHeld, NEW v \in Reviews, NEW new \in CaseRow, NEW call \in Review,
         call = reviews[v], call.op # "none",
         NEW kind \in {"assigned", "decision", "appeal"},
         Commits(v, new, kind), new.status = StatusAfter[kind],
         kind \in {"assigned", "appeal"} => call.decision = "none",
         kind = "assigned" => new.decision = call.seen.decision /\ new.by = call.seen.by,
         kind = "decision" => new.decision = call.decision /\ new.by = call.who,
         kind = "appeal" => new.decision = "none" /\ new.by = Nobody
  PROVE  /\ reviewCase' \in CaseRow /\ reviewCase'.status # "absent"
         /\ reviews' \in [Reviews -> Review] /\ reviews'[v] = NoReview
         /\ \A w \in Reviews \ {v} : reviews'[w] = reviews[w]
         /\ recorded' \in Seq(Incident) /\ crossing' \in BOOLEAN
         /\ \A i \in DOMAIN recorded : i \in DOMAIN recorded' /\ recorded'[i] = recorded[i]
         /\ \E i \in DOMAIN recorded' : recorded'[i] = Happened(kind, call.who, call.decision)
         /\ EventsTell'
         /\ reviewCase'.by # Nobody =>
              \E i \in DOMAIN recorded' :
                 recorded'[i].kind = "decision" /\ recorded'[i].by = reviewCase'.by
<1> DEFINE event == Happened(kind, call.who, call.decision)
<1>0. /\ reviewCase \in CaseRow /\ call.seen \in CaseRow /\ call.who \in Reviewers
      /\ recorded \in Seq(Incident) /\ reviewCase.status # "absent" /\ crossing \in BOOLEAN
      /\ reviews \in [Reviews -> Review]
  BY DEF ReviewsHeld, ReviewsTyped, Review, CallsMade, CasesThere
<1>1. /\ reviewCase' = Overlaid(reviewCase, call.seen, new)
      /\ recorded' = Append(recorded, event)
      /\ crossing' = (crossing \/ call.seen # reviewCase)
      /\ reviews' = [reviews EXCEPT ![v] = NoReview]
  BY DEF Commits
<1>2. event \in Incident /\ event.kind = kind /\ event.by = call.who
      /\ event.decision = call.decision
  BY <1>0 DEF Happened, Incident, Review
<1>3. /\ reviewCase' \in CaseRow
      /\ reviewCase'.status = IF new.status # call.seen.status THEN new.status
                              ELSE reviewCase.status
      /\ reviewCase'.by = IF new.by # call.seen.by THEN new.by ELSE reviewCase.by
      /\ reviewCase'.decision = IF new.decision # call.seen.decision THEN new.decision
                                ELSE reviewCase.decision
  BY <1>0, <1>1, OverlaidCase
<1> HIDE DEF event
<1> PICK last \in Nat : last = Len(recorded) + 1
  BY <1>0
<1>4. /\ recorded' \in Seq(Incident) /\ Len(recorded') = last /\ recorded'[last] = event
      /\ \A i \in DOMAIN recorded : i \in DOMAIN recorded' /\ recorded'[i] = recorded[i]
      /\ last \in DOMAIN recorded' /\ recorded' # <<>> /\ last \in Nat
  BY <1>0, <1>1, <1>2, AppendProperties
<1>5. StatusAfter[kind] \in {"assigned", "decided", "appealed"}
  BY DEF StatusAfter
<1>6. reviewCase'.status # "absent"
  BY <1>0, <1>3, <1>5
<1>7. EventsTell'
  <2> SUFFICES ASSUME ~crossing' PROVE
        /\ reviewCase'.status = StatusAfter[recorded'[Len(recorded')].kind]
        /\ \E i \in DOMAIN recorded' :
             /\ Standing(i)' /\ reviewCase'.decision = recorded'[i].decision
             /\ reviewCase'.by = IF recorded'[i].kind = "decision" THEN recorded'[i].by
                                 ELSE Nobody
    BY <1>4 DEF EventsTell
  <2>1. ~crossing /\ call.seen = reviewCase
    BY <1>0, <1>1
  <2>2. reviewCase'.status = new.status /\ reviewCase'.by = new.by
        /\ reviewCase'.decision = new.decision
    BY <1>3, <2>1
  <2>3. reviewCase'.status = StatusAfter[recorded'[Len(recorded')].kind]
    BY <1>2, <1>4, <2>2
  <2>4. CASE kind # "assigned"
    <3>1. Standing(last)'
      BY <1>2, <1>4, <2>4 DEF Standing
    <3>2. /\ reviewCase'.decision = event.decision
          /\ reviewCase'.by = IF event.kind = "decision" THEN event.by ELSE Nobody
      BY <1>2, <2>2, <2>4
    <3> QED BY <1>4, <2>3, <3>1, <3>2
  <2>5. CASE kind = "assigned"
    <3>1. recorded # <<>>
      <4>1. reviewCase # NoCase
        BY <1>0, NothingYet
      <4> QED BY <2>1, <4>1 DEF ReviewsHeld, EventsTell
    <3>2. PICK i \in DOMAIN recorded :
            /\ Standing(i) /\ reviewCase.decision = recorded[i].decision
            /\ reviewCase.by = IF recorded[i].kind = "decision" THEN recorded[i].by ELSE Nobody
      BY <2>1, <3>1 DEF ReviewsHeld, EventsTell
    <3>3. i \in DOMAIN recorded' /\ recorded'[i] = recorded[i] /\ i \in 1..Len(recorded)
      BY <1>0, <1>4, <3>2
    <3>4. Standing(i)'
      <4>1. ASSUME NEW j \in (i + 1)..last PROVE recorded'[j].kind = "assigned"
        <5>1. CASE j = last
          BY <1>2, <1>4, <2>5, <5>1
        <5>2. CASE j # last
          <6>1. j \in (i + 1)..Len(recorded) /\ j \in DOMAIN recorded
            BY <1>0, <1>4, <3>3, <5>2
          <6> QED BY <1>4, <3>2, <6>1 DEF Standing
        <5> QED BY <5>1, <5>2
      <4> QED BY <1>4, <3>2, <3>3, <4>1 DEF Standing
    <3>5. reviewCase'.decision = recorded'[i].decision
          /\ reviewCase'.by = IF recorded'[i].kind = "decision" THEN recorded'[i].by ELSE Nobody
      BY <2>1, <2>2, <2>5, <3>2, <3>3
    <3> QED BY <2>3, <3>3, <3>4, <3>5
  <2> QED BY <2>4, <2>5
<1>8. ASSUME reviewCase'.by # Nobody
      PROVE  \E i \in DOMAIN recorded' :
                recorded'[i].kind = "decision" /\ recorded'[i].by = reviewCase'.by
  <2>1. CASE kind = "decision" /\ new.by # call.seen.by
    <3>1. recorded'[last].kind = "decision" /\ recorded'[last].by = reviewCase'.by
      BY <1>2, <1>3, <1>4, <2>1
    <3> QED BY <1>4, <3>1
  <2>2. CASE ~(kind = "decision" /\ new.by # call.seen.by)
    <3>1. reviewCase'.by = reviewCase.by
      BY <1>3, <1>8, <2>2
    <3>2. PICK i \in DOMAIN recorded :
            recorded[i].kind = "decision" /\ recorded[i].by = reviewCase.by
      BY <1>8, <3>1 DEF ReviewsHeld, DecidedBySomeone
    <3> QED BY <1>4, <3>1, <3>2
  <2> QED BY <2>1, <2>2
<1>9. /\ reviews' \in [Reviews -> Review] /\ reviews'[v] = NoReview
      /\ \A w \in Reviews \ {v} : reviews'[w] = reviews[w]
  BY <1>0, <1>1, NothingYet
<1>10. crossing' \in BOOLEAN
  BY <1>0, <1>1
<1>11. \E i \in DOMAIN recorded' : recorded'[i] = Happened(kind, call.who, call.decision)
  BY <1>4 DEF event
<1> QED BY <1>3, <1>4, <1>6, <1>7, <1>8, <1>9, <1>10, <1>11

LEMMA StatusesAfter ==
  /\ StatusAfter["assigned"] = "assigned" /\ StatusAfter["decision"] = "decided"
  /\ StatusAfter["appeal"] = "appealed"
  BY DEF StatusAfter

\* A committed decision, of the case or of its request.
LEMMA DecisionWritten ==
  ASSUME ReviewsHeld, NEW call \in Review, call.op # "none"
  PROVE  LET new == Decided(call.seen, call) IN
         call.who \in Persons =>
           /\ new \in CaseRow /\ new.status = "decided"
           /\ new.decision = call.decision /\ new.by = call.who
  BY DEF Decided, Review, CaseRow

LEMMA CommitReviewKeeps ==
  ASSUME ReviewsHeld, NEW v \in Reviews, CommitReview(v)
  PROVE  ReviewsHeld'
<1> PICK call \in Review : call = reviews[v]
  BY DEF ReviewsHeld, ReviewsTyped
<1>1. call.op \in {"assign", "decide", "appeal"} /\ UNCHANGED wish
  BY DEF CommitReview
<1>2. /\ call.who \in Reviewers /\ call.seen \in CaseRow /\ call.whom \in Persons
      /\ call.op \in {"assign", "appeal"} => call.decision = "none"
  BY <1>1 DEF ReviewsHeld, CallsMade, Review
<1>3. PICK kind \in {"assigned", "decision", "appeal"}, new \in CaseRow :
        /\ Commits(v, new, kind) /\ new.status = StatusAfter[kind]
        /\ kind \in {"assigned", "appeal"} => call.decision = "none"
        /\ kind = "assigned" => new.decision = call.seen.decision /\ new.by = call.seen.by
        /\ kind = "decision" => new.decision = call.decision /\ new.by = call.who
        /\ kind = "appeal" => new.decision = "none" /\ new.by = Nobody
  <2>1. CASE call.op = "assign"
    <3> DEFINE new == Assigned(call.seen, call)
    <3>1. new \in CaseRow /\ new.status = "assigned" /\ new.decision = call.seen.decision
          /\ new.by = call.seen.by
      BY <1>2 DEF Assigned, CaseRow
    <3>2. Commits(v, new, "assigned")
      BY <2>1 DEF CommitReview
    <3> HIDE DEF new
    <3> QED BY <1>2, <2>1, <3>1, <3>2, StatusesAfter
  <2>2. CASE call.op = "decide"
    <3> DEFINE new == Decided(call.seen, call)
    <3>1. new \in CaseRow /\ new.status = "decided" /\ new.decision = call.decision
          /\ new.by = call.who
      BY <1>2, <2>2, DecisionWritten DEF Persons
    <3>2. Commits(v, new, "decision")
      BY <2>2 DEF CommitReview
    <3> HIDE DEF new
    <3> QED BY <3>1, <3>2, StatusesAfter
  <2>3. CASE call.op = "appeal"
    <3> DEFINE new == Appealed(call.seen, call)
    <3>1. new \in CaseRow /\ new.status = "appealed" /\ new.decision = "none" /\ new.by = Nobody
      BY <1>2 DEF Appealed, CaseRow, Persons, Verdicts
    <3>2. Commits(v, new, "appeal")
      BY <2>3 DEF CommitReview
    <3> HIDE DEF new
    <3> QED BY <1>2, <2>3, <3>1, <3>2, StatusesAfter
  <2> QED BY <1>1, <2>1, <2>2, <2>3
<1>4. /\ reviewCase' \in CaseRow /\ reviewCase'.status # "absent"
      /\ reviews' \in [Reviews -> Review] /\ reviews'[v] = NoReview
      /\ \A w \in Reviews \ {v} : reviews'[w] = reviews[w]
      /\ recorded' \in Seq(Incident) /\ crossing' \in BOOLEAN /\ EventsTell'
      /\ \A i \in DOMAIN recorded : i \in DOMAIN recorded' /\ recorded'[i] = recorded[i]
      /\ reviewCase'.by # Nobody =>
           \E i \in DOMAIN recorded' :
              recorded'[i].kind = "decision" /\ recorded'[i].by = reviewCase'.by
  BY <1>1, <1>3, CommitsWrite
<1>5. ReviewsTyped' /\ CasesThere' /\ CallsMade' /\ WishesFound' /\ WithdrawalsFound'
  BY <1>1, <1>4, NothingYet
     DEF ReviewsHeld, ReviewsTyped, CasesThere, CallsMade, WishesFound, WithdrawalsFound
<1>6. DecidedBySomeone'
  BY <1>1, <1>4 DEF ReviewsHeld, DecidedBySomeone
<1> QED BY <1>4, <1>5, <1>6 DEF ReviewsHeld

LEMMA CommitWishKeeps ==
  ASSUME ReviewsHeld, NEW v \in Reviews, CommitWish(v), ReviewAssumption
  PROVE  ReviewsHeld'
<1> PICK call \in Review : call = reviews[v]
  BY DEF ReviewsHeld, ReviewsTyped
<1> DEFINE new == [call.wished EXCEPT !.by = call.who, !.decision = call.decision,
                                      !.status = call.decision]
<1>1. /\ call.op = "review" /\ Commits(v, Decided(call.seen, call), "decision")
      /\ wish' = Overlaid(wish, call.wished, new)
  BY DEF CommitWish
<1>2. /\ call.who \in Reviewers /\ call.who # Nobody /\ call.wished \in WishRow
      /\ wish \in WishRow /\ call.decision \in {"approved", "denied"}
  BY <1>1 DEF ReviewsHeld, ReviewsTyped, CallsMade, Review, ReviewAssumption
<1>3. /\ call.wished.kind = wish.kind /\ call.wished.of = wish.of
      /\ call.wished.status = "requested" /\ call.wished.by = Nobody
      /\ wish.kind = "delete" => call.who # wish.of
  BY <1>1 DEF ReviewsHeld, WishesFound
<1>a. /\ new.by = call.who /\ new.status = call.decision /\ new.decision = call.decision
      /\ new.kind = wish.kind /\ new.of = wish.of
  BY <1>2, <1>3 DEF WishRow
<1>b. new \in WishRow
  <2>1. call.who \in Persons /\ call.decision \in Verdicts \cup {"cancelled"}
        /\ call.decision \in {"absent", "requested", "approved", "denied", "cancelled"}
    BY <1>2 DEF Persons, Verdicts
  <2> QED BY <1>2, <2>1 DEF WishRow
<1>4. /\ new \in WishRow /\ new.by = call.who /\ new.status = call.decision
      /\ new.kind = wish.kind /\ new.of = wish.of
  BY <1>a, <1>b
<1> HIDE DEF new
<1>5. /\ wish' \in WishRow /\ wish'.status = call.decision /\ wish'.by = call.who
      /\ wish'.kind = wish.kind /\ wish'.of = wish.of
  BY <1>1, <1>2, <1>3, <1>4, OverlaidWish
<1>6. /\ Decided(call.seen, call) \in CaseRow
      /\ Decided(call.seen, call).status = StatusAfter["decision"]
      /\ Decided(call.seen, call).decision = call.decision
      /\ Decided(call.seen, call).by = call.who
  BY <1>1, <1>2, DecisionWritten, StatusesAfter DEF Persons
<1>7. /\ reviewCase' \in CaseRow /\ reviewCase'.status # "absent"
      /\ reviews' \in [Reviews -> Review] /\ reviews'[v] = NoReview
      /\ \A w \in Reviews \ {v} : reviews'[w] = reviews[w]
      /\ recorded' \in Seq(Incident) /\ crossing' \in BOOLEAN /\ EventsTell'
      /\ \E i \in DOMAIN recorded' : recorded'[i] = Happened("decision", call.who, call.decision)
      /\ reviewCase'.by # Nobody =>
           \E i \in DOMAIN recorded' :
              recorded'[i].kind = "decision" /\ recorded'[i].by = reviewCase'.by
  <2> DEFINE decided == Decided(call.seen, call)
  <2>1. /\ decided \in CaseRow /\ decided.status = StatusAfter["decision"]
        /\ decided.decision = call.decision /\ decided.by = call.who
        /\ Commits(v, decided, "decision")
    BY <1>1, <1>6
  <2> HIDE DEF decided
  <2> QED BY <1>1, <2>1, CommitsWrite
<1>8. ReviewsTyped' /\ CasesThere' /\ CallsMade'
  BY <1>2, <1>5, <1>7, NothingYet DEF ReviewsHeld, ReviewsTyped, CasesThere, CallsMade
<1>9. WishesFound' /\ WithdrawalsFound'
  BY <1>2, <1>5, <1>7, NothingYet DEF ReviewsHeld, WishesFound, WithdrawalsFound
<1>10. DecidedBySomeone'
  BY <1>3, <1>5, <1>7 DEF DecidedBySomeone
<1> QED BY <1>7, <1>8, <1>9, <1>10 DEF ReviewsHeld

LEMMA CommitWithdrawalKeeps ==
  ASSUME ReviewsHeld, NEW v \in Reviews, CommitWithdrawal(v)
  PROVE  ReviewsHeld'
<1> PICK call \in Review : call = reviews[v]
  BY DEF ReviewsHeld, ReviewsTyped
<1> DEFINE new == [call.wished EXCEPT !.status = "cancelled", !.decision = "cancelled"]
<1>1. /\ call.op = "cancel" /\ wish' = Overlaid(wish, call.wished, new)
      /\ reviews' = [reviews EXCEPT ![v] = NoReview]
      /\ UNCHANGED <<reviewCase, recorded, crossing>>
  BY DEF CommitWithdrawal
<1>2. /\ call.wished \in WishRow /\ wish \in WishRow
      /\ call.wished.status \in {"requested", "approved"}
  BY <1>1 DEF ReviewsHeld, ReviewsTyped, Review, WithdrawalsFound
<1>3. /\ new \in WishRow /\ new.status = "cancelled" /\ new.by = call.wished.by
      /\ new.kind = call.wished.kind /\ new.of = call.wished.of
  BY <1>2 DEF WishRow
<1> HIDE DEF new
<1>4. /\ wish' \in WishRow /\ wish'.status = "cancelled"
      /\ wish'.kind = wish.kind /\ wish'.of = wish.of
  BY <1>1, <1>2, <1>3, OverlaidWish
<1>5. /\ reviews' \in [Reviews -> Review] /\ reviews'[v] = NoReview
      /\ \A w \in Reviews \ {v} : reviews'[w] = reviews[w]
  BY <1>1, NothingYet DEF ReviewsHeld, ReviewsTyped
<1>6. ReviewsTyped' /\ CallsMade'
  BY <1>1, <1>4, <1>5, NothingYet DEF ReviewsHeld, ReviewsTyped, CallsMade
<1>7. CasesThere' /\ WishesFound' /\ WithdrawalsFound'
  <2>1. reviewCase.status # "absent"
    BY <1>1 DEF ReviewsHeld, CasesThere
  <2> QED BY <1>1, <1>4, <1>5, <2>1, NothingYet
             DEF ReviewsHeld, CasesThere, WishesFound, WithdrawalsFound
<1>8. EventsTell' /\ DecidedBySomeone'
  BY <1>1, <1>4 DEF ReviewsHeld, EventsTell, Standing, DecidedBySomeone
<1> QED BY <1>6, <1>7, <1>8 DEF ReviewsHeld

\* The invariant: what a call on a case or on its request loaded, that its commit
\* relies on (services/data_lifecycle.py:286-426 and 771-824).
THEOREM ReviewsInvariant == ReviewsSpec => []ReviewsHeld
<1> USE ReviewAssumption
<1>1. ReviewsHeld /\ [NextReviews]_reviewVars => ReviewsHeld'
  <2> SUFFICES ASSUME ReviewsHeld, [NextReviews]_reviewVars PROVE ReviewsHeld'
    OBVIOUS
  <2>1. CASE UNCHANGED reviewVars
    BY <2>1 DEF reviewVars, ReviewsHeld, ReviewsTyped, CasesThere, CallsMade, WishesFound,
                WithdrawalsFound, EventsTell, Standing, DecidedBySomeone
  <2>2. ASSUME NEW v \in Reviews, NEW who \in Reviewers, NEW whom \in Reviewers,
               LoadReview(v, "assign", who, whom, "none")
        PROVE  ReviewsHeld'
    BY <2>2, LoadReviewKeeps DEF Persons, Verdicts
  <2>3. ASSUME NEW v \in Reviews, NEW who \in Reviewers, NEW decision \in {"approved", "denied"},
               LoadReview(v, "decide", who, Nobody, decision)
        PROVE  ReviewsHeld'
    BY <2>3, LoadReviewKeeps DEF Persons, Verdicts
  <2>4. ASSUME NEW v \in Reviews, NEW who \in Reviewers,
               LoadReview(v, "appeal", who, Nobody, "none")
        PROVE  ReviewsHeld'
    BY <2>4, LoadReviewKeeps DEF Persons, Verdicts
  <2>5. CASE NextReviews
    BY <2>2, <2>3, <2>4, <2>5, OpeningKeeps, LoadWishKeeps, LoadWithdrawalKeeps, FindCaseKeeps,
       CommitReviewKeeps, CommitWishKeeps, CommitWithdrawalKeeps DEF NextReviews
  <2> QED BY <2>1, <2>5
<1> QED BY <1>1, ReviewsStart, PTL DEF ReviewsSpec

\* The events of a case tell what it is until a call writes on an older row; and
\* however calls interleave, decisions are somebody's and approvals of deletions
\* somebody else's (services/data_lifecycle.py:286-426 and 771-824).
THEOREM ReviewsAreSound == ReviewsSpec => []ReviewsSound
<1>1. ReviewsHeld => ReviewsSound
  BY DEF ReviewsHeld, ReviewsSound
<1> QED BY <1>1, ReviewsInvariant, PTL
=============================================================================
