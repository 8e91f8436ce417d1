# AI Examiner: a verification of its concurrent parts

AI Examiner prepares and conducts oral examinations: a FastAPI process serves
authors, learners and administrators, Celery workers run the long work
(blueprints, datasets, exports, deletions), PostgreSQL holds every
authoritative row, Redis carries the messages and the rate limits, and model
providers are called through an admission layer. This directory models the
parts whose correctness depends on the order in which those processes act.

Paths below are relative to `src/src/ai_examiner/`, documents to `src/docs/`.

## 1. Inventory

| Component | State it keeps | Operations | What makes it hard | What makes it correct | Module |
|---|---|---|---|---|---|
| Job delivery (`services/job_control.py`, `services/jobs.py`, `jobs.py`) | `background_jobs` rows, Celery messages, heartbeat threads | dispatch, claim, heartbeat, checkpoint, complete, fail, retry, cancel, reset, recover | at-least-once messages, lost workers, load-then-commit sessions without row locks, leases that expire | one attempt at a time stores a result, a bounded number of attempts, cancellation is final, every job ends | `JobDelivery` |
| Job enqueueing (`services/jobs.py`) | unique key of `background_jobs` | enqueue with an idempotency key | concurrent inserts, a queue that fails after it took the message | a caller gets its own job | `JobEnqueue` |
| Model admission (`services/model_governance.py`) | policy row, usage ledger, Redis windows and concurrency set, in-process limiter | candidates, reserve, acquire, settle, fail, release, edit policy | two processes reserving, sums read in several statements, Redis failing between effect and answer, clocks that differ, fallback | hard budget, rate and concurrency limits, no stray reservation, paid calls stay accounted | `ModelAdmission`, `RateWindows` |
| Data lifecycle (`services/data_lifecycle.py`, endpoints in `main.py`) | data-subject requests, holds, review cases | decide, dispatch, execute, cancel, retry, hold, release | API and worker write the same status, objects deleted before the commit | deletion only when approved and not held, completed means gone, events that tell what a case says | `DataSubjectRequests`, `ReviewCases` |
| Organization export (`main.py`, `jobs.py`, `services/data_lifecycle.py`) | export artifacts, their object and job | ask, create, enqueue, link, build, store, complete, fail | a handler that runs twice over one object key, endpoint and handler writing one status | what says completed is complete | `OrganizationExports` |
| Examination (`main.py`, `services/assignments.py`, `services/rate_limit.py`, `agents/orchestrator.py`, `agents/policy.py`, `agents/adaptive.py`) | assignment, attempts, sessions, turns, the gate's slots | edit, join, start, answer, follow up, hint, correct, complete | two answers to one session, a wait and a model call between load and commit, count then insert | attempt limit, window, questions within the plan, an honest transcript | `Examination` |
| The learner's page (`static/exam.js`) | entry code, attempt and token, the remembered attempt, what the page shows | look up, begin, resume, submit, reconcile, open the report, reload | handlers that overlap, requests lost on the way out or back, requests served late | one attempt, each answer counted once and kept, a report that is true | `ExamClient` |
| Material of an examination (`services/prompts.py`, `datasets.py`, `golden.py`, `blueprints.py`, `cognitive.py`, `visual.py`, `benchmark.py`, the handlers of `jobs.py`) | prompt versions, datasets, blueprints, graphs, analyses, benchmark runs | add, activate, generate, repair, number, freeze, analyze, compare, open a session | model calls between a load and a commit, jobs that run again, concurrent first uses | a version says what made it, sessions stand on one graph of their blueprint | `Authoring` |
| Knowledge state (`services/cognitive.py`) | evidence events, running states | record, rebuild, summarize | folded before a model call, committed after it | both accounts of the evidence agree | `KnowledgeState` |
| Judgement of an answer (`agents/analyzer.py`, `agents/reporter.py`, `services/assessment.py`, `template_assessment.py`) | the turns with their evaluations | analyze, reconcile, adjudicate, guard, weigh, report | labels and points that disagree, repeated answers, blended assistance | scores that say what was found, assistance told apart | `AnswerAssessment` |
| Learner memory and retests (`services/memory.py`, `memory_control.py`, `longitudinal.py`, `retest.py`, `preferences.py`) | ledger of events, states, retest items, preferences, deletion audits | link, import, correct, rebuild, plan, decide, start, complete, export, delete, retry | deletion against requests that read before it | forgotten stays forgotten, states count what the ledger holds | `LearnerMemory` |
| Voice (`services/voice.py`, endpoints in `main.py`) | voice sessions, events, transcripts | connect, record, complete | overlapping completions, transcripts during them | one finalizer, each transcript assessed once | `VoiceSession` |
| The voice page (`static/app.js`, the realtime endpoints of `main.py`) | microphone, connection, buttons; the reservation of the relayed call | start, end, mute, push to talk, greet, relay, settle | two handlers over one page state, a microphone granted late | the microphone closes, a muted learner is silent, events go to their session | `VoiceClient` |
| Realtime signals (`realtime/normalizers.py`) | identifiers seen, active response, responses with audio | normalize | repeated deliveries, events without identifiers | each event told once, one start of audio a response | `RealtimeSignals` |
| Organization console (`static/enterprise.js`) | the organization of the page, an epoch, the parts shown and their forms | switch, load a view, page, save a policy, approve, decide | answers that come after a switch | nothing of one organization shown or saved as another's | `OrganizationConsole` |
| Tenancy (`db.py`, `services/tenancy.py`, `authentication.py`, `authorization.py`, migrations 0008 to 0011) | the settings of pooled connections, `organization_id` of every row | begin, enter a workspace, discover, take an errand, commit; backfill, enforce | a connection's settings outlive its request, children filled in before their parents | a transaction sees and writes its organization's rows only | `TenantAccess`, `TenantOwnership` |
| Start of a process (`db.py`, `services/templates.py`, `services/prompts.py`) | the legacy organization, global prompts, built-in templates | insert what the release ships, refuse a changed version | processes of several releases that start at once | everything is there before a process serves, no release overwrites another's version | `TemplateSeeding` |
| Membership administration (`services/membership_admin.py`, `services/authorization.py`) | memberships with versions | invite, change role, suspend, revoke, restore | version compared without a lock | an organization keeps an owner, nobody promotes themselves | `Membership` |
| Identity (`services/oidc.py`) | login transactions, browser sessions, key cache | begin, callback, touch, revoke, look up a key | callbacks replayed and raced, rotation, outages | a session is earned once and ends when revoked | `SignIn`, `SigningKeys` |
| Template lifecycle (`services/templates.py`, `services/session_templates.py`) | template versions, bindings, snapshots | create, clone, replace, compile, transition, bind, start | edits on rows loaded earlier, validators that change | published versions stay what was evaluated | `TemplateLifecycle` |
| Object storage (`services/storage.py`, `services/storage_migration.py`) | objects, `stored_objects` rows, legacy files | put, migrate, delete, reconcile | two stores, no common transaction | nobody loses content nobody deleted | `StoredObjects` |
| Audit (`services/audit.py`, the middleware of `main.py`, migration 0012) | append-only events | append with the change, append after it, page, export, age | two sessions, commits out of order, rows aged between two pages | an event for each answer and change, complete pages and exports | `RequestAudit` |
| Template engine | none | parse, validate, compile | pure | computed from inputs | - |
| Providers, quality lab, observability, release tools | files, metrics | batch runs, network calls | sequential or external | - | - |

How they interact: an endpoint commits rows and enqueues a job; the worker
authorizes again, runs the handler, and both write the same rows. Handlers,
interviews and voice call models only through admission. Exports and deletions
are jobs that also change data-subject requests and objects. An answer to an
examination leaves evidence from which memory and retests are built. The pages
hold identifiers of what the server keeps and find out by answers, which may be
lost or late, what became of it. Audit
events are written in the transaction of the change they record, or by the
middleware after it.

`PROJECT.json` lists every component with its status and, under "hazards",
each place where an order of events nobody would write a test for decides the
outcome.

## 2. Modules

| Module | Models |
|---|---|
| `JobDelivery` | one job: its row, the messages and worker deliveries, the API requests |
| `JobLease` | the abstract contract of a job: numbered attempts, one holder, a budget, withdrawal |
| `JobDeliveryProofs` | theorems about `JobDelivery` and its refinement of `JobLease` |
| `ModelAdmissionProofs` | theorems about `ModelAdmission` and `RateWindows` |
| `ExaminationProofs` | theorems about `Examination`, `ExamClient` and `Authoring` |
| `TenantAccessProofs` | theorems about `TenantAccess`, `TenantOwnership` and `OrganizationConsole` |
| `DataSubjectRequestsProofs` | theorems about `DataSubjectRequests` and `ReviewCases` |
| `IdentityProofs` | theorems about `SignIn`, `SigningKeys` and `Membership` |
| `WorkbenchProofs` | theorems about `StoredObjects`, `TemplateLifecycle`, `RequestAudit`, `OrganizationExports` and `TemplateSeeding` |
| `LearningProofs` | theorems about `VoiceSession`, `VoiceClient`, `RealtimeSignals`, `LearnerMemory` and `SessionAnswers` |
| `ModelAdmission` | model calls of one organization through the governed provider |
| `RateWindows` | the rate windows and concurrency leases of an organization, in Redis or in memory |
| `DataSubjectRequests` | one reviewed request to delete a project, from its decision to the verified deletion |
| `ReviewCases` | one human review case with its events, and the request it was opened for |
| `TenantAccess` | the tenant context of sessions over pooled connections, with row-level security |
| `TenantOwnership` | the migrations that give every row an organization |
| `OrganizationConsole` | the page of an organization's administrators |
| `Examination` | one assignment, its attempts and the sessions of an oral examination by text |
| `Authoring` | prompts, datasets, blueprints, graphs, visual analyses and benchmarks of a project |
| `ExamClient` | the page of a learner, with the server as it appears to it |
| `KnowledgeState` | what one session knows of one knowledge unit |
| `AnswerAssessment` | how the answers of one interview are judged, scored and reported |
| `SessionAnswers` | what the two of them say together of the answers of a session |
| `LearnerMemory` | the long-term memory of one learner |
| `VoiceSession` | one realtime voice examination |
| `VoiceClient` | the page of a voice examination and what serves it |
| `RealtimeSignals` | one stream of provider events and the signals made of it |
| `Membership` | the memberships of one organization |
| `SignIn`, `SigningKeys` | the authorization-code flow and its browser sessions; the cache of the provider's keys |
| `TemplateLifecycle` | the versions of one scenario template and the sessions started with them |
| `JobEnqueue` | requests that enqueue under idempotency keys |
| `OrganizationExports` | exports, which extends `JobEnqueue` with the artifact, its request and its handler |
| `StoredObjects` | where the content of resources is |
| `TemplateSeeding` | what processes of several releases store before they serve |
| `RequestAudit` | the audit trail, its reader and its exports |
| `MCJobDelivery`, `MCModelAdmission` | instances for TLC |
| `MCGovernance`, `MCLifecycle`, `MCExamination`, `MCWorkbench`, `MCLearning` | instances of several modules that share no state, in one run |

### JobDelivery

`row` is the `background_jobs` row; tokens are the numbers of the claims, so
the uniqueness of `uuid4` is the numbering. `next` tells a backoff that runs
from one that is over. A delivery is a message and, once taken, the worker on
it: its program point, the lease token it was given, the row its session
loaded, and the class of the exception it handles. A request is an API call at
a program point.

Sessions load a row and commit later, and `SQLAlchemy` writes by primary key
the columns whose value changed. `Save(loaded, new)` is that commit: an
unchanged column keeps what others committed meanwhile. No statement on these
paths locks the row and the database runs at its default, READ COMMITTED, so
load and commit are two actions (`FailRead` and `FailWrite`, `CancelRead` and
`CancelWrite`, `ResetRead`, `RecoverRead`, `DeniedRead` ...), and each
conditional `UPDATE` (`ClaimUpdate`, `Heartbeat`, `Complete`) is one.

| Action | Code |
|---|---|
| `ClaimRead`, `CancelAtClaim`, `ExhaustAtClaim`, `ClaimUpdate` | `claim_job` |
| `DeniedRead`, `DeniedWrite` | the `JobAuthorizationError` branch of `_execute_job_delivery` |
| `Heartbeat`, `FirstCheckpoint`, `HandlerRaises`, `HandlerReturns` | `JobHeartbeat`, `_progress`, `_job_or_error`, the handler |
| `Complete` | `complete_job` |
| `FailRead`, `FailWrite`, `Republish` | `fail_job`, `task.retry` |
| `Dispatch`, `DispatchRaises`, `RecordTask`, `UndeliveredRead`, `UndeliveredWrite` | `enqueue_job` and `dispatch_persisted_job` from `delay()` on |
| `CancelRead`, `CancelWrite`, `Revoke` | cancel endpoint, `request_job_cancellation`, `cancel_persisted_job` |
| `ResetRead`, `ResetWrite` | retry endpoint, `reset_job_for_retry` |
| `RecoverRead`, `RecoverWrite`, `OrphanRead` | recover endpoint, `recover_stale_jobs`, `recover_orphaned_queued_jobs` |
| `LeaseExpires`, `BackoffElapses`, `RevokeAccess` | time, and changes of membership |
| `Discard`, `Redeliver`, `WorkerLost`, `RequestLost` | the broker and the operating system |

Abstractions. A process reads its clock when its `UPDATE` runs. A heartbeat
that could not renew is folded into `Checkpoint`, which may therefore always
raise `JobLeaseLost`. Messages carry well-formed envelopes of the persisted
job. Progress, messages, error texts and audit events are left out.
Definitions named "Variant" (such as `SaveWholeRow` or `CompleteByToken`) are
not part of the specification: each is a wrong form of the definition below
it, and the runs reject it (`PROJECT.json`, "mutants"). Where a property is the
conjunction of several, there is such a form for each of its conjuncts, although
only one is listed.

### JobLease

What a client of job delivery may rely on, without rows, messages or sessions:
`Claim` starts attempt `claims + 1` from a budget, `Complete` needs the newest
attempt to hold the job and no withdrawal, `Release`, `Withdraw`, and `Reset`,
which may find part of its work already done by a concurrent request. The
mapping is `holder <- row.token`, `left <- MaxAttempts - row.attempts`,
`withdrawn <- row.cancel`, `result <- row.result`.

### ModelAdmission

`policy` is the organization's policy row, `ledger` the usage ledger in the
order of insertion, `shared` the Redis concurrency set, `local` the limiter in
each process's memory, `edits` the policies administrators have loaded. A
caller is a thread of a process inside `GovernedModelProvider._call`.

A reservation enters the process's organization lock, locks the policy row and
reads the sum of settled costs (`LockPolicy`), reads the sum of reserved costs
(`SumReserved`), decides and commits (`Reserve`), and asks the limiter
(`Admit`, `AdmitRaises`, `Deny`); the call and its settlement follow (`Call`,
`Complete`, `Fail`, `Release`, `ReleaseRaises`). Settling takes no lock, which
is why the two sums are two steps. Administrators load and store the policy
(`LoadPolicy`, `StorePolicy`), leases lapse, processes are lost.

Abstractions. The rate windows are a refusal that may come at any time;
`RateWindows` says when it does. Costs
are small numbers. The per-request and per-session budgets are left out: the
session budget is computed like the monthly one, the request budget from one
number. The policy row exists, because `candidates` creates it. All calls fall
into one month.

### RateWindows

A call reads its process's clock (`Asks`) and is answered in one step, as one
script of Redis or under the lock of the memory limiter. `counters` are the keys
of requests, members and tokens with their expiry, `places` the concurrency
leases. `ahead` is how far each process's clock runs before that of Redis;
`Patience` bounds the time from the clock's reading to the answer, which the
socket timeout does in the code. `Refusal` is the order in which limits are
tried: a call refused for tokens has counted in none of the windows.

### TenantAccess and TenantOwnership

`connections` hold the tenant context their transaction set, or none; `works`
are sessions of requests, jobs and services at a point. `Settings` are what the
event of `db.py` sets at the begin of every transaction; `SeesMembership`,
`SeesOrganization`, `VisibleProjects` and `Storable` the row-level-security
policies. A request authenticates, discovers memberships, admits a member and
enters a workspace, reads a project, adds a document and an errand whose job
enters the organization of its envelope. `TenantOwnership` runs the backfill's
statements in their order over every shape of rows above and below one another
(`Installations`), and then the constraints.

### DataSubjectRequests

`row` is the request, `requests` the API calls in progress on it, `workers` the
processes that run `_delete_data_subject`, `jobs` the deletion jobs by
idempotency key, `held` whether an applicable hold is active, and `project`,
`stored`, `store` the project's row, the `stored_objects` rows and the backend.

| Action | Code |
|---|---|
| `DecideRead`, `DecideCase`, `DecideWrite` | approve endpoint, `decide`, `HumanReviewService.decide` |
| `Enqueue`, `EnqueueFails`, `Refresh`, `LinkWrite` | `_dispatch_approved_data_subject_request`, `enqueue_job` |
| `CancelRead`, `CancelWrite`, `RetryRead`, `RetryWrite` | `cancel`, retry endpoint |
| `PlaceHold`, `ReleaseHold` | legal-hold endpoints |
| `Load`, `CheckHolds`, `Block`, `Start` | `_delete_data_subject`, `execute_deletion` up to the flush of `running` |
| `DeleteObject`, `DeleteProject`, `CommitDeletion` | `_delete_project`, verification, commit |
| `HandlerRaises`, `FailRead`, `MarkFailed` | an exception, the second session, `mark_failed` |
| `Claim`, `Complete`, `FailJob`, `JobStops`, `JobRetry` | the job around the handler |
| `UploadInsert`, `UploadPut`, `UploadCommit`, `UploadLost` | `upload_document`, `store_bytes` |
| `WorkerLost`, `RequestLost` | the operating system |

The handler flushes `running` before it deletes anything, so from `Start` to
its commit or rollback it holds the row's lock and every other write of the row
waits (`RowLocked`); what others loaded before is stale afterwards. The status
columns it flushes in between are visible to nobody. Objects are deleted at
once, whatever becomes of the transaction. The `DELETE` of the project waits for
uploads that have inserted a row referencing it.

Abstractions. Jobs keep what `JobLease` promises: a budget of attempts, a
newest holder, one end; a lease may run out at any moment, so a second worker
may claim while the first still runs. Several holds are one that is active or
not. The review case is decided by the request's endpoint only, so it is
terminal exactly when the request has a reviewer; what the other endpoints of a
case do is in `ReviewCases`. The request exists already;
its kind is `delete`, its target a project. `approvers` and the workers' `under`
are history that no action reads.

### ReviewCases

`reviewCase` is the row, `recorded` its append-only events, `wish` the request.
Each call loads and commits: assigning, deciding and appealing the case through
its own endpoints, deciding and withdrawing the request, which decides or leaves
the case.

### Sessions that load and commit

All modules follow one reading of the code. An endpoint loads rows, decides,
and commits; nothing locks a row unless the code says `with_for_update`, the
database runs at READ COMMITTED, and SQLAlchemy writes, by primary key, the
columns whose value changed. So a load and a commit are two actions with the
other sessions' between them, an uncommitted step is taken back by an
exception, and a unique key or a deleted row makes a commit fail. Where a
session keeps its rows across commits (`expire_on_commit=False`), later
decisions use what it loaded first.

Such a design gives up some properties when a request writes on a row that has
changed since it was loaded. The modules record that a request did so in
variables no action reads (`overtaken`, `miscounted`, `overwritten`, `raced`,
`outdated`, `crossed`, `stale`, `contended`, `reopened`); a property qualified
by one of them holds for every interleaving that does not contain the race,
and the history variable is set by the racing commit itself, never earlier.
Where a document claims the property without that qualification, a violation
run shows the race (section 3) or section 5 lists it.

### Examination

`assignment` with its settings and edits, `now`, `attempts`, `sessions`,
`turns`, the requests `calls`, free `slots` of the gate.

| Action | Code |
|---|---|
| `JoinCheck`, `CreateSession`, `CreateAttempt` | `create_assignment_attempt`: check, `_create_exam_session`, the attempt |
| `StartRead`, `StartWrite` | `start_assignment_attempt`, `ExamOrchestrator.start_session` |
| `AnswerRead`, `TakeSlot`, `QueueTimeout` | `submit_assignment_answer`, `_submit_learner_answer`, `ModelCallGate` |
| `Ask`, `NotActive`, `ModelFails`, `Record` | `ExamOrchestrator.submit_answer`: status, the evaluator, everything after it |
| `UpdateAssignment`, `Tick`, `Restart` | `update_assignment`, the clock, a restart of the process |

`Decide`, `Authorize`, `Assistance` are `PolicyController` and
`_assistance_level`; what the analyzer finds is any of the classes the policy
tells apart. An exam freezes its settings (`Freezable`, `LockPolicy`). Adaptive
selection may choose any question not asked yet.

### Authoring

A task is a request or a job's delivery in progress. `GenerateDataset`,
`GenerateBlueprint`, `RunBenchmark` and `AnalyzeVisuals` begin one, `CallAgents`
is a round of model calls with its repairs and its correction, and each kind
stores in steps of its own: `Assemble`, `StoreDataset`; `Propose`,
`CountBlueprints`, `StoreBlueprint`; `AnalyzePage` for each page;
`MeasureProfile`, `StoreRanking`. A job's handler commits its item and then
completes (`CompleteGeneration`); in between its worker may be lost, and the job
starts again. Prompts are loaded when they are used (`Effective`), activated by
one `UPDATE` and an insert (`MatchActive`, `DemoteActive`, `CommitPrompt`). The
first session of a blueprint inserts its graph (`InsertGraph`, `CommitGraph`)
under a unique key. What the model says is any of the outcomes the checks of the
code tell apart. A ranking (`Ranked`) gives each profile the place that those
before it leave, ties in the order asked for, as the stable `sorted` of the code
does.

### ExamClient

`page` is what the script holds and shows, `saved` the browser's storage,
`flows` the handlers at a point of their chain of requests, `papers` the
attempts on the server. `Serve` is the server's answer, `Fails` a request lost
before it is served or an answer lost after, `ServeStray` one served after the
page gave up on it. Handlers are looking up (`Look`, `Resume`, `View`), beginning
(`Begin`, `Created`, `Started`), answering (`Submit`, `AnswerTaken`,
`AnswerFailed`, `Reconcile`), the report (`Report`, `RefreshReport`); `Reload`
forgets all but the storage. `unsure`, `excuses` and `overlaps` record where the
page could not know better: an answer is unsure when the server counts it as a
stray, when a stray answer is counted while it is submitted and hides it from
`reconcile`, which looks at the last one, or when the attempt could not be read;
a reply that fails to begin or to resume an attempt, a lookup that enables the
button while one begins, and a reload that may lose a new attempt are excuses; and
a lookup and a beginning overlap whichever of them ends first. The proof of
`LearnerServed` led to these: with a narrower account the statements hold on the
bounds of the run and fail on larger ones, where TLC then found the behaviours.

### KnowledgeState

An answer folds the state it read into a new one and adds an event
(`Analyzed`), waits for the interviewer's model, and commits both
(`Committed`). Observations are hundredths and weights twentieths, so mastery
is `mass / weight` without rounding. A rebuild folds the events again
(`Folded`, the state after each number of them).

### AnswerAssessment

An answer is judged in steps: the analyzer's findings are reconciled
(`Normalized`), open questions adjudicated by a second call (`Adjudicated`), an
answer that misses the question or repeats another guarded (`Guarded`, `Cap`)
and the rest weighed (`Evaluated`); the model may fail in between
(`JudgingFails`). What the model says is any class the code tells apart.
`IndependentScore`, `AssistedScore`, `Overall` and `Strengths` are the report's.
Judgements are hundredths and scores ten-thousandths of a point.

### LearnerMemory

`ledger` holds events with what they supersede; `states` the identifiers each
concept state counts. Each request of `writers` reads (`Read...`) and commits
(`Commit...`): import, rebuild, correction, plan, decision, start, outcome,
preference, settings, export, deletion. `Erase` is `execute_deletion` for every
scope, run by a worker that may fail and be retried.

### VoiceSession

`BeginConnect` and `Connected` are the two commits of a connection;
`RecordEvent` and `AddTranscript` the two of an event; `LoadCompletion`,
`Claim`, `Mark`, `Assess`, `Finish` those of a completion, of which only the
claim is a conditional update. `Assess` is one turn of `finalize_voice`, whose
evidence `record_answer` adds once.

### VoiceClient and RealtimeSignals

`desk` is the page's voice state with its buttons, `runs` the runs of
`connectVoice` and `endVoice` at a point, `mics` and `lines` what they opened.
The provider's events come to a line (`Told`, `ResponseDone`, `Readied`); the
reservation of a relayed call is made, refused, settled or failed by the server
(`ReserveCall`, `CallSettled`, `CallFailed`, `RelayEnds`). `met` tells that two
runs met, or a run a live session, which the start button prevents unless
another handler enables it (section 5); the run `learning` ends there.

`RealtimeSignals` sends any legal stream of one provider, with and without
identifiers, delivers events again, and keeps the normalizer's three variables.

### OrganizationConsole

`console` is the state every handler reads: organization, epoch, context and
view; `shown` what each part of the page shows and whose it is; `desks` the
handlers at a point. `Answers` and `Errs` are the server's, which checks the
membership of each request's organization; `Activate` switches, raises the epoch
and aborts. A handler that is told late compares the epoch (`Fresh`, `Stale`).
Assigning a case, saving and revoking memberships, quota, retention and hold
forms and downloads have the shape of the handlers that are modelled and are
left out.

### Membership

`OpenCreate`, `OpenUpdate` authorize and load; `CommitCreate`, `CommitUpdate`
write with the audit event. Owners are locked and counted in the statement
that writes; the early return of `_protect_last_owner` looks at the loaded row
(`OwnerProtected`). Two capabilities of the table are kept, administering and
working.

### SignIn and SigningKeys

A callback loads the login transaction, consumes it, exchanges the code,
resolves the principal and opens the session: five steps, with failures after
each. A request touches a session it loaded; a logout revokes it. `SigningKeys`
is `OIDCDiscoveryCache` under its lock: every `signing_key` is one step over
the metadata, the key set and the remembered negative answers. The bound of
1000 remembered answers is left out.

### TemplateLifecycle

A version is its status, its source (content and trust level), the artifact
compiled from a source, and whether an evaluation was submitted. `Load` begins
an edit; `CommitEdit` writes the columns it changed (`Merged`) if the guard of
published versions lets it. `Deploy` changes which contents the validator
accepts.

### JobEnqueue and OrganizationExports

`LookUpJob`, `InsertJob`, `PublishJob`, `RecordTask`, `ReadUndelivered`,
`WriteUndelivered` are `enqueue_job`; afterwards a job is delivered and ends.
An export adds `AskExport`, `CreateArtifact`, `ReadArtifact`, `LinkRequest`
around it and the handler: `CheckJob`, `LockArtifact` (the flush of `running`,
which holds the row), `PutExport`, `CommitExport`, `MarkExportFailed`.

### StoredObjects

A resource's row names a legacy path, an object or nothing; the file and the
object exist or not, and may be the same file. Uploads, two migrators, a
deletion and a reconciliation take one operation of one store at a time and
may stop anywhere.

### TemplateSeeding

A process of a release starts, looks up and inserts the legacy organization, the
prompts and the template with its versions, each with its commit (`Look...`,
`Insert...`, `Commit...`), and serves or stops. A unique key makes the later of
two inserts fail. `shelf` are the versions of the built-in template; an
organization may store a template of the same slug (`AskTemplate`,
`WriteTemplate`) or clone a version. Three releases are an old one, one that adds
a version, and one that ships a version's number with another content.

### RequestAudit

A route commits its event with its change (`HandleJointly`, `CommitJointly`) or
leaves it to the middleware (`HandleAlone`, `BuildEvent`, `CommitEvent`,
`EventFails`). Events take their time when built. `ReadPage` is
`list_audit_events` with its cursor; `ExportEvents` exports a window that begins
where the last one ended (`Window`, `OldestRows`). `MutateEvent` is any `UPDATE`
or `DELETE`, which the grants and triggers of migration 0014 permit to the
maintenance role for deletion alone (`MutationPermitted`).

## 3. Runs

| Run | Checks | Bounds |
|---|---|---|
| `job_contention` | token fence, finality of cancellation, attempt budget, results of the holder only, implementation of `JobLease` | 2 deliveries, 1 request at a time, 2 attempts, 1 operator retry, 1 fault, cancels unbounded |
| `job_recovery` | no commit takes the lease from a running job; a job ends | 2 deliveries, 1 request, 2 attempts, 2 faults among lost workers, lost requests and redeliveries, access revoked at any time |
| `governance` | reservations and leases owned by their calls and under the policy they name; rates kept; tenants apart; rows inherited by the upgrade; a console that shows and saves what it says | models: 2 processes, 2 calls, 1 edit, a budget of 2, costs 1 and 2, Redis failing, fail closed; rates: 3 calls of size 2, 2 waiting, windows of 2 ticks, clocks 1 apart; tenants: 2 organizations, 1 person, 2 sessions, 2 connections, 1 errand; upgrade: 2 projects; console: 2 organizations, 2 handlers, 2 audit pages, 3 epochs, 1 save, 1 failure, 1 decided case |
| `admission_faults` | every call ends; accounting | 2 threads of a process, 2 calls, 1 edit or 1 lost process, Redis and commits failing, fail open |
| `admission_over_budget` | violated: settled and reserved costs together within the hard budget | 2 processes, 3 calls |
| `deletion_requests` | types, independent approval, holds, completed means gone; a review case and its events | 2 workers, 1 API call at a time, 2 keys, 1 object, 1 upload, 1 attempt a job, 2 faults or job retries; reviews: 2 calls, 2 reviewers, 4 events |
| `deletion_answers` | every API call is answered and every delivery ends | 1 worker, 1 API call at a time, 2 attempts, 1 upload, 2 faults |
| `deletion_withdrawn` | violated: an attempt rechecks the approval | 1 worker, 1 API call, 1 attempt, 2 faults or job retries |
| `examination` | types and slots, interview within the plan, honest transcript, attempt limit, completed sessions final; authored material; the learner's page | 2 requests, 1 learner with a key and anonymous ones, 2 questions, 1 follow-up, 2 sessions, 4 turns, 1 attempt, 1 slot, 3 sets of settings, 2 edits; material: 2 tasks, 2 prompt versions, 1 dataset and blueprint, 2 attempts of a job, 2 templates, 2 pages, 2 profiles; page: 2 handlers, 3 answers of which two alike, 2 attempts, 2 failures, 1 reload |
| `workbench` | one property or two of each of nine parts (below) | see `Workbench.cfg`: 2 principals and 3 requests; 1 login, 2 codes, 2 callbacks; 2 keys and 5 seconds; 2 versions, 3 edits, 2 at a time; 2 clients, 2 actors, 1 key; 1 resource, 2 migrators; 2 audited calls, 3 event identifiers, pages and exports of 1, 2 exports, 1 aged event; 2 processes, 3 releases, 3 starts, 1 clone |
| `membership_last_owner` | violated: an active owner remains | as `workbench` |
| `learning` | types, forgotten stays forgotten, states from the ledger, retests advanced once, deletions hold writes, transcripts settled, states match evidence and scores what was found; the voice page; realtime signals | 2 requests, 3 events, 1 item, 2 retests, 2 deletions, 5 scopes; 2 callers, 2 transcripts, 2 connections; 2 answers at once, 3 events of evidence; 3 judged answers (the first relevant or not, the third complete), 2 topics, one repeated wording; 2 handlers, 2 voice sessions, 2 uses of a button; 6 provider events, 1 repeated |

`governance`, `deletion_requests`, `examination`, `workbench` and `learning` hold
several specifications side by side. The
variable `part` is chosen in the initial state and never changes; a behaviour
takes only the steps of that part and the variables of the others keep one
initial value, so the states are the sum of the parts' states, not their
product. That is sound because the parts share no variable (`exports` and
`jobs` share those of `JobEnqueue`, whose steps an export takes itself). In
`learning` the operations of the memory are further split into four groups
(`Retesting`, `Erasing`, `Replacing`, `Holding`) which contain the pairs that
meet on the same rows; a group bounds the operations, never their order. The
clock of an assignment passes only where the assignment has an end, and in
`admission_faults` a behaviour has an edit of the policy or a lost process, not
both. The
material of an examination, the learner's page (overlapping handlers without
failures, and one handler with them) and the console (one view besides the
first) are split in the same way.

Several properties are conjunctions of statements about one part:

| Run, part | Property | Its statements |
|---|---|---|
| `governance`, `rates` | `LimitsKept` | `RatesKept`, `PlacesKept`, `RefusedDuly` |
| `governance`, `tenants` | `TenancyKept` | `TenantIsolation`, `DiscoveryIsOwn` and types |
| `governance`, `upgrade` | `OwnershipInherited` | |
| `governance`, `switching` to `reviewing` | `ConsoleSound` | `ShownOwn`, `SavedOwn`, `FormTold`, `EventsOnce`, `RequestsTold`, `DecidedShown` |
| `deletion_requests`, `deletion` | `DeletionSound`, `IndependentApproval` | types, `HoldRespected`, `VerifiedGone` |
| `deletion_requests`, `reviews` | `ReviewsSound` | `EventsTell`, `DecidedBySomeone` |
| `examination`, `examination` | `ExaminationSound`, `InterviewWithinPlan`, `TranscriptSound`, `CompletedIsFinal` | types, `GateAccounted`, `AttemptLimit`; `AssistanceHonest`, `TranscriptAgrees` |
| `examination`, `prompting` to `looking` | `AuthoredSound` | types, `PromptStays`, `VersionsHonest`, `RankedFairly`, `SessionsGrounded` |
| `examination`, `entering`, `answering` | `LearnerServed` | `OneAttempt`, `CountedOnce`, `AnswersKept`, `ReportTold` |
| `workbench`, `members` | `OwnerRemains`, `AuthorizedChanges` | |
| `workbench`, `signin` | `SessionsEarned`, `RevokedStaysRevoked` | |
| `workbench`, `keys` | `AnswersSound` | |
| `workbench`, `templates` | `TemplatesSound` | see the module |
| `workbench`, `jobs`, `exports` | `ExportsSound` | `AnsweredWithOwnJob`, `CompletedExportsKept` |
| `workbench`, `objects` | `ContentKept` | |
| `workbench`, `audit` | `TrailComplete` | types, `AnswersAudited`, `PagesComplete`, `ExportsAdjoin` |
| `workbench`, `seeding` | `SeedingSound` | `SeededWhole`, `OneRegistry`, `FailsDuly`, `SlugsApart`, `NewestOffered` |
| `learning`, four groups of the memory | `MemorySound` | types, `ForgottenStaysForgotten`, the states of the ledger, retests, holds of deletions |
| `learning`, `voice` | `TranscriptsSettled` | |
| `learning`, `knowledge` and the answers | `AnswersWeighed` | `StateMatchesEvidence`; `AssessmentSound`: types, `AnswerJudged`, `AssistanceApart` |
| `learning`, `voicepage` | `VoiceKept` | `CallsEnded`, `MicrophoneClosed`, `MutedSilent`, `EventsOfSession`, `BegunOnce`, `SessionsLeft` |
| `learning`, `signals` | `SignalsSound` | `ToldOnce`, `AudioStartsOnce`, `NamedStartsOnce`, `OneAtATime` |

Why these bounds. Two deliveries are one that holds or held the lease and one
that takes it; every race of `job_control.py` is between two sessions on one
row. Two attempts separate a first, a last and an exhausted attempt. One
operator retry is enough to have two rounds alive at once, one fault enough to
have two messages. In admission, two processes are enough for two reservations
at once, two calls for one settling while the other reserves; the violation of
`HardBudget` takes a third call, which is the one that settled before. In
deletion, two workers are one that deletes and one whose snapshot is stale, two
keys the approval's job and the retry's, one object enough to be deleted without
its row, and one API call at a time suffices because a call may be overtaken by
either worker between its load and its commit. In the other modules every race
is between two requests, one of which loaded before the other committed, so two
at a time are used, with enough requests in all (3 administration requests, 3
edits, 2 retests) for one of them to prepare what the two race over. Four turns
are a question, its answer, a follow-up or hint and the answer to it; two
questions let the session move on and complete. A page needs two handlers to
overlap, two failures to lose an answer and the reading that would have told, and
a second answer with the same text to mistake one for the other. Three calls, two
of them before a window's border, exceed any limit that is off by one; clocks
one tick apart ask for a window that is over. Three starts are an old release, a
newer one beside it and either again. Three events are one, its
correction and one more. Identifiers of requests, edits, versions, deletions and
callers are symmetric: no action orders them.
Deadlock is not checked: a settled job, an idle organization and an exhausted
bound are legitimate ends.

Fairness. `JobDelivery!FairSpec`: workers, requests in progress and deadlines
make progress (threads are scheduled, clocks advance), and somebody keeps
calling the recovery endpoint, which is what the deployment documents ask of an
operator, since nothing in the code calls it by itself. No fairness makes a
broker redeliver, an operator cancel, or a process die. `ModelAdmission!FairSpec`:
each caller's thread makes progress. That a stream of other calls starves one
caller at a lock is outside the instance, which bounds the calls.
`DataSubjectRequests!FairSpec`: strong fairness for API calls in progress and
for handlers, because PostgreSQL queues those who wait for a row's lock; weak
fairness for an upload that has begun. Nobody is obliged to ask for anything.
The other modules state safety only.

What the violations show is in `PROJECT.json`, "findings", each with the
sentence it contradicts:

1. A reservation adds two sums read in two statements; a call settled in
   between is in neither.
2. `execute_deletion` looks at the status only: a cancelled request whose job was
   already enqueued is marked failed by the first attempt, and `failed` is
   executable, so a retried job deletes although the decision was withdrawn.
3. `_protect_last_owner` decides by the loaded row whether an owner is at stake:
   a suspension that loaded an administrator leaves no owner behind when that
   administrator has meanwhile become the only one.

## 4. Theorems

Each theorem holds for every value of the constants that the named assumption
of its module admits; TLC evaluates the assumptions on every run. A proof module
states the inductive invariant, has one lemma for each action or group of
actions, and combines them in its last section. Every invariant was first
checked by TLC on the bounds of its run.

| Module | Theorem (property of a run) | Assumptions |
|---|---|---|
| `JobDeliveryProofs` | `TypeCorrect`, `CoreInvariant`, `Fenced` (`TokenFence`), `CancellationIsFinal` (`CancellationSticks`), `BudgetKept` (`AttemptBudget`), `ResultOfNewestHolder` (`ResultFromHolder`), `LeaseKept` (`RunningKeepsLease`), `Refinement` (`ImplementsLease`) | bounds are naturals |
| `DataSubjectRequestsProofs` | `TypeCorrect`, `DeletionKept`, `NothingDeletedUnapproved` (`IndependentApproval`), `DeletionIsSound` (`DeletionSound`), `ReviewsInvariant`, `ReviewsAreSound` (`ReviewsSound`) | the requester is a principal, objects are no uploads, a job has an attempt; "nobody" is no reviewer |
| `ModelAdmissionProofs` | `AdmissionInvariant`, `Owned` (`ReservationsOwned`), `Accounting` (`CallsAccounted`), `BudgetKept` (`ReservedUnderPolicy`), `RatesInvariant`, `LimitsAreKept` (`LimitsKept`) | budgets and costs are naturals, a call may run; a limit admits a call, a counter outlives its window by the patience of a call and what clocks differ by, "org" and "tokens" are no members |
| `ExaminationProofs` | `ExaminationInvariant`, `SlotsAndAttemptsCounted` (`ExaminationSound`), `PlanOfEveryInterview` (`InterviewWithinPlan`), `TranscriptsTold` (`TranscriptSound`), `CompletedForGood` (`CompletedIsFinal`), `LearnerIsServed` (`LearnerServed`), `MaterialIsSound` (`AuthoredSound`) | positive limits, finitely many requests, contracts that permit to end; an attempt needs an answer, the page runs finitely many handlers; a benchmark is asked for some profiles, none twice (`_profiles`, `main.py:654-665`), and what it measures are numbers |
| `IdentityProofs` | `SignInInvariant`, `SessionsAreEarned` (`SessionsEarned`), `RevocationLasts` (`RevokedStaysRevoked`), `KeysInvariant`, `AnswersAreSound` (`AnswersSound`), `MembersAdministered`, `OwnerKept` (`OwnerRemains`), `ChangesAuthorized` (`AuthorizedChanges`) | lives and lifetimes of cached keys are positive, "none" is no key, an unknown key is forgotten before the set is; an organization is founded by someone |
| `TenantAccessProofs` | `TenantsInvariant`, `TenancyHolds` (`TenancyKept`), `OwnersAreInherited` (`OwnershipInherited`), `ConsoleIsSound` (`ConsoleSound`) | the legacy organization is one, NULL is nothing else; the projects of a database are finitely many; no organization is called as the page without one, a trail has a page |
| `WorkbenchProofs` | `ObjectsInvariant`, `ContentHolds` (`ContentKept`), `TemplatesInvariant`, `PublicationsHold` (`TemplatesSound`), `AuditInvariant`, `TrailHolds` (`TrailComplete`), `ExportsInvariant`, `ExportsAreSound` (`ExportsSound`), `SeedingIsSound` (`SeedingSound`) | finitely many template edits; pages and windows hold an event, the clock is a natural; a job has an attempt; a release ships a version, and two releases a prompt they share |
| `LearningProofs` | `VoiceInvariant`, `TranscriptsAreSettled` (`TranscriptsSettled`), `VoiceIsKept` (`VoiceKept`), `SignalsAreSound` (`SignalsSound`), `MemoryIsSound` (`MemorySound`), `AnswersAreWeighed` (`AnswersWeighed`) | bounds are naturals; each evidence has a concept and a subject, finitely many deletions are opened; a question has finitely many points and at least one, a template finitely many objectives, weighed in naturals; what the model says is of its classes, hundredths are at most 100, weights at most one |

The arguments:

- **Job delivery.** `TokenFence` is inductive with the types: a token is drawn
  in `ClaimUpdate` alone, is larger than every earlier one, and every commit
  through `Save` keeps the committed token or writes 0, since no session assigns
  any other. `CancellationSticks` is not: a stale cancel could set the flag on a
  running row if its status write were dropped as unchanged. `LoadedInTime` rules
  that out: a request or recovery about to commit loaded the job before it had
  the status it assigns, so the status is always written. `Core` is the
  conjunction. The same fact gives `LeaseKept`: a commit that clears the lease
  also takes the job out of `running`, except `fail_job`'s on a job settled
  before, which the property names. For the refinement, lemmas say what each
  group of actions does to the lease; `AttemptBudget` follows from them: a claim
  takes one from the budget and a reset, however it races, adds at most
  `MaxAttempts`.
- **Deletion.** `IndependentApproval` needs that whoever waits to act on a
  decided request has the decision behind it (`Waiting`). `DeletionSound` needs
  that the row's lock has one holder (`OneDeleter`), that a worker which found a
  hold does not come to delete (`UnderHold`), that what it lists is all of the
  project and nothing of an upload in progress (`Listed`, `RowsKept`), and that
  objects are gone with the project (`Gone`).
- **Review cases.** `EventsTell` is stated on the last event and the last that
  is no assignment, which is what appending one changes. A call that finds the
  case as it was loaded writes a row that its own event tells; one that does not
  sets `crossing`. `DecidedBySomeone` needs to know what a decision was let in
  for: the wish it carries is the one that is there, requested and of another
  person (`WishesFound`).
- **Admission.** Every call owns one ledger entry (`OneEntryEach`), which is
  reserved until it settles (`EntriesKept`), and the call that has the policy
  row's lock knows a sum that covers all that is reserved (`RowKept`), because
  settling, which takes no lock, only lowers it. Sums over the ledger are
  `MapThenSumSet`; the lemmas on them (adding an entry, removing one, lowering a cost)
  are proved by taking a least counterexample, as the induction theorems of the
  library cannot be used.
- **Rate windows.** A counter that is there tells what its window has admitted;
  one that Redis has dropped belongs to a window that is over (`CountersTell`),
  and no call still asks for such a window, because clocks differ by less than
  the grace leaves after a call's patience (`NotOver`). That is the one use of
  the assumption on `Offsets`; without it a late call starts a second count. A
  call that runs has its lease for the lease's length less `Spread`
  (`StillLeased`, `LapsedLate`), so an injection into the leases bounds the calls
  that run.
- **Examination.** What holds of any row holds of the rows requests carry, and
  of what a commit makes of two such rows (`RowsSound`, `CallsSound`, `Orderly`):
  that gives the plan and the assistance. That a session and its turns tell the
  same (`Agreed`) holds until a request commits on a stale row (`overtaken`).
  Slots and attempts are cardinalities of finite sets.
- **The learner's page.** Whatever may still become an attempt is counted with
  those there are: a handler or a stray that asks for one, and the chance that the
  page asks for another although nothing is to blame (`Owed`); a new attempt is
  nobody's until its handler takes it up (`Unclaimed`), and what the page holds is
  what it stored (`HeldAsSaved`). An answer that was counted as often as can be excused
  (`Over`) is at one of the places where the page will see it: it is the last of
  the attempt while its handler submits or reads it, then in the reply
  (`Submitted`), and afterwards the box is empty and, after a reload, the log shows
  it (`Shows`), so it cannot be written again. What a reply tells stays true
  (`Tells`), as attempts only grow. Unless a lookup and a beginning overlapped all
  handlers are at the attempt the page holds (`Together`).
- **Material.** What is stored is right because what each task carries is
  (`TaskSound`). A request that activates a prompt has found all the active
  versions, and then demotes them all, unless another one committed in between,
  which it then knows (`overtaken`); what is being generated has used no prompts
  but the active ones, unless some were activated since (`shifted`). A session
  that comes to its creation has a committed graph, because the unique key makes
  the loser of an insert wait. For the ranking, `Ahead` is a strict total order on
  the profiles in the order asked for, so places are distinct and no larger than
  their number (`PlaceOrder`), and an injection of a finite set into itself leaves
  no place free (`PlacesTaken`): no induction over the list is needed. That a set
  of versions has a newest one is by well-foundedness (`NewestVersion`).
- **Membership.** A request carries what it was allowed on the row it loaded
  (`Allowed`); owners are counted in the statement that writes, so the last one
  goes only when a row is written that was not seen.
- **Sign-in.** A login transaction and a code pass from the callback that
  consumed them to the session it opens. Each is had by one: codes because the
  provider answers once (`CodesApart`), logins because a callback loads a pending
  one and a second consumption is a race (`LoginsApart`). `RevokedStaysRevoked`
  holds because a touch writes one column.
- **Signing keys.** `AnswersSound` speaks of one lookup, but whether a cached key
  may still be accepted depends on when it was withdrawn: `CacheExplained` says
  that a key in the cached set was published when the set was loaded, and every
  answer is then a matter of comparing times.
- **Tenancy.** The settings on a connection are the context of the one session
  that has it (`Wired`); the context names no organization before one is granted
  and names that one afterwards (`Staged`).

- **Stored content.** `ContentKept` needs to know what each actor has done
  already: an upload's object is in the store before its row (`Uploading`), a
  migrator unlinks a source only after the row that names its object was
  committed (`Migrating`), a deletion touches only what was asked for
  (`Deleting`), and what a reconciliation saw can only mark a locator `active`
  or `missing` (`Surveying`). A migrator that loses a race finds a row that
  already names the object, so nothing it does takes content away.
- **Template versions.** `TemplatesSound` speaks of versions no request wrote on
  an older row. For these an edit's merge is the row it loaded with the columns
  it changed, and the guard of published versions refuses all but the
  deprecation (`MergedRow`, `CommitKeeps`). `EditsSeen` says the version of an
  edit exists; `BindingsBounded` counts the binds in flight, each of which had
  found room.
- **Audit trail.** Pages are runs of a finite set ordered by time and number:
  `Extremes` gives such a set its newest member, `PageOf` what one page and its
  cursor leave. Between pages all that is still to be read lies behind the
  cursor (`CursorOf`), unless the event it names was aged away, in which case
  nothing is claimed of repetition. Export windows begin where the last ended,
  so `WindowsAdjoin` separates their rows. An answered request has its event
  because a success is reported only once its change was made (`Reported`).
- **Exports.** A request keeps its artifact and its job from the insert on
  (`ClientsOwn`), whoever inserted them. That a completed export is the one its
  row describes is a count of losses: while nothing is lost a job has one handler
  at a time, and once something is stored that handler is past all it could take
  back (`Undisturbed`); after one loss a second handler may overwrite the bytes,
  but then it is still there and will be refused by the unique locator, which
  marks the artifact failed (`Overwriting`); only a second loss leaves it so. The
  lock of the artifact's row keeps two handlers apart (`ArtifactsLocked`).
- **Voice sessions.** Unless a connection reopened the session, the row says
  `finalizing` as long as a request finalizes, which lets no second one in
  (`OneFinalizes`), and what that one owes is finalized or still on its list
  (`OwedAssessed`). Every turn has its event, so those that transcribe are
  counted with the turns (`TurnsRecorded`).
- **The voice page.** While no two runs met there is one run at a time (`Alone`),
  and the invariant says what it has got to at each point (`Got`) and that the
  page's connection and microphone belong to its session (`Holds`). Every other
  connection is closed and its session completed, every other microphone closed
  (`LetGo`). Sessions are numbered without a gap (`Numbered`), so a new one is no
  session of an old connection. A reservation stands exactly while the server
  calls (`Reserved`), whatever the page does: `CallsEnded` needs no condition.
- **Realtime signals.** With identifiers what is seen is what was sent, and the
  signals come in the order of the events, one each (`KnownAsSent`): an event
  delivered again is dropped before it changes anything. `AudioTold` relates the
  started set to the responses heard and puts their signals in order; `EndsTold`
  says that of the responses told of only the one the provider is at has not
  ended, which needs that it sends one after the other (`StreamSent`). Without
  identifiers `StartedByName` alone gives `NamedStartsOnce`.
- **Learner memory.** A request brings to its commit what it read, so the
  invariant speaks of what each carries (`Carries`) and, for a memory that was
  forgotten, what a request that read it since can bring back (`BringsNothing`):
  nothing, because the memory is disabled, its ledger is empty and no item is
  live. A commit that read it before carries an older `since`, which ends
  `forgotten`. An item that nobody crossed has the number of its one session in
  its row (`SessionsOfItems`); an outcome is recorded from a row that says
  `started` and leaves it `completed`. The condition on the superseded event is
  that of a pair of events (`CorrectedOnce`): whoever commits second had read the
  event uncorrected.
- **The upgrade.** `Given` says what the statements give without their order, and
  `StatementsKnow` that the nth of them gives its table just that, because what it
  inherits from stands earlier. The function those steps define is then the only
  one that fits (`AfterAll`). The constraints can fail only on a link between an
  identity and the work of another organization than the one it was taken from,
  which are two (`EnforceFinds`).
- **The console.** A handler that waits asked under an epoch of the page: the
  present one, and then for its organization (`InLine`), so what an answer shows is
  the page's own (`PageOwn`), which the forms keep until they are loaded again.
  The statements about the trail, the form, the list and the case are inductive
  only together with the requests that will write the same part (`TrailInOrder`,
  `FormInStep`, `ListInStep`, `CaseInStep`): there is one, and what it will write
  is what the page then says, or `doubts` records that two met or one failed.
- **Seeding.** Each transaction of a start builds on what those before it
  committed (`Ordered`), and every version it has passed is stored or inserted as
  shipped (`Counted`), which nothing undoes, because a published row only becomes
  deprecated. Two starts never hold the same row and know that they met
  (`Separate`); what a look did not find is missing still unless they did
  (`Surprised`), which tells why a start failed. Without clones the versions stored
  are an initial run of numbers, born in that order.
- **The answers of a session.** `KnowledgeKept` and `AssessmentKept`. Some function
  gives the state after each number of events (`FoldIs`): an event extends it, and
  two that fit agree (`OneFollows`), so a rebuild is a stutter until answers
  overlapped (`contended`). The statements about sums, counts and misconceptions
  (`Matching`) are then inductive by themselves, because an answer in progress holds
  what its state would resolve (`InProgress`). Of the judgements it is enough that
  full coverage without an error is correct in every step (`FullIsCorrect`) and that
  each turn remembers its cap (`TurnKept`); that the two weighings agree is
  arithmetic (`QualityIs`, `DimensionIs`, `ScoreIs`). The reports of all answers and
  of the first ones read the same answer as the learner's own (`OwnAnswer`), so the
  scores of a question are within three tenths of the scale, and sums and averages of
  them as well (`SumsApart`, `QuotientsApart`, `OverallApart`).

Model-checked only:

- Liveness (`Settles`, `CallsEnd`, `AllReturn`), which TLAPS does not do.

Every property of a passing run but these is the statement of a theorem.

## 5. Statements the code does not keep, without a run of their own

Each module also defines what a reader might expect and the code does not
provide; TLC finds each violated in a variant of the module's run (the last with
three calls).

| Statement | Behaviour |
|---|---|
| `JobDelivery!LiveLeaseUndisturbed` (`architecture/V0_9_JOB_DELIVERY_HARDENING.md:128-130`) | `claim_job` dead-letters a job with exhausted attempts although another delivery holds it under a live lease |
| `JobDelivery!CancellationCommits` (same, 169-180) | recovery selects `running`, a cancelled running job is `cancelling`: if its worker is lost and the message discarded as revoked, nothing settles it |
| `JobDelivery!RunningHoldsLease` (a running job has a lease) | `fail_job` that loaded a job already settled as it settles it does not write the status, which did not change, but clears the token and the lease of the attempt that followed; it takes an operator retry, a failed publish whose message arrived, or a revoked membership and three deliveries. `RunningKeepsLease` says that no other commit does so |
| `ModelAdmission!LeaseReleased` (`architecture/V0_9_MODEL_GOVERNANCE.md:142-143`) | failing open, the lease is taken in memory and released on Redis |
| `LearnerMemory!BlockedRefusesWrites` (`api/V0_7_LONG_TERM_MEMORY_API.md:308`) | `complete_from_session` writes although a deletion blocks writes |
| `VoiceSession!MetricsCountTranscripts` | two events read the metrics before either commits; the later commit overwrites the count |
| `ReviewCases!PendingIsReviewable` | a request waits while its case was decided through the case's own endpoint: only an appeal lets anyone decide it |
| `ReviewCases!DecidedSaysWhat` | three calls: a late assignment leaves status `assigned` with the decision made meanwhile, a decision repeats it, and an appeal that loaded the case in between clears it first; the repeated decision then writes its status only |

Further consequences that are in the models' states and that no run claims or
denies:

- the endpoint that sets a data-subject request to `running` after the worker
  completed it leaves it running for good, and one that sets it before makes the
  worker refuse the request; an upload that commits while objects are being
  deleted leaves its object behind;
- `begin_deletion` neither locks the identity nor checks its target: a deletion
  whose target is unknown fails at every retry and its block stays; a process
  lost between its commit and the enqueueing leaves the block without a job;
  `execute_deletion` does not look at the audit's status;
- a voice session whose finalizer is lost stays `finalizing`, a reconnection
  overwrites that status, and a transcript added after the finalizer read the
  turns is never assessed;
- an export artifact is committed before its job, so a process lost in between
  leaves it queued; with two lost workers a completed artifact may describe
  other bytes than the object's;
- a late migrator puts the object of a deleted resource back; reconciliation may
  write `missing` over `deleted`; a project deletion that answers 503 "data was
  retained" has deleted the objects before the failing one;
- an operator retry keeps `celery_task_id`, so an API process lost before it
  publishes leaves a job orphan recovery skips;
- benchmarks accept datasets of any status (`evaluation/DATASET_VERSIONING.md:52`
  asks for `frozen`), do not store which prompts they ran under, and may measure
  two profiles under different ones; a dataset's manifest names the prompts as
  they are after its calls; a job whose worker is lost after it stored an item
  stores a second one; two overlapping activations may leave two active prompts,
  two overlapping generations the same number;
- the learner's page reads an attempt again after a failed request so as not to
  count twice (`static/exam.js:322-323`), but an answer served after that
  reading, or a reading that fails, still counts twice; an answer with the text of
  the one before is taken for counted and dropped; resuming forgets the attempt
  on any error; a lookup that is answered while an attempt is being begun enables
  the button again, and may show a report for an attempt that is not submitted;
- choosing a template or a provider enables the start button during a voice
  session (`static/app.js:225`, `737`): a second start leaves the first
  microphone live, a muted learner heard and events posted to another session;
  the `response.done` of a cancelled response disables the microphone while
  push-to-talk is held; a transcription after the end is lost;
- the normalizer tells an event without `event_id` again when it is delivered
  again (`architecture/V0_6_ADVANCED_CONVERSATION_TIMING.md:140-141`: duplicates
  must be idempotent); only the tests and its own package use it;
- the console's decision form posts to the case selected, which is not yet the
  one shown while its detail loads; overlapping loads of a list may show the
  older; two clicks on the next audit page append it twice; a policy is stored
  without a version, so the later of two administrators wins;
- the memory limiter keeps every window for good and limits each process by
  itself; fixed windows admit twice the limit around their border; the limits
  hold as long as clocks differ by no more than 5 seconds less the timeout;
- built-in slugs are looked up over all organizations: one that stored a template
  under a slug a later release ships makes every start of that release fail
  (`services/templates.py:491-494`), and so does a draft clone whose number the
  release ships; prompts a release adds are never stored once any exist; of two
  first starts at once one fails; the catalog offers what was created last, be it
  a clone of an old version;
- when the event a cursor names is aged, the reader starts again from the newest;
  a truncated export keeps the oldest rows; an event built before a window's end
  and committed after its export is in no export; the trigger checks the role and
  a setting, not `retention_until`.

## 6. Not modelled

Provider calls, prompts, scoring, parsing, rendering and reports are inputs to
the modelled parts and stay nondeterministic; so are the ranking of adaptive
questions, the estimator of long-term states and the contents of packages,
objects and exports. Template packages (import and export), the template
engine, agreement and policy evaluations and the quality lab are sequential
computations without state between steps. Token verification is cryptographic;
of the tenant filter the policies and their settings are modelled, the SQL that
expresses them is read once into `VisibleProjects` and its neighbours. Budgets
per request and session and the rate-limit windows per network address are left
out; those of model calls are in `RateWindows`. Of the browser client the pages
whose handlers overlap are modelled; the authoring pages and the console's forms
for members, quotas, retention and holds are not. Migrations other than 0010,
0011, 0014 and 0017 change schema and no meaning. SQLite, which serializes
writers, allows fewer interleavings than the PostgreSQL modelled here. Not
expressible with the tools at hand: liveness for all constants, which stays with
TLC.

## 7. Plan

Liveness stays with TLC. What could be modelled next are the authoring pages of
the browser client and the budgets per request.
