------------------------- MODULE OrganizationExports -------------------------
(***************************************************************************)
(* Exports of an organization's data: the artifact an administrator or an  *)
(* approved data-subject request asks for, the job that is enqueued for it *)
(* (JobEnqueue), the handler that builds the package, stores it and        *)
(* completes the artifact, and the endpoint that links the request.        *)
(*                                                                         *)
(* The handler's first flush locks the artifact's row until it commits or  *)
(* rolls back.  The object's key depends on the artifact alone: a handler  *)
(* that runs again writes over the bytes of the first, and its row is then *)
(* refused by the unique locator.  A worker may be lost anywhere, and a    *)
(* lease may lapse while its worker is alive.                              *)
(***************************************************************************)
EXTENDS JobEnqueue

CONSTANTS
    MaxAttempts,  \* job_max_attempts
    MaxLost       \* bound: workers lost, and leases that lapse under a live worker

ASSUME ExportsAssumption == MaxAttempts \in Nat \ {0} /\ MaxLost \in Nat

VARIABLES
    artifacts,  \* the artifact of each principal and key, or NoArtifact
    objects,    \* the attempt whose bytes the object store holds for an artifact, 0 for none
    dsrStatus,  \* status of the data-subject request to export, once approved
    dsrJob,     \* the request names a job
    runs,       \* handlers that are running
    lost        \* workers and leases lost so far

exportVars == <<artifacts, objects, dsrStatus, dsrJob, runs, lost>>

Artifacts == Actors \X JobKeys
NoArtifact == [status |-> "none"]

InitExports ==
    /\ InitEnqueue
    /\ artifacts = [a \in Artifacts |-> NoArtifact]
    /\ objects = [a \in Artifacts |-> 0]
    /\ dsrStatus = "approved" /\ dsrJob = FALSE
    /\ runs = {} /\ lost = 0

----------------------------------------------------------------------------
(* create_organization_export, and the approval or the retry of a request *)

\* An approved request that names no job yet, or the retry of a failed one.
Dispatchable == dsrStatus = "failed" \/ (dsrStatus = "approved" /\ ~dsrJob)

AskExport(c, actor, key, dsr) ==
    /\ clients[c] = Arriving
    /\ dsr => Dispatchable
    /\ dsrStatus' = IF dsr THEN "approved" ELSE dsrStatus
    /\ LET existing == artifacts[<<actor, key>>]
           place == IF existing = NoArtifact THEN "create"
                    ELSE IF existing.dsr = dsr THEN "returned" ELSE "refused"
       IN clients' = [clients EXCEPT ![c] =
              [at |-> place, actor |-> actor, key |-> key, payload |-> <<actor, key>>, dsr |-> dsr]]
    /\ UNCHANGED <<jobs, queue, artifacts, objects, dsrJob, runs, lost>>

\* The artifact is committed before its job; a second one is refused by the
\* unique key of principal and idempotency key.
CreateArtifact(c) ==
    LET a == clients[c].payload IN
    /\ At(c, "create")
    /\ IF artifacts[a] = NoArtifact
       THEN /\ artifacts' = [artifacts EXCEPT ![a] =
                    [status |-> "queued", dsr |-> clients[c].dsr, stored |-> 0]]
            /\ Go(c, "lookup")
       ELSE artifacts' = artifacts /\ Go(c, "refused")
    /\ UNCHANGED <<jobs, queue, objects, dsrStatus, dsrJob, runs, lost>>

Enqueue(c) == EnqueueStep(c) /\ UNCHANGED exportVars

\* refresh(artifact).
ReadArtifact(c) ==
    /\ At(c, "answered") /\ clients[c].dsr
    /\ Go(c, IF artifacts[clients[c].payload].status = "completed" THEN "completing" ELSE "running")
    /\ UNCHANGED <<jobs, queue, exportVars>>

\* Variant of Linked: the request is done as soon as its job was accepted.
LinkedAtOnce(place) == "completed"

\* The status the request is given, after the artifact that was read.
Linked(place) == IF place = "completing" THEN "completed" ELSE "running"

\* refresh(request) and the commit of its link.
LinkRequest(c) ==
    /\ clients[c].at \in {"completing", "running"}
    /\ dsrStatus' = Linked(clients[c].at)
    /\ dsrJob' = TRUE
    /\ Go(c, "returned")
    /\ UNCHANGED <<jobs, queue, artifacts, objects, runs, lost>>

----------------------------------------------------------------------------
(* _export_organization *)

ArtifactOf(run) == jobs[run.key].payload
Step(run, place) == runs' = (runs \ {run}) \cup {[run EXCEPT !.at = place]}
Locks(run) == run.at \in {"building", "stored"}
Unlocked(run) == \A other \in runs : Locks(other) => other.key # run.key

\* The delivery claims the job, or finds nothing to claim.
StartRun(k) ==
    /\ Deliver(k)
    /\ runs' = IF jobs[k].status = "queued"
               THEN runs \cup {[key |-> k, n |-> jobs[k].begun + 1, at |-> "begin"]} ELSE runs
    /\ UNCHANGED <<artifacts, objects, dsrStatus, dsrJob, lost>>

Holds(run) == jobs[run.key].status = "running" /\ jobs[run.key].begun = run.n

\* _job_or_error: nothing is marked failed when the job is no longer this run's.
CheckJob(run) ==
    /\ run.at = "begin"
    /\ Step(run, IF Holds(run) THEN "checked" ELSE "raised")
    /\ UNCHANGED <<enqueueVars, artifacts, objects, dsrStatus, dsrJob, lost>>

\* The flush of "running", which the transaction takes back if it fails.
LockArtifact(run) ==
    /\ run.at = "checked" /\ Unlocked(run)
    /\ Step(run, "building")
    /\ UNCHANGED <<enqueueVars, artifacts, objects, dsrStatus, dsrJob, lost>>

\* put_bytes, or an export that is too large, or a store that refuses it.
PutExport(run) ==
    /\ run.at = "building"
    /\ \/ Step(run, "stored") /\ objects' = [objects EXCEPT ![ArtifactOf(run)] = run.n]
       \/ Step(run, "failing") /\ objects' = objects
    /\ UNCHANGED <<enqueueVars, artifacts, dsrStatus, dsrJob, lost>>

\* The row of the object, the artifact and the request: one transaction.
CommitExport(run) ==
    LET a == ArtifactOf(run) IN
    /\ run.at = "stored"
    /\ IF artifacts[a].stored # 0   \* uq_stored_object_locator
       THEN Step(run, "failing") /\ UNCHANGED <<artifacts, dsrStatus>>
       ELSE /\ artifacts' = [artifacts EXCEPT ![a].status = "completed", ![a].stored = run.n]
            /\ dsrStatus' = IF artifacts[a].dsr THEN "completed" ELSE dsrStatus
            /\ Step(run, "done")
    /\ UNCHANGED <<enqueueVars, objects, dsrJob, lost>>

\* The second session of the except clause.
MarkExportFailed(run) ==
    LET a == ArtifactOf(run) IN
    /\ run.at = "failing" /\ Unlocked(run)
    /\ artifacts' = [artifacts EXCEPT ![a].status = "failed"]
    /\ dsrStatus' = IF artifacts[a].dsr THEN "failed" ELSE dsrStatus
    /\ Step(run, "raised")
    /\ UNCHANGED <<enqueueVars, objects, dsrJob, lost>>

\* complete_job or fail_job, which may schedule another attempt.
FinishRun(run) ==
    LET k == run.key
        outcomes == IF run.at = "done" THEN {"completed"}
                    ELSE {"failed"} \cup IF jobs[k].begun < MaxAttempts THEN {"queued"} ELSE {}
    IN
    /\ run.at \in {"done", "raised"}
    /\ runs' = runs \ {run}
    /\ IF Holds(run)
       THEN \E status \in outcomes :
              /\ jobs' = [jobs EXCEPT ![k].status = status]
              /\ queue' = IF status = "queued" THEN queue \cup {k} ELSE queue
       ELSE UNCHANGED <<jobs, queue>>
    /\ UNCHANGED <<clients, artifacts, objects, dsrStatus, dsrJob, lost>>

WorkerLost(run) ==
    /\ lost < MaxLost
    /\ lost' = lost + 1
    /\ runs' = runs \ {run}
    /\ UNCHANGED <<enqueueVars, artifacts, objects, dsrStatus, dsrJob>>

\* recover_stale_jobs reschedules a job whose lease has run out, or buries it.
LeaseLapses(k) ==
    LET live == \E run \in runs : run.key = k /\ Holds(run) IN
    /\ jobs[k].status = "running"
    /\ live => lost < MaxLost
    /\ lost' = IF live THEN lost + 1 ELSE lost
    /\ IF jobs[k].begun < MaxAttempts
       THEN jobs' = [jobs EXCEPT ![k].status = "queued"] /\ queue' = queue \cup {k}
       ELSE jobs' = [jobs EXCEPT ![k].status = "failed"] /\ queue' = queue
    /\ UNCHANGED <<clients, artifacts, objects, dsrStatus, dsrJob, runs>>

NextExports ==
    \/ \E c \in Clients :
        \/ \E actor \in Actors, key \in JobKeys, dsr \in BOOLEAN : AskExport(c, actor, key, dsr)
        \/ CreateArtifact(c) \/ Enqueue(c) \/ ReadArtifact(c) \/ LinkRequest(c)
        \/ ClientLost(c) /\ UNCHANGED exportVars
    \/ \E k \in JobKeys :
        \/ RecoverOrphan(k) /\ UNCHANGED exportVars
        \/ StartRun(k) \/ LeaseLapses(k)
    \/ \E run \in runs :
        \/ CheckJob(run) \/ LockArtifact(run) \/ PutExport(run) \/ CommitExport(run)
        \/ MarkExportFailed(run) \/ FinishRun(run) \/ WorkerLost(run)

ExportsSpec == InitExports /\ [][NextExports]_<<enqueueVars, exportVars>>

----------------------------------------------------------------------------
(* Properties *)

ExportsTypeOK ==
    /\ \A a \in Artifacts :
         \/ artifacts[a] = NoArtifact
         \/ /\ artifacts[a].status \in {"queued", "completed", "failed"}
            /\ artifacts[a].stored \in 0..MaxAttempts
    /\ objects \in [Artifacts -> 0..MaxAttempts]
    /\ dsrStatus \in {"approved", "running", "completed", "failed"}
    /\ \A run \in runs : run.n \in 1..MaxAttempts
    /\ lost \in 0..MaxLost

\* No handler is running for the job of the artifact, and none will.
Settled(a) ==
    /\ jobs[a[2]].status \in Ended
    /\ \A run \in runs : run.key # a[2]

\* An export that says it is completed is the one its object row describes, once
\* its job is settled, although a handler that runs again overwrites the object
\* before the unique locator stops it (data_lifecycle.py:659-684, jobs.py:397-438):
\* that needs two lost workers.  And a request that says completed has a completed
\* export, whatever order its handler and its endpoint link it in, as long as no
\* worker is lost (main.py:5558-5571).
CompletedExportsKept ==
    /\ \A a \in Artifacts :
         /\ jobs[a[2]] # NoJob /\ jobs[a[2]].payload = a /\ Settled(a) /\ lost < 2
         /\ artifacts[a].status = "completed"
         => objects[a] = artifacts[a].stored
    /\ dsrStatus = "completed" /\ lost = 0 =>
         \E a \in Artifacts : artifacts[a].status = "completed" /\ artifacts[a].dsr

\* Whoever asks for work gets their own, and what it left behind when it says
\* completed (services/jobs.py:86-159, data_lifecycle.py:659-684).
ExportsSound == EnqueueTypeOK /\ ExportsTypeOK /\ AnsweredWithOwnJob /\ CompletedExportsKept
=============================================================================
