----------------------------- MODULE JobEnqueue -----------------------------
(***************************************************************************)
(* How requests turn into background jobs: the lookup of enqueue_job by    *)
(* idempotency key, the insert that a concurrent request may have made     *)
(* first, the publication, and the row that says the queue was not there.  *)
(*                                                                         *)
(* Each step of a client is one transaction or one call of the broker.     *)
(* What happens to a job once a worker has claimed it is JobDelivery's     *)
(* subject; here it runs and ends.                                         *)
(***************************************************************************)
EXTENDS Integers

CONSTANTS
    Clients,   \* API requests that enqueue
    Actors,    \* principals they act for
    JobKeys,   \* idempotency keys, all of one organization and one kind of job
    Payloads   \* job payloads

VARIABLES
    jobs,     \* the job under each key, or NoJob
    queue,    \* keys of the jobs the broker holds a message for
    clients   \* where each request is

enqueueVars == <<jobs, queue, clients>>

NoJob == [status |-> "none"]
Arriving == [at |-> "arriving"]
Ended == {"completed", "failed"}

InitEnqueue ==
    /\ jobs = [k \in JobKeys |-> NoJob]
    /\ queue = {}
    /\ clients = [c \in Clients |-> Arriving]

At(c, place) == clients[c].at = place
Go(c, place) == clients' = [clients EXCEPT ![c].at = place]

\* The job a request with this actor and payload may be answered with.
SameRequest(job, client) == job.actor = client.actor /\ job.payload = client.payload

----------------------------------------------------------------------------
(* enqueue_job *)

\* The validation that precedes the lookup.
AsClient(actor, key, payload) ==
    [at |-> "lookup", actor |-> actor, key |-> key, payload |-> payload]

LookUpJob(c) ==
    LET client == clients[c] IN
    /\ At(c, "lookup")
    /\ \/ jobs[client.key] = NoJob /\ Go(c, "insert")
       \/ /\ jobs[client.key] # NoJob
          /\ Go(c, IF SameRequest(jobs[client.key], client) THEN "answered" ELSE "refused")
    /\ UNCHANGED <<jobs, queue>>

NewJob(client) ==
    [status |-> "queued", actor |-> client.actor, payload |-> client.payload,
     task |-> FALSE, begun |-> 0]

\* Variant of InsertJob: the job another request inserted is the answer, unchecked.
InsertJobOrTake(c) ==
    LET client == clients[c] IN
    /\ At(c, "insert")
    /\ IF jobs[client.key] = NoJob
       THEN jobs' = [jobs EXCEPT ![client.key] = NewJob(client)] /\ Go(c, "publish")
       ELSE jobs' = jobs /\ Go(c, "answered")
    /\ queue' = queue

\* The unique key of the table refuses a second job: it is read again.
InsertJob(c) ==
    LET client == clients[c] IN
    /\ At(c, "insert")
    /\ IF jobs[client.key] = NoJob
       THEN jobs' = [jobs EXCEPT ![client.key] = NewJob(client)] /\ Go(c, "publish")
       ELSE /\ jobs' = jobs
            /\ Go(c, IF SameRequest(jobs[client.key], client) THEN "answered" ELSE "refused")
    /\ queue' = queue

\* delay(), which may raise although the broker has the message.
PublishJob(c) ==
    /\ At(c, "publish")
    /\ \/ queue' = queue \cup {clients[c].key} /\ Go(c, "record")
       \/ queue' \in {queue, queue \cup {clients[c].key}} /\ Go(c, "undelivered")
    /\ jobs' = jobs

RecordTask(c) ==
    /\ At(c, "record")
    /\ jobs' = [jobs EXCEPT ![clients[c].key].task = TRUE]
    /\ Go(c, "answered")
    /\ queue' = queue

\* expire_all and get: a job that a worker has is the answer after all.
ReadUndelivered(c) ==
    /\ At(c, "undelivered")
    /\ Go(c, IF jobs[clients[c].key].status = "queued" THEN "failing" ELSE "answered")
    /\ UNCHANGED <<jobs, queue>>

\* queue_unavailable, written to the row by its primary key.
WriteUndelivered(c) ==
    /\ At(c, "failing")
    /\ jobs' = [jobs EXCEPT ![clients[c].key].status = "failed"]
    /\ Go(c, "unavailable")
    /\ queue' = queue

EnqueueStep(c) ==
    LookUpJob(c) \/ InsertJob(c) \/ PublishJob(c) \/ RecordTask(c) \/ ReadUndelivered(c)
        \/ WriteUndelivered(c)

InEnqueue(c) == clients[c].at \in {"lookup", "insert", "publish", "record", "undelivered", "failing"}

\* The API process stops.
ClientLost(c) == InEnqueue(c) /\ Go(c, "lost") /\ UNCHANGED <<jobs, queue>>

----------------------------------------------------------------------------
(* The job's life after that, as far as the requests can tell *)

\* recover_orphaned_queued_jobs publishes a queued job without a task id once it
\* is old enough, which it is when nobody is publishing it any more.
RecoverOrphan(k) ==
    /\ jobs[k].status = "queued" /\ ~jobs[k].task
    /\ \A c \in Clients : clients[c].at \in {"publish", "record", "undelivered", "failing"}
                             => clients[c].key # k
    /\ queue' = queue \cup {k}
    /\ jobs' = [jobs EXCEPT ![k].task = TRUE]
    /\ clients' = clients

\* A delivery claims the job, or finds that there is nothing to claim.
Deliver(k) ==
    /\ k \in queue
    /\ queue' = queue \ {k}
    /\ jobs' = IF jobs[k].status = "queued"
               THEN [jobs EXCEPT ![k].status = "running", ![k].begun = @ + 1] ELSE jobs
    /\ clients' = clients

End(k) ==
    /\ jobs[k].status = "running"
    /\ \E status \in Ended : jobs' = [jobs EXCEPT ![k].status = status]
    /\ UNCHANGED <<queue, clients>>

NextEnqueue ==
    \/ \E c \in Clients :
        \/ \E actor \in Actors, key \in JobKeys, payload \in Payloads :
             /\ clients[c] = Arriving
             /\ clients' = [clients EXCEPT ![c] = AsClient(actor, key, payload)]
             /\ UNCHANGED <<jobs, queue>>
        \/ EnqueueStep(c) \/ ClientLost(c)
    \/ \E k \in JobKeys : RecoverOrphan(k) \/ Deliver(k) \/ End(k)

----------------------------------------------------------------------------
(* Properties *)

EnqueueTypeOK ==
    /\ \A k \in JobKeys :
         \/ jobs[k] = NoJob
         \/ /\ jobs[k].status \in {"queued", "running"} \cup Ended
            /\ jobs[k].actor \in Actors /\ jobs[k].begun \in Nat
    /\ queue \subseteq JobKeys

\* Whichever of several requests under one idempotency key came first, and
\* however their lookups and inserts interleave, a request that is answered with
\* a job got one that acts for its own principal on its own payload
\* (services/jobs.py:86-159).
AnsweredWithOwnJob ==
    \A c \in Clients : At(c, "answered") =>
        /\ jobs[clients[c].key] # NoJob
        /\ SameRequest(jobs[clients[c].key], clients[c])
=============================================================================
