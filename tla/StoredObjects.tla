---------------------------- MODULE StoredObjects ----------------------------
(***************************************************************************)
(* Where the bytes of documents, evidence and memory exports are: a file   *)
(* at the resource's legacy path, or an object in the store with a row     *)
(* that names it.  Uploads write the object before the row, deletions      *)
(* delete it before the row, and the migration moves files to objects,     *)
(* possibly twice at once, while rows are reconciled with the store.       *)
(*                                                                         *)
(* A step is one operation of the file system, the store or the database;  *)
(* any process may be lost between two of them, which takes back what its  *)
(* transaction has written, never what the store has.                      *)
(***************************************************************************)
EXTENDS Integers

CONSTANTS
    Resources,
    Migrators   \* runs of the migration command

VARIABLES
    places,     \* what each resource's row says: where its content is
    locators,   \* the status of the object row of each resource
    files,      \* resources whose legacy file exists
    store,      \* resources whose object exists
    inPlace,    \* resources whose legacy path is the path of the object itself
    migrators,  \* what each migrator is doing
    reported,   \* resources some checkpoint reports as completed
    writer,     \* an upload in progress
    deletion,   \* the deletion in progress: what it deletes and what is left to do
    asked,      \* resources somebody asked to delete
    survey      \* the statuses reconcile_storage loaded and those it will write

objectVars == <<places, locators, files, store, inPlace, migrators, reported, writer,
                deletion, asked, survey>>

NoSurvey == [r \in {} |-> "none"]
NoDeletion == [set |-> {}, todo |-> {}]
Waiting == [at |-> "waiting"]

InitObjects ==
    /\ places \in [Resources -> {"absent", "path"}]
    /\ locators = [r \in Resources |-> "none"]
    /\ files = {r \in Resources : places[r] = "path"}
    /\ inPlace \in SUBSET files
    /\ store = inPlace
    /\ migrators = [m \in Migrators |-> Waiting]
    /\ reported = {}
    /\ writer = "none" /\ deletion = NoDeletion
    /\ asked = {} /\ survey = NoSurvey

\* The object at the path of the file itself is that file.
Stored(r) == store' = store \cup {r} /\ files' = IF r \in inPlace THEN files \cup {r} ELSE files
Unstored(r) == store' = store \ {r} /\ files' = IF r \in inPlace THEN files \ {r} ELSE files

----------------------------------------------------------------------------
(* Upload: StorageService.store_bytes in the transaction of the resource *)

UploadPutObject(r) ==
    /\ writer = "none" /\ places[r] = "absent"
    /\ Stored(r)
    /\ writer' = r
    /\ UNCHANGED <<places, locators, inPlace, migrators, reported, deletion, asked, survey>>

UploadCommitRow ==
    /\ writer # "none"
    /\ places' = [places EXCEPT ![writer] = "object"]
    /\ locators' = [locators EXCEPT ![writer] = "active"]
    /\ writer' = "none"
    /\ UNCHANGED <<files, store, inPlace, migrators, reported, deletion, asked, survey>>

\* The new resource's identifier is not used again.
UploadStops ==
    /\ writer # "none"
    /\ places' = [places EXCEPT ![writer] = "gone"]
    /\ writer' = "none"
    /\ UNCHANGED <<locators, files, store, inPlace, migrators, reported, deletion, asked, survey>>

----------------------------------------------------------------------------
(* migrate_legacy_storage *)

Migrator(m, r, at) == migrators' = [migrators EXCEPT ![m] = [at |-> at, r |-> r]]
Leave(m) == migrators' = [migrators EXCEPT ![m] = Waiting]

\* The rows are listed once, with what they say then.
LoadRow(m, r) ==
    /\ migrators[m] = Waiting
    /\ places[r] \in {"path", "object"}
    /\ Migrator(m, r, IF places[r] = "object" THEN "verify" ELSE "source")
    /\ UNCHANGED <<places, locators, files, store, inPlace, reported, writer, deletion, asked,
                   survey>>

\* A resource with an object is verified and reported, or skipped: no path.
VerifyObject(m) ==
    LET r == migrators[m].r IN
    /\ migrators[m].at = "verify"
    /\ reported' = IF r \in store THEN reported \cup {r} ELSE reported
    /\ Leave(m)
    /\ UNCHANGED <<places, locators, files, store, inPlace, writer, deletion, asked, survey>>

ReadSource(m) ==
    LET r == migrators[m].r IN
    /\ migrators[m].at = "source"
    /\ IF r \in files THEN Migrator(m, r, "read") ELSE Leave(m)   \* source_missing
    /\ UNCHANGED <<places, locators, files, store, inPlace, reported, writer, deletion, asked,
                   survey>>

PutCopy(m) ==
    LET r == migrators[m].r IN
    /\ migrators[m].at = "read"
    /\ Stored(r)
    /\ Migrator(m, r, "put")
    /\ UNCHANGED <<places, locators, inPlace, reported, writer, deletion, asked, survey>>

\* The object's row, its verification and the resource's row, in one transaction;
\* a second row for the object or a resource that has gone rolls it back.
CommitCopy(m) ==
    LET r == migrators[m].r IN
    /\ migrators[m].at = "put"
    /\ IF locators[r] = "none" /\ places[r] # "gone" /\ r \in store
       THEN /\ locators' = [locators EXCEPT ![r] = "active"]
            /\ places' = [places EXCEPT ![r] = "object"]
            /\ Migrator(m, r, "committed")
       ELSE UNCHANGED <<locators, places>> /\ Leave(m)
    /\ UNCHANGED <<files, store, inPlace, reported, writer, deletion, asked, survey>>

\* Variant of Unlinked: the file goes, whatever it is.
UnlinkedAnyway(r) == files' = files \ {r} /\ store' = IF r \in inPlace THEN store \ {r} ELSE store

\* delete_source, unless the file is the object.
Unlinked(r) == files' = (IF r \in inPlace THEN files ELSE files \ {r}) /\ store' = store

UnlinkSource(m) ==
    LET r == migrators[m].r IN
    /\ migrators[m].at = "committed"
    /\ Unlinked(r) \/ UNCHANGED <<files, store>>   \* without --delete-source
    /\ reported' = reported \cup {r}
    /\ Leave(m)
    /\ UNCHANGED <<places, locators, inPlace, writer, deletion, asked, survey>>

\* An exception, whose transaction is rolled back, or a lost process.
MigratorStops(m) ==
    /\ migrators[m] # Waiting
    /\ Leave(m)
    /\ UNCHANGED <<places, locators, files, store, inPlace, reported, writer, deletion, asked,
                   survey>>

----------------------------------------------------------------------------
(* Deletion of a project or a learner: objects first, then one commit *)

BeginDeletion(chosen) ==
    /\ deletion = NoDeletion
    /\ chosen # {} /\ \A r \in chosen : places[r] \in {"path", "object"}
    /\ deletion' = [set |-> chosen, todo |-> {r \in chosen : locators[r] \in {"active", "missing"}}]
    /\ asked' = asked \cup chosen
    /\ UNCHANGED <<places, locators, files, store, inPlace, migrators, reported, writer, survey>>

DeleteStored(r) ==
    /\ r \in deletion.todo
    /\ Unstored(r)
    /\ deletion' = [deletion EXCEPT !.todo = @ \ {r}]
    /\ UNCHANGED <<places, locators, inPlace, migrators, reported, writer, asked, survey>>

CommitDeletionOfRows ==
    /\ deletion # NoDeletion /\ deletion.todo = {}
    /\ places' = [r \in Resources |-> IF r \in deletion.set THEN "gone" ELSE places[r]]
    /\ locators' = [r \in Resources |->
            IF r \in deletion.set /\ locators[r] # "none" THEN "deleted" ELSE locators[r]]
    /\ deletion' = NoDeletion
    /\ UNCHANGED <<files, store, inPlace, migrators, reported, writer, asked, survey>>

DeletionStops ==
    /\ deletion # NoDeletion
    /\ deletion' = NoDeletion
    /\ UNCHANGED <<places, locators, files, store, inPlace, migrators, reported, writer, asked,
                   survey>>

----------------------------------------------------------------------------
(* reconcile_storage *)

LoadStatuses ==
    LET present == {r \in Resources : locators[r] \in {"active", "missing"}} IN
    /\ survey = NoSurvey /\ present # {}
    /\ survey' = [r \in present |-> [seen |-> locators[r], found |-> "unknown"]]
    /\ UNCHANGED <<places, locators, files, store, inPlace, migrators, reported, writer,
                   deletion, asked>>

CheckObject(r) ==
    /\ r \in DOMAIN survey /\ survey[r].found = "unknown"
    /\ survey' = [survey EXCEPT ![r].found = IF r \in store THEN "active" ELSE "missing"]
    /\ UNCHANGED <<places, locators, files, store, inPlace, migrators, reported, writer,
                   deletion, asked>>

\* Only the statuses that differ from the loaded ones are written.
CommitStatuses ==
    /\ survey # NoSurvey /\ \A r \in DOMAIN survey : survey[r].found # "unknown"
    /\ locators' = [r \in Resources |->
            IF r \in DOMAIN survey /\ survey[r].found # survey[r].seen THEN survey[r].found
            ELSE locators[r]]
    /\ survey' = NoSurvey
    /\ UNCHANGED <<places, files, store, inPlace, migrators, reported, writer, deletion, asked>>

NextObjects ==
    \/ \E r \in Resources : UploadPutObject(r) \/ DeleteStored(r) \/ CheckObject(r)
    \/ UploadCommitRow \/ UploadStops
    \/ \E m \in Migrators :
        \/ \E r \in Resources : LoadRow(m, r)
        \/ VerifyObject(m) \/ ReadSource(m) \/ PutCopy(m) \/ CommitCopy(m) \/ UnlinkSource(m)
        \/ MigratorStops(m)
    \/ \E chosen \in SUBSET Resources : BeginDeletion(chosen)
    \/ CommitDeletionOfRows \/ DeletionStops
    \/ LoadStatuses \/ CommitStatuses

ObjectsSpec == InitObjects /\ [][NextObjects]_objectVars

----------------------------------------------------------------------------
(* Properties *)

ObjectsTypeOK ==
    /\ places \in [Resources -> {"absent", "path", "object", "gone"}]
    /\ locators \in [Resources -> {"none", "active", "missing", "deleted"}]
    /\ files \cup store \cup inPlace \cup reported \cup asked \subseteq Resources
    /\ writer \in Resources \cup {"none"}
    /\ deletion.todo \subseteq deletion.set

\* Nobody loses content that nobody asked to delete: whatever uploads, two
\* migrations that delete their sources and a reconciliation do at the same time,
\* and wherever one of them stops, the place a resource's row names holds it, and
\* what a checkpoint reports as completed is in the store
\* (storage.py:410-431, storage_migration.py:116-190).
ContentKept == ObjectsTypeOK /\
    \A r \in Resources \ asked :
        /\ places[r] = "path" => r \in files
        /\ places[r] = "object" => r \in store /\ locators[r] = "active"
        /\ r \in reported => places[r] = "object"
=============================================================================
