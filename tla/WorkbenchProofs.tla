--------------------------- MODULE WorkbenchProofs ---------------------------
(***************************************************************************)
(* Proofs about five parts of the workbench: stored content, which nobody  *)
(* loses (StoredObjects), template versions, whose publications stay what  *)
(* was evaluated (TemplateLifecycle), the audit trail, which misses no     *)
(* change it should tell of (RequestAudit), exports, which are what they   *)
(* say they are when they say completed (OrganizationExports), and what    *)
(* the processes of all releases store before they serve                   *)
(* (TemplateSeeding).                                                      *)
(***************************************************************************)
EXTENDS StoredObjects, TemplateLifecycle, RequestAudit, OrganizationExports,
        TemplateSeeding, FiniteSetTheorems, SequenceTheorems, WellFoundedInduction, TLAPS

----------------------------------------------------------------------------
(* Stored content: the inductive invariant *)

Stages == {"verify", "source", "read", "put", "committed"}

ObjectsTyped ==
    /\ places \in [Resources -> {"absent", "path", "object", "gone"}]
    /\ locators \in [Resources -> {"none", "active", "missing", "deleted"}]
    /\ files \subseteq Resources /\ store \subseteq Resources /\ inPlace \subseteq Resources
    /\ reported \subseteq Resources /\ asked \subseteq Resources
    /\ writer \in Resources \cup {"none"}
    /\ migrators \in [Migrators -> {Waiting} \cup [at : Stages, r : Resources]]
    /\ deletion \in [set : SUBSET Resources, todo : SUBSET Resources]
    /\ DOMAIN survey \subseteq Resources
    /\ survey \in [DOMAIN survey -> [seen  : {"active", "missing"},
                                     found : {"unknown", "active", "missing"}]]

\* An upload has put its object; nobody else knows its resource yet.
Uploading ==
    writer # "none" => /\ places[writer] = "absent" /\ writer \in store
                       /\ writer \notin asked

\* What is deleted, or left to delete, was asked for and existed then.
Deleting ==
    /\ deletion.todo \subseteq deletion.set /\ deletion.set \subseteq asked
    /\ \A r \in asked : places[r] # "absent"

\* A migrator has a resource whose row it has seen, and unlinks only the source
\* of one that has its object.
Migrating ==
    \A m \in Migrators : migrators[m] # Waiting =>
        /\ places[migrators[m].r] # "absent"
        /\ migrators[m].at \in {"verify", "committed"} /\ migrators[m].r \notin asked =>
             places[migrators[m].r] = "object"

\* A reconciliation finds the object of what nobody asked to delete.
Surveying ==
    \A r \in DOMAIN survey \ asked :
        /\ places[r] = "object" /\ survey[r].seen = "active"
        /\ survey[r].found \in {"unknown", "active"}

\* Only a resource in the store has an object row.
Located ==
    \A r \in Resources \ asked :
        /\ places[r] = "path" => r \in files
        /\ places[r] = "object" => r \in store /\ locators[r] = "active"
        /\ locators[r] # "none" => places[r] = "object"
        /\ r \in reported => places[r] = "object"

ObjectsHeld == ObjectsTyped /\ Uploading /\ Deleting /\ Migrating /\ Surveying /\ Located

LEMMA ObjectsStart == InitObjects => ObjectsHeld
  BY DEF InitObjects, ObjectsHeld, ObjectsTyped, Uploading, Deleting, Migrating, Surveying,
         Located, NoSurvey, NoDeletion, Waiting

----------------------------------------------------------------------------
(* Every step keeps it *)

LEMMA UploadsKeep ==
    ASSUME ObjectsHeld
    PROVE  /\ \A r \in Resources : UploadPutObject(r) => ObjectsHeld'
           /\ UploadCommitRow => ObjectsHeld'
           /\ UploadStops => ObjectsHeld'
<1> USE DEF ObjectsHeld
<1>1. ASSUME NEW r \in Resources, UploadPutObject(r) PROVE ObjectsHeld'
  <2>1. r \notin asked /\ r \in store' /\ store \subseteq store' /\ files \subseteq files'
    BY <1>1 DEF UploadPutObject, Stored, Deleting
  <2>2. ObjectsTyped'
    BY <1>1 DEF UploadPutObject, Stored, ObjectsTyped
  <2>3. Uploading' /\ Deleting' /\ Migrating' /\ Surveying'
    BY <1>1, <2>1 DEF UploadPutObject, Uploading, Deleting, Migrating, Surveying
  <2>4. Located'
    BY <1>1, <2>1 DEF UploadPutObject, Located
  <2> QED BY <2>2, <2>3, <2>4
<1>2. ASSUME UploadCommitRow PROVE ObjectsHeld'
  <2>1. writer \in Resources /\ places[writer] = "absent" /\ writer \in store /\ writer \notin asked
    BY <1>2 DEF UploadCommitRow, ObjectsTyped, Uploading
  <2>2. ObjectsTyped'
    BY <1>2, <2>1 DEF UploadCommitRow, ObjectsTyped
  <2>3. Uploading' /\ Deleting' /\ Migrating'
    BY <1>2, <2>1 DEF UploadCommitRow, ObjectsTyped, Uploading, Deleting, Migrating
  <2>4. Surveying' /\ Located'
    BY <1>2, <2>1 DEF UploadCommitRow, ObjectsTyped, Surveying, Located
  <2> QED BY <2>2, <2>3, <2>4
<1>3. ASSUME UploadStops PROVE ObjectsHeld'
  <2>1. writer \in Resources /\ places[writer] = "absent" /\ writer \in store /\ writer \notin asked
    BY <1>3 DEF UploadStops, ObjectsTyped, Uploading
  <2>2. ObjectsTyped'
    BY <1>3, <2>1 DEF UploadStops, ObjectsTyped
  <2>3. Uploading' /\ Deleting' /\ Migrating'
    BY <1>3, <2>1 DEF UploadStops, ObjectsTyped, Uploading, Deleting, Migrating
  <2>4. Surveying' /\ Located'
    BY <1>3, <2>1 DEF UploadStops, ObjectsTyped, Surveying, Located
  <2> QED BY <2>2, <2>3, <2>4
<1> QED BY <1>1, <1>2, <1>3

\* A migrator that goes on with its resource, or leaves it.
LEMMA MigratorType ==
    ASSUME ObjectsTyped, NEW m \in Migrators
    PROVE  /\ \A r \in Resources, at \in Stages : Migrator(m, r, at) =>
                /\ migrators' \in [Migrators -> {Waiting} \cup [at : Stages, r : Resources]]
                /\ migrators'[m].at = at /\ migrators'[m].r = r
                /\ \A n \in Migrators : n # m => migrators'[n] = migrators[n]
           /\ Leave(m) =>
                /\ migrators' \in [Migrators -> {Waiting} \cup [at : Stages, r : Resources]]
                /\ migrators'[m] = Waiting
                /\ \A n \in Migrators : n # m => migrators'[n] = migrators[n]
           /\ migrators[m].at \in Stages => migrators[m].r \in Resources /\ migrators[m] # Waiting
           /\ migrators[m] # Waiting => migrators[m].at \in Stages /\ migrators[m].r \in Resources
  BY DEF ObjectsTyped, Migrator, Leave, Waiting, Stages

LEMMA MigratorsLoad ==
    ASSUME ObjectsHeld, NEW m \in Migrators, NEW r \in Resources, LoadRow(m, r)
    PROVE  ObjectsHeld'
<1> USE DEF ObjectsHeld
<1>1. PICK at \in {"verify", "source"} : Migrator(m, r, at) /\ (at = "verify" <=> places[r] = "object")
  BY DEF LoadRow
<1>2. at \in Stages
  BY DEF Stages
<1>3. ObjectsTyped'
  BY <1>1, <1>2, MigratorType DEF LoadRow, ObjectsTyped
<1>4. Migrating'
  BY <1>1, <1>2, MigratorType DEF LoadRow, Migrating
<1>5. Uploading' /\ Deleting' /\ Surveying' /\ Located'
  BY DEF LoadRow, Uploading, Deleting, Surveying, Located
<1> QED BY <1>3, <1>4, <1>5

LEMMA MigratorsVerify ==
    ASSUME ObjectsHeld, NEW m \in Migrators, VerifyObject(m)
    PROVE  ObjectsHeld'
<1> USE DEF ObjectsHeld
<1> DEFINE r == migrators[m].r
<1>1. r \in Resources /\ migrators[m] # Waiting
  BY MigratorType DEF VerifyObject, Stages
<1>2. r \notin asked => places[r] = "object"
  BY <1>1 DEF VerifyObject, Migrating
<1>3. Leave(m) /\ UNCHANGED <<places, locators, files, store, inPlace, writer, deletion, asked, survey>>
      /\ reported' \in {reported, reported \cup {r}}
  BY DEF VerifyObject
<1>4. ObjectsTyped'
  BY <1>1, <1>3, MigratorType DEF ObjectsTyped
<1>5. Migrating'
  BY <1>3, MigratorType DEF Migrating
<1>6. Uploading' /\ Deleting' /\ Surveying'
  BY <1>3 DEF Uploading, Deleting, Surveying
<1>7. Located'
  BY <1>1, <1>2, <1>3 DEF Located
<1> QED BY <1>4, <1>5, <1>6, <1>7

LEMMA MigratorsRead ==
    ASSUME ObjectsHeld, NEW m \in Migrators, ReadSource(m) \/ MigratorStops(m)
    PROVE  ObjectsHeld'
<1> USE DEF ObjectsHeld
<1> DEFINE r == migrators[m].r
<1>1. r \in Resources /\ migrators[m] # Waiting
  BY MigratorType DEF ReadSource, MigratorStops, Stages
<1>2. (Migrator(m, r, "read") \/ Leave(m)) /\ UNCHANGED <<places, locators, files, store, inPlace,
        reported, writer, deletion, asked, survey>>
  BY DEF ReadSource, MigratorStops
<1>3. ObjectsTyped'
  BY <1>1, <1>2, MigratorType DEF ObjectsTyped, Stages
<1>4. Migrating'
  BY <1>1, <1>2, MigratorType DEF Migrating, Stages
<1>5. Uploading' /\ Deleting' /\ Surveying' /\ Located'
  BY <1>2 DEF Uploading, Deleting, Surveying, Located
<1> QED BY <1>3, <1>4, <1>5

LEMMA MigratorsPut ==
    ASSUME ObjectsHeld, NEW m \in Migrators, PutCopy(m)
    PROVE  ObjectsHeld'
<1> USE DEF ObjectsHeld
<1> DEFINE r == migrators[m].r
<1>1. r \in Resources /\ migrators[m] # Waiting
  BY MigratorType DEF PutCopy, Stages
<1>2. Migrator(m, r, "put") /\ UNCHANGED <<places, locators, inPlace, reported, writer, deletion,
        asked, survey>>
  BY DEF PutCopy
<1>3. store' = store \cup {r} /\ (files' = files \/ files' = files \cup {r})
  BY DEF PutCopy, Stored
<1>4. ObjectsTyped'
  BY <1>1, <1>2, <1>3, MigratorType DEF ObjectsTyped, Stages
<1>5. Migrating'
  BY <1>1, <1>2, MigratorType DEF Migrating, Stages
<1>6. Uploading' /\ Deleting' /\ Surveying' /\ Located'
  BY <1>2, <1>3 DEF Uploading, Deleting, Surveying, Located
<1> QED BY <1>4, <1>5, <1>6

LEMMA MigratorsCommit ==
    ASSUME ObjectsHeld, NEW m \in Migrators, CommitCopy(m)
    PROVE  ObjectsHeld'
<1> USE DEF ObjectsHeld
<1> DEFINE r == migrators[m].r
<1>1. r \in Resources /\ migrators[m] # Waiting /\ places[r] # "absent"
  BY MigratorType DEF CommitCopy, Stages, Migrating
<1>2. UNCHANGED <<files, store, inPlace, reported, writer, deletion, asked, survey>>
  BY DEF CommitCopy
<1>3. CASE locators[r] = "none" /\ places[r] # "gone" /\ r \in store
  <2>1. /\ locators' = [locators EXCEPT ![r] = "active"]
        /\ places' = [places EXCEPT ![r] = "object"]
        /\ Migrator(m, r, "committed")
    BY <1>3 DEF CommitCopy
  <2>2. ObjectsTyped'
    BY <1>1, <1>2, <2>1, MigratorType DEF ObjectsTyped, Stages
  <2>3. Migrating'
    BY <1>1, <1>2, <2>1, MigratorType DEF Migrating, ObjectsTyped, Stages
  <2>4. Uploading' /\ Deleting' /\ Surveying'
    BY <1>1, <1>2, <2>1 DEF Uploading, Deleting, Surveying, ObjectsTyped
  <2>5. Located'
    BY <1>1, <1>2, <1>3, <2>1 DEF Located, ObjectsTyped
  <2> QED BY <2>2, <2>3, <2>4, <2>5
<1>4. CASE UNCHANGED <<locators, places>> /\ Leave(m)
  <2>1. ObjectsTyped'
    BY <1>2, <1>4, MigratorType DEF ObjectsTyped
  <2>2. Migrating'
    BY <1>2, <1>4, MigratorType DEF Migrating
  <2>3. Uploading' /\ Deleting' /\ Surveying' /\ Located'
    BY <1>2, <1>4 DEF Uploading, Deleting, Surveying, Located
  <2> QED BY <2>1, <2>2, <2>3
<1> QED BY <1>3, <1>4 DEF CommitCopy

LEMMA MigratorsUnlink ==
    ASSUME ObjectsHeld, NEW m \in Migrators, UnlinkSource(m)
    PROVE  ObjectsHeld'
<1> USE DEF ObjectsHeld
<1> DEFINE r == migrators[m].r
<1>1. r \in Resources /\ migrators[m] # Waiting
  BY MigratorType DEF UnlinkSource, Stages
<1>2. r \notin asked => places[r] = "object"
  BY <1>1 DEF UnlinkSource, Migrating
<1>3. Leave(m) /\ UNCHANGED <<places, locators, inPlace, writer, deletion, asked, survey>>
      /\ reported' = reported \cup {r}
  BY DEF UnlinkSource
<1>4. store' = store /\ files' \subseteq files /\ files \subseteq files' \cup {r}
  BY DEF UnlinkSource, Unlinked
<1>5. ObjectsTyped'
  BY <1>1, <1>3, <1>4, MigratorType DEF ObjectsTyped
<1>6. Migrating'
  BY <1>3, MigratorType DEF Migrating
<1>7. Uploading' /\ Deleting' /\ Surveying'
  BY <1>3, <1>4 DEF Uploading, Deleting, Surveying
<1>8. Located'
  BY <1>1, <1>2, <1>3, <1>4 DEF Located
<1> QED BY <1>5, <1>6, <1>7, <1>8

LEMMA DeletionsKeep ==
    ASSUME ObjectsHeld
    PROVE  /\ \A chosen \in SUBSET Resources : BeginDeletion(chosen) => ObjectsHeld'
           /\ \A r \in Resources : DeleteStored(r) => ObjectsHeld'
           /\ CommitDeletionOfRows => ObjectsHeld'
           /\ DeletionStops => ObjectsHeld'
<1> USE DEF ObjectsHeld
<1>1. ASSUME NEW chosen \in SUBSET Resources, BeginDeletion(chosen) PROVE ObjectsHeld'
  <2>1. /\ deletion' \in [set : SUBSET Resources, todo : SUBSET Resources]
        /\ deletion'.todo \subseteq deletion'.set /\ deletion'.set = chosen
        /\ asked' = asked \cup chosen /\ asked' \subseteq Resources
        /\ \A r \in chosen : places[r] # "absent"
    BY <1>1 DEF BeginDeletion, ObjectsTyped
  <2>2. UNCHANGED <<places, locators, files, store, inPlace, migrators, reported, writer, survey>>
    BY <1>1 DEF BeginDeletion
  <2>3. ObjectsTyped'
    BY <2>1, <2>2 DEF ObjectsTyped
  <2>4. Uploading' /\ Deleting' /\ Migrating'
    BY <2>1, <2>2 DEF Uploading, Deleting, Migrating
  <2>5. Surveying' /\ Located'
    BY <2>1, <2>2 DEF Surveying, Located
  <2> QED BY <2>3, <2>4, <2>5
<1>2. ASSUME NEW r \in Resources, DeleteStored(r) PROVE ObjectsHeld'
  <2>1. r \in asked /\ places[r] # "absent" /\ (writer # "none" => r # writer)
    BY <1>2 DEF DeleteStored, Deleting, Uploading, ObjectsTyped
  <2>2. /\ store' = store \ {r} /\ files' \subseteq files /\ files \subseteq files' \cup {r}
        /\ UNCHANGED <<places, locators, inPlace, migrators, reported, writer, asked, survey>>
    BY <1>2 DEF DeleteStored, Unstored
  <2>3. deletion' \in [set : SUBSET Resources, todo : SUBSET Resources]
        /\ deletion'.set = deletion.set /\ deletion'.todo \subseteq deletion.todo
    BY <1>2 DEF DeleteStored, ObjectsTyped
  <2>4. ObjectsTyped'
    BY <2>2, <2>3 DEF ObjectsTyped
  <2>5. Uploading' /\ Deleting' /\ Migrating' /\ Surveying'
    BY <2>1, <2>2, <2>3 DEF Uploading, Deleting, Migrating, Surveying
  <2>6. Located'
    BY <2>1, <2>2 DEF Located
  <2> QED BY <2>4, <2>5, <2>6
<1>3. ASSUME CommitDeletionOfRows PROVE ObjectsHeld'
  <2>1. UNCHANGED <<files, store, inPlace, migrators, reported, writer, asked, survey>>
        /\ deletion' = NoDeletion
    BY <1>3 DEF CommitDeletionOfRows
  <2>2. \A r \in Resources : r \notin asked => places'[r] = places[r] /\ locators'[r] = locators[r]
    BY <1>3 DEF CommitDeletionOfRows, Deleting
  <2>3. \A r \in Resources : places'[r] = places[r] \/ (places'[r] = "gone" /\ r \in asked)
    BY <1>3 DEF CommitDeletionOfRows, Deleting
  <2>4. ObjectsTyped'
    BY <1>3, <2>1 DEF CommitDeletionOfRows, NoDeletion, ObjectsTyped
  <2>5. Uploading' /\ Deleting'
    BY <2>1, <2>2, <2>3 DEF Uploading, Deleting, ObjectsTyped, NoDeletion
  <2>6. Migrating'
    BY <2>1, <2>2, <2>3, MigratorType DEF Migrating
  <2>7. Surveying' /\ Located'
    BY <2>1, <2>2 DEF Surveying, Located, ObjectsTyped
  <2> QED BY <2>4, <2>5, <2>6, <2>7
<1>4. ASSUME DeletionStops PROVE ObjectsHeld'
  BY <1>4 DEF DeletionStops, NoDeletion, ObjectsTyped, Uploading, Deleting, Migrating, Surveying,
              Located
<1> QED BY <1>1, <1>2, <1>3, <1>4

LEMMA SurveysKeep ==
    ASSUME ObjectsHeld
    PROVE  /\ LoadStatuses => ObjectsHeld'
           /\ \A r \in Resources : CheckObject(r) => ObjectsHeld'
           /\ CommitStatuses => ObjectsHeld'
<1> USE DEF ObjectsHeld
<1>1. ASSUME LoadStatuses PROVE ObjectsHeld'
  <2> DEFINE present == {r \in Resources : locators[r] \in {"active", "missing"}}
  <2>1. survey' = [r \in present |-> [seen |-> locators[r], found |-> "unknown"]]
        /\ UNCHANGED <<places, locators, files, store, inPlace, migrators, reported, writer,
                       deletion, asked>>
    BY <1>1 DEF LoadStatuses
  <2>2. ObjectsTyped'
    BY <2>1 DEF ObjectsTyped
  <2>3. Surveying'
    BY <2>1 DEF Surveying, Located
  <2>4. Uploading' /\ Deleting' /\ Migrating' /\ Located'
    BY <2>1 DEF Uploading, Deleting, Migrating, Located
  <2> QED BY <2>2, <2>3, <2>4
<1>2. ASSUME NEW r \in Resources, CheckObject(r) PROVE ObjectsHeld'
  <2> DEFINE answer == IF r \in store THEN "active" ELSE "missing"
             checked == [survey[r] EXCEPT !.found = answer]
  <2>1. survey' = [survey EXCEPT ![r] = checked] /\ r \in DOMAIN survey
        /\ UNCHANGED <<places, locators, files, store, inPlace, migrators, reported, writer,
                       deletion, asked>>
    BY <1>2 DEF CheckObject
  <2>2. checked \in [seen : {"active", "missing"}, found : {"unknown", "active", "missing"}]
        /\ checked.seen = survey[r].seen /\ checked.found = answer
    BY <2>1 DEF ObjectsTyped
  <2>3. r \notin asked => r \in store
    BY <2>1 DEF Surveying, Located
  <2> HIDE DEF checked
  <2>4. ObjectsTyped'
    BY <2>1, <2>2 DEF ObjectsTyped
  <2>5. Surveying'
    BY <2>1, <2>2, <2>3 DEF Surveying, ObjectsTyped
  <2>6. Uploading' /\ Deleting' /\ Migrating' /\ Located'
    BY <2>1 DEF Uploading, Deleting, Migrating, Located
  <2> QED BY <2>4, <2>5, <2>6
<1>3. ASSUME CommitStatuses PROVE ObjectsHeld'
  <2>1. UNCHANGED <<places, files, store, inPlace, migrators, reported, writer, deletion, asked>>
        /\ survey' = NoSurvey
    BY <1>3 DEF CommitStatuses
  <2>2. \A r \in Resources : r \notin asked => locators'[r] = locators[r]
    BY <1>3 DEF CommitStatuses, Surveying
  <2>3. locators' \in [Resources -> {"none", "active", "missing", "deleted"}]
    BY <1>3 DEF CommitStatuses, ObjectsTyped
  <2>4. ObjectsTyped'
    BY <2>1, <2>3 DEF ObjectsTyped, NoSurvey
  <2>5. Surveying' /\ Located'
    BY <2>1, <2>2 DEF Surveying, Located, NoSurvey
  <2>6. Uploading' /\ Deleting' /\ Migrating'
    BY <2>1 DEF Uploading, Deleting, Migrating
  <2> QED BY <2>4, <2>5, <2>6
<1> QED BY <1>1, <1>2, <1>3

\* The invariant, of every behaviour: nobody but a deletion somebody asked for
\* takes the content of a resource, nor makes its row name a place that does
\* not hold it (storage.py:410-431, storage_migration.py:116-190).
THEOREM ObjectsInvariant == ObjectsSpec => []ObjectsHeld
<1>1. ObjectsHeld /\ [NextObjects]_objectVars => ObjectsHeld'
  <2> SUFFICES ASSUME ObjectsHeld, [NextObjects]_objectVars PROVE ObjectsHeld'
    OBVIOUS
  <2>1. CASE UNCHANGED objectVars
    BY <2>1 DEF objectVars, ObjectsHeld, ObjectsTyped, Uploading, Deleting, Migrating, Surveying,
                Located
  <2>2. CASE NextObjects
    BY <2>2, UploadsKeep, MigratorsLoad, MigratorsVerify, MigratorsRead, MigratorsPut,
       MigratorsCommit, MigratorsUnlink, DeletionsKeep, SurveysKeep DEF NextObjects
  <2> QED BY <2>1, <2>2
<1> QED BY <1>1, ObjectsStart, PTL DEF ObjectsSpec

\* Content is where its row says, for any resources and any number of migrations
\* at once (storage.py:410-431, storage_migration.py:116-190).
THEOREM ContentHolds == ObjectsSpec => []ContentKept
<1>1. ObjectsHeld => ContentKept
  BY DEF ObjectsHeld, ObjectsTyped, Deleting, Located, ContentKept, ObjectsTypeOK
<1> QED BY <1>1, ObjectsInvariant, PTL

----------------------------------------------------------------------------
(* Template versions: the inductive invariant *)

Trusts == {"local_draft", "local_candidate", "local_published"}
SourceTexts == Contents \X Trusts

Written == [status    : {"draft", "candidate", "published", "deprecated"},
            source    : SourceTexts,
            artifact  : SourceTexts \cup {<<>>},
            evaluated : BOOLEAN]

Binding == [version : Versions, active : BOOLEAN]
Snapshot == [version : Versions, snapshot : SourceTexts]

VersionEdit == [op : Operations \cup {"compiled"}, version : Versions, seen : Written,
                content : Contents]
BindingEdit == [op : {"bind", "clear"}, version : Versions, bound : Seq(Binding)]

TemplatesTyped ==
    /\ accepted \in Deployments
    /\ versions \in [Versions -> {Absent} \cup Written]
    /\ checks \in [Versions -> {"none", "passed", "failed"}]
    /\ edits \in [Edits -> {NoEdit} \cup VersionEdit \cup BindingEdit]
    /\ bindings \in Seq(Binding)
    /\ snapshots \in Seq(Snapshot)
    /\ outdated \subseteq Versions

\* What was created stays; only a draft or a candidate is compiled on its own.
EditsSeen ==
    \A e \in Edits : edits[e].op \in Operations \cup {"compiled"} =>
        /\ versions[edits[e].version] # Absent
        /\ edits[e].op = "compiled" => edits[e].seen.status \in {"draft", "candidate"}

\* A binding that was let in under the bound may find others committed before it.
Pending == {e \in Edits : edits[e].op = "bind"}
BindingsBounded == Len(bindings) + Cardinality(Pending) <= MaxBindings + Cardinality(Edits)

TemplatesHeld ==
    TemplatesTyped /\ EditsSeen /\ BindingsBounded /\ PublishedSound /\ SnapshotsVerify

----------------------------------------------------------------------------
(* What an edit makes of a row *)

Final(row) == row.status \in {"published", "deprecated"}

Sound(row) ==
    /\ row.artifact # <<>> => Content(row.artifact) = Content(row.source)
    /\ Final(row) => /\ row.evaluated
                     /\ row.source[2] = "local_published"
                     /\ row.artifact = row.source

LEMMA SourcesType ==
    /\ \A content \in Contents, trust \in Trusts : Source(content, trust) \in SourceTexts
    /\ \A content, trust : /\ Content(Source(content, trust)) = content
                           /\ Source(content, trust)[2] = trust
                           /\ Source(content, trust) # <<>>
    /\ \A source \in SourceTexts : Content(source) \in Contents /\ source # <<>>
  BY DEF Source, Content, SourceTexts

\* The row an edit wants is one, sound if the row it loaded was; a final row
\* stays final, with its source and its artifact.
LEMMA WantedRow ==
    ASSUME NEW v, NEW op \in Operations \cup {"compiled"}, NEW row \in Written,
           NEW content \in Contents, Permitted(op, v, row, content),
           op = "compiled" => row.status \in {"draft", "candidate"}
    PROVE  LET wanted == Wanted(op, v, row, content) IN
           /\ wanted \in Written
           /\ Sound(row) => Sound(wanted)
           /\ Final(row) => Final(wanted) /\ wanted.source = row.source
                                          /\ wanted.artifact = row.artifact
<1> DEFINE wanted == Wanted(op, v, row, content)
<1>1. row.source \in SourceTexts /\ Content(row.source) \in Contents
  BY SourcesType DEF Written
<1>2. CASE op = "replace"
  <2> DEFINE new == [row EXCEPT !.source = Source(content, "local_draft"), !.artifact = <<>>,
                                !.evaluated = FALSE]
  <2>1. wanted = new /\ row.status = "draft"
    BY <1>2 DEF Wanted, Permitted
  <2>2. Source(content, "local_draft") \in SourceTexts
    BY SourcesType DEF Trusts
  <2>3. new \in Written /\ new.artifact = <<>> /\ new.status = row.status
    BY <2>2 DEF Written
  <2> QED BY <2>1, <2>3 DEF Sound, Final
<1>3. CASE op = "compiled"
  <2> DEFINE new == [row EXCEPT !.artifact = row.source]
  <2>1. wanted = new /\ row.status \in {"draft", "candidate"}
    BY <1>3 DEF Wanted
  <2>2. new \in Written /\ new.artifact = row.source /\ new.source = row.source
        /\ new.status = row.status
    BY <1>1 DEF Written
  <2> QED BY <2>1, <2>2 DEF Sound, Final
<1>4. CASE op = "candidate"
  <2> DEFINE source == Source(Content(row.source), "local_candidate")
             compiled == [row EXCEPT !.source = source, !.artifact = source]
             new == [compiled EXCEPT !.status = "candidate"]
  <2>1. wanted = new /\ row.status = "draft"
    BY <1>4 DEF Wanted, Recompiled, Permitted, Transitions, Written
  <2>2. source \in SourceTexts
    BY <1>1, SourcesType DEF Trusts
  <2> HIDE DEF source
  <2>3. compiled \in Written /\ compiled.artifact = source /\ compiled.source = source
    BY <2>2 DEF Written
  <2> HIDE DEF compiled
  <2>4. new \in Written /\ new.artifact = source /\ new.source = source
        /\ new.status = "candidate"
    BY <2>3 DEF Written
  <2> QED BY <2>1, <2>4 DEF Sound, Final
<1>5. CASE op = "publish"
  <2> DEFINE source == Source(Content(row.source), "local_published")
             compiled == [row EXCEPT !.source = source, !.artifact = source]
             new == [compiled EXCEPT !.status = "published", !.evaluated = TRUE]
  <2>1. wanted = new /\ row.status = "candidate"
    BY <1>5 DEF Wanted, Recompiled, Permitted, Transitions, Written
  <2>2. source \in SourceTexts /\ source[2] = "local_published"
    BY <1>1, SourcesType DEF Trusts
  <2> HIDE DEF source
  <2>3. compiled \in Written /\ compiled.artifact = source /\ compiled.source = source
    BY <2>2 DEF Written
  <2> HIDE DEF compiled
  <2>4. new \in Written /\ new.artifact = source /\ new.source = source /\ new.evaluated
    BY <2>3 DEF Written
  <2> QED BY <2>1, <2>2, <2>4 DEF Sound, Final
<1>6. CASE op = "redraft"
  <2> DEFINE source == Source(Content(row.source), "local_draft")
             new == [row EXCEPT !.source = source, !.artifact = <<>>, !.evaluated = FALSE,
                                !.status = "draft"]
  <2>1. wanted = new /\ row.status = "candidate"
    BY <1>6 DEF Wanted, Permitted, Transitions, Written
  <2>2. source \in SourceTexts
    BY <1>1, SourcesType DEF Trusts
  <2> HIDE DEF source
  <2>3. new \in Written /\ new.artifact = <<>> /\ new.status = "draft"
    BY <2>2 DEF Written
  <2> QED BY <2>1, <2>3 DEF Sound, Final
<1>7. CASE op = "deprecate"
  <2> DEFINE new == [row EXCEPT !.status = "deprecated"]
  <2>1. wanted = new /\ row.status = "published"
    BY <1>7 DEF Wanted, Permitted, Transitions, Written
  <2>2. new \in Written /\ new.artifact = row.artifact /\ new.source = row.source
        /\ new.evaluated = row.evaluated /\ new.status = "deprecated"
    BY DEF Written
  <2> HIDE DEF new, wanted
  <2>3. Sound(row) => Sound(wanted)
    BY <2>1, <2>2 DEF Sound, Final
  <2>4. Final(wanted)
    BY <2>1, <2>2 DEF Final
  <2> QED BY <2>1, <2>2, <2>3, <2>4 DEF wanted
<1>8. op # "compile"
  BY DEF Permitted
<1> QED BY <1>2, <1>3, <1>4, <1>5, <1>6, <1>7, <1>8 DEF Operations

\* What is written of it is a row; it is the wanted one, but for the writes of
\* others since.
LEMMA MergedRow ==
    ASSUME NEW current \in Written, NEW seen \in Written, NEW wanted \in Written
    PROVE  /\ Merged(current, seen, wanted) \in Written
           /\ current = seen =>
                LET merged == Merged(current, seen, wanted) IN
                /\ merged.status = wanted.status /\ merged.source = wanted.source
                /\ merged.artifact = wanted.artifact /\ merged.evaluated = wanted.evaluated
  BY DEF Merged, Written

----------------------------------------------------------------------------
(* Every step keeps it *)

LEMMA TemplatesStart == ASSUME TemplateAssumption, InitTemplates PROVE TemplatesHeld
<1>1. TemplatesTyped
  BY DEF InitTemplates, TemplatesTyped
<1>2. Pending = {}
  BY DEF InitTemplates, Pending, NoEdit
<1>3. BindingsBounded
  BY <1>2, FS_EmptySet, FS_CardinalityType DEF InitTemplates, BindingsBounded, TemplateAssumption
<1>4. EditsSeen /\ PublishedSound /\ SnapshotsVerify
  BY DEF InitTemplates, EditsSeen, PublishedSound, SnapshotsVerify, NoEdit, Absent, Operations
<1> QED BY <1>1, <1>3, <1>4 DEF TemplatesHeld

\* The largest of some natural numbers up to n.
LEMMA Greatest ==
    ASSUME NEW n \in Nat, NEW S, S \subseteq 1..n, S # {}
    PROVE  \E i \in S : \A j \in S : j <= i
<1> DEFINE final == {i..n : i \in S}
<1>1. final \subseteq FiniteSubsetsOf(Nat) /\ final # {}
  <2>1. ASSUME NEW i \in S PROVE i..n \subseteq Nat /\ IsFiniteSet(i..n)
    BY FS_Interval
  <2> QED BY <2>1 DEF FiniteSubsetsOf
<1>2. PICK s \in final : \A t \in final : ~ (<<t, s>> \in StrictSubsetOrdering(Nat))
  BY <1>1, FS_StrictSubsetOrderingWellFounded, WFMin
<1>3. PICK i \in S : s = i..n
  BY <1>2
<1>4. ASSUME NEW j \in S, j > i PROVE FALSE
  <2>1. j..n \subseteq i..n /\ j..n # i..n /\ j..n \subseteq Nat /\ i..n \subseteq Nat
    BY <1>4
  <2>2. <<j..n, s>> \in StrictSubsetOrdering(Nat)
    BY <1>3, <2>1 DEF StrictSubsetOrdering
  <2> QED BY <1>2, <2>2
<1> QED BY <1>4

LEMMA ActiveBindingIn ==
    ASSUME NEW S, NEW list \in Seq(S), ActiveBinding(list) # 0
    PROVE  ActiveBinding(list) \in DOMAIN list
<1>1. ActiveBindings(list) \subseteq 1..Len(list) /\ Len(list) \in Nat
  BY DEF ActiveBindings
<1>2. ActiveBindings(list) # {}
  BY DEF ActiveBinding
<1>3. \E i \in ActiveBindings(list) : \A j \in ActiveBindings(list) : j <= i
  BY <1>1, <1>2, Greatest
<1>4. ActiveBinding(list) \in ActiveBindings(list)
  BY <1>2, <1>3 DEF ActiveBinding
<1> QED BY <1>4 DEF ActiveBindings

\* Versions whose rows a step does not touch keep what is said of them.
LEMMA VersionsCreated ==
    ASSUME TemplateAssumption, TemplatesHeld, NEW v \in Versions, NEW source \in SourceTexts,
           versions[v] = Absent,
           versions' = [versions EXCEPT ![v] =
               [Absent EXCEPT !.status = "draft", !.source = source]],
           checks' \in [Versions -> {"none", "passed", "failed"}],
           UNCHANGED <<accepted, edits, edited, bindings, snapshots, outdated>>
    PROVE  TemplatesHeld'
<1> DEFINE new == [Absent EXCEPT !.status = "draft", !.source = source]
<1> USE DEF TemplatesHeld
<1>1. new \in Written /\ new.artifact = <<>> /\ new.status = "draft" /\ new # Absent
  BY DEF Written, Absent
<1> HIDE DEF new
<1>2. TemplatesTyped'
  BY <1>1 DEF TemplatesTyped, new
<1>3. versions'[v] = new /\ \A w \in Versions : w # v => versions'[w] = versions[w]
  BY DEF TemplatesTyped, new
<1>4. EditsSeen'
  BY <1>1, <1>3 DEF EditsSeen, TemplatesTyped, VersionEdit
<1>5. BindingsBounded'
  BY DEF BindingsBounded, Pending
<1>6. PublishedSound'
  <2>1. /\ versions'[v].artifact = <<>>
        /\ versions'[v].status \notin {"published", "deprecated"}
    BY <1>1, <1>3
  <2>2. \A w \in Versions \ outdated : w # v => versions'[w] = versions[w]
    BY <1>3
  <2> QED BY <2>1, <2>2 DEF PublishedSound
<1>7. SnapshotsVerify'
  BY <1>3 DEF SnapshotsVerify, TemplatesTyped, Absent
<1> QED BY <1>2, <1>4, <1>5, <1>6, <1>7

LEMMA CreationKeeps ==
    ASSUME TemplateAssumption, TemplatesHeld, NEW v \in Versions, NEW w \in Versions,
           NEW content \in Contents, CreateLocal(v, content) \/ Clone(v, w)
    PROVE  TemplatesHeld'
<1>1. CASE CreateLocal(v, content)
  <2>1. Source(content, "local_draft") \in SourceTexts
    BY SourcesType DEF Trusts
  <2>2. checks' \in [Versions -> {"none", "passed", "failed"}]
    BY <1>1 DEF CreateLocal, TemplatesHeld, TemplatesTyped
  <2> QED BY <1>1, <2>1, <2>2, VersionsCreated DEF CreateLocal
<1>2. CASE Clone(v, w)
  <2>1. versions[v] \in Written
    BY <1>2 DEF Clone, TemplatesHeld, TemplatesTyped
  <2>2. Source(Content(versions[v].source), "local_draft") \in SourceTexts
    BY <2>1, SourcesType DEF Trusts, Written
  <2>3. checks' \in [Versions -> {"none", "passed", "failed"}]
    BY <1>2 DEF Clone, TemplatesHeld, TemplatesTyped
  <2> QED BY <1>2, <2>2, <2>3, VersionsCreated DEF Clone
<1> QED BY <1>1, <1>2

LEMMA ValidationKeeps ==
    ASSUME TemplateAssumption, TemplatesHeld, (\E v \in Versions : Validate(v)) \/ Deploy
    PROVE  TemplatesHeld'
<1>1. UNCHANGED <<versions, edits, bindings, snapshots, outdated>>
  BY DEF Validate, Deploy
<1>2. accepted' \in Deployments /\ checks' \in [Versions -> {"none", "passed", "failed"}]
  BY DEF Validate, Deploy, TemplatesHeld, TemplatesTyped
<1> QED BY <1>1, <1>2 DEF TemplatesHeld, TemplatesTyped, EditsSeen, BindingsBounded, Pending,
                          PublishedSound, SnapshotsVerify

\* Edits that are pending bindings: one more, one less, or the same.
LEMMA PendingType ==
    ASSUME TemplateAssumption
    PROVE  /\ IsFiniteSet(Pending) /\ Cardinality(Pending) \in Nat
           /\ Cardinality(Edits) \in Nat /\ Cardinality(Pending) <= Cardinality(Edits)
<1>1. Pending \subseteq Edits /\ IsFiniteSet(Edits)
  BY DEF Pending, TemplateAssumption
<1> QED BY <1>1, FS_Subset, FS_CardinalityType

\* An edit that begins or is over changes no version.
LEMMA EditsMove ==
    ASSUME TemplateAssumption, TemplatesHeld, NEW e \in Edits,
           NEW edit \in {NoEdit} \cup VersionEdit \cup BindingEdit,
           edits' = [edits EXCEPT ![e] = edit],
           edit.op \in Operations \cup {"compiled"} =>
               /\ versions[edit.version] # Absent
               /\ edit.op = "compiled" => edit.seen.status \in {"draft", "candidate"},
           checks' \in [Versions -> {"none", "passed", "failed"}],
           UNCHANGED <<accepted, versions, snapshots, outdated>>,
           bindings' \in Seq(Binding), BindingsBounded'
    PROVE  TemplatesHeld'
<1> USE DEF TemplatesHeld
<1>1. TemplatesTyped'
  BY DEF TemplatesTyped
<1>2. edits'[e] = edit /\ \A d \in Edits : d # e => edits'[d] = edits[d]
  BY DEF TemplatesTyped
<1>3. EditsSeen'
  BY <1>2 DEF EditsSeen
<1>4. PublishedSound' /\ SnapshotsVerify'
  BY DEF PublishedSound, SnapshotsVerify
<1> QED BY <1>1, <1>3, <1>4

\* Unless it is a binding that begins, the bindings that are pending are fewer.
LEMMA NoMorePending ==
    ASSUME TemplateAssumption, TemplatesHeld, NEW e \in Edits, NEW edit,
           edits' = [edits EXCEPT ![e] = edit], edit.op # "bind"
    PROVE  /\ Cardinality(Pending') \in Nat /\ Cardinality(Pending') <= Cardinality(Pending)
           /\ edits[e].op = "bind" => Cardinality(Pending') = Cardinality(Pending) - 1
<1>1. Pending' = Pending \ {e}
  BY DEF Pending, TemplatesHeld, TemplatesTyped
<1>2. e \in Pending <=> edits[e].op = "bind"
  BY DEF Pending
<1>3. IsFiniteSet(Pending) /\ Cardinality(Pending) \in Nat
  BY PendingType
<1>4. IsFiniteSet(Pending \ {e}) /\ Cardinality(Pending \ {e}) \in Nat
  BY <1>3, FS_RemoveElement, FS_CardinalityType
<1>5. Cardinality(Pending \ {e}) =
        IF e \in Pending THEN Cardinality(Pending) - 1 ELSE Cardinality(Pending)
  BY <1>3, FS_RemoveElement
<1> QED BY <1>1, <1>2, <1>3, <1>4, <1>5

LEMMA EditsBegin ==
    ASSUME TemplateAssumption, TemplatesHeld, NEW e \in Edits,
           \/ \E op \in Operations, v \in Versions, content \in Contents : Load(e, op, v, content)
           \/ CompileCheck(e) \/ RefuseEdit(e)
    PROVE  TemplatesHeld'
<1> USE DEF TemplatesHeld
<1>0. /\ edits[e] \in {NoEdit} \cup VersionEdit \cup BindingEdit
      /\ bindings \in Seq(Binding) /\ Len(bindings) \in Nat /\ MaxBindings \in Nat
  BY DEF TemplatesTyped, TemplateAssumption
<1>1. ASSUME NEW op \in Operations, NEW v \in Versions, NEW content \in Contents,
             Load(e, op, v, content)
      PROVE  TemplatesHeld'
  <2> DEFINE edit == [op |-> op, version |-> v, seen |-> versions[v], content |-> content]
  <2>1. versions[v] \in Written /\ versions[v] # Absent
    BY <1>1 DEF Load, TemplatesTyped
  <2>2. edit \in VersionEdit /\ edit.op = op /\ edit.version = v
    BY <2>1 DEF VersionEdit
  <2>3. edits' = [edits EXCEPT ![e] = edit]
        /\ UNCHANGED <<accepted, versions, checks, bindings, snapshots, outdated>>
    BY <1>1 DEF Load
  <2> HIDE DEF edit
  <2>4. op # "bind" /\ op # "compiled"
    BY DEF Operations
  <2>5. Cardinality(Pending') \in Nat /\ Cardinality(Pending') <= Cardinality(Pending)
    BY <2>2, <2>3, <2>4, NoMorePending
  <2>6. BindingsBounded'
    BY <1>0, <2>3, <2>5, PendingType DEF BindingsBounded
  <2>7. checks' \in [Versions -> {"none", "passed", "failed"}] /\ bindings' \in Seq(Binding)
    BY <2>3 DEF TemplatesTyped
  <2> QED BY <2>1, <2>2, <2>3, <2>4, <2>6, <2>7, EditsMove
<1>2. ASSUME CompileCheck(e) PROVE TemplatesHeld'
  <2> DEFINE edit == IF Content(edits[e].seen.source) \in accepted
                     THEN [edits[e] EXCEPT !.op = "compiled"] ELSE NoEdit
  <2>1. edits[e] \in VersionEdit
    BY <1>0, <1>2 DEF CompileCheck, NoEdit, BindingEdit
  <2>2. [edits[e] EXCEPT !.op = "compiled"] \in VersionEdit
    BY <2>1 DEF VersionEdit
  <2>3. edit \in {NoEdit} \cup VersionEdit \cup BindingEdit
    BY <2>2
  <2>4. edits' = [edits EXCEPT ![e] = edit]
        /\ UNCHANGED <<accepted, versions, bindings, snapshots, outdated>>
    BY <1>2 DEF CompileCheck
  <2>5. checks' \in [Versions -> {"none", "passed", "failed"}] /\ bindings' \in Seq(Binding)
    BY <1>2, <2>4 DEF CompileCheck, TemplatesTyped
  <2>6. /\ edits[e].op = "compile" /\ versions[edits[e].version] # Absent
        /\ edits[e].seen.status \in {"draft", "candidate"}
    BY <1>2 DEF CompileCheck, EditsSeen, Operations
  <2>7. \/ edit.op = "none"
        \/ edit.op = "compiled" /\ edit.version = edits[e].version /\ edit.seen = edits[e].seen
    BY <2>1 DEF VersionEdit, NoEdit
  <2> HIDE DEF edit
  <2>8. Cardinality(Pending') \in Nat /\ Cardinality(Pending') <= Cardinality(Pending)
    BY <2>4, <2>7, NoMorePending
  <2>9. BindingsBounded'
    BY <1>0, <2>4, <2>8, PendingType DEF BindingsBounded
  <2>10. edit.op \in Operations \cup {"compiled"} => edit.op = "compiled"
    BY <2>7 DEF Operations
  <2> QED BY <2>3, <2>4, <2>5, <2>6, <2>7, <2>9, <2>10, EditsMove
<1>3. ASSUME RefuseEdit(e) PROVE TemplatesHeld'
  <2>1. edits' = [edits EXCEPT ![e] = NoEdit]
        /\ UNCHANGED <<accepted, versions, checks, bindings, snapshots, outdated>>
    BY <1>3 DEF RefuseEdit
  <2>2. NoEdit.op \notin Operations \cup {"compiled", "bind"}
    BY DEF NoEdit, Operations
  <2>3. Cardinality(Pending') \in Nat /\ Cardinality(Pending') <= Cardinality(Pending)
    BY <2>1, <2>2, NoMorePending
  <2>4. BindingsBounded'
    BY <1>0, <2>1, <2>3, PendingType DEF BindingsBounded
  <2>5. checks' \in [Versions -> {"none", "passed", "failed"}] /\ bindings' \in Seq(Binding)
    BY <2>1 DEF TemplatesTyped
  <2> QED BY <2>1, <2>2, <2>4, <2>5, EditsMove
<1> QED BY <1>1, <1>2, <1>3

LEMMA BindingsKeep ==
    ASSUME TemplateAssumption, TemplatesHeld, NEW e \in Edits,
           \/ \E op \in {"bind", "clear"}, v \in Versions : LoadBinding(e, op, v)
           \/ CommitBinding(e)
    PROVE  TemplatesHeld'
<1> USE DEF TemplatesHeld
<1>0. /\ edits[e] \in {NoEdit} \cup VersionEdit \cup BindingEdit
      /\ bindings \in Seq(Binding) /\ Len(bindings) \in Nat /\ MaxBindings \in Nat
  BY DEF TemplatesTyped, TemplateAssumption
<1>1. ASSUME NEW op \in {"bind", "clear"}, NEW v \in Versions, LoadBinding(e, op, v)
      PROVE  TemplatesHeld'
  <2> DEFINE edit == [op |-> op, version |-> v, bound |-> bindings]
  <2>1. edit \in BindingEdit /\ edit.op = op
    BY <1>0 DEF BindingEdit
  <2>2. edits' = [edits EXCEPT ![e] = edit]
        /\ UNCHANGED <<accepted, versions, checks, bindings, snapshots, outdated>>
    BY <1>1 DEF LoadBinding
  <2> HIDE DEF edit
  <2>3. BindingsBounded'
    <3>1. CASE op = "bind"
      <4>1. Len(bindings) < MaxBindings
        BY <1>1, <3>1 DEF LoadBinding
      <4>2. Pending' \subseteq Edits /\ IsFiniteSet(Edits)
        BY DEF Pending, TemplateAssumption
      <4>3. Cardinality(Pending') <= Cardinality(Edits) /\ Cardinality(Pending') \in Nat
            /\ Cardinality(Edits) \in Nat
        BY <4>2, FS_Subset, FS_CardinalityType
      <4> QED BY <1>0, <2>2, <4>1, <4>3 DEF BindingsBounded
    <3>2. CASE op = "clear"
      <4>1. Cardinality(Pending') \in Nat /\ Cardinality(Pending') <= Cardinality(Pending)
        BY <2>1, <2>2, <3>2, NoMorePending
      <4> QED BY <1>0, <2>2, <4>1, PendingType DEF BindingsBounded
    <3> QED BY <3>1, <3>2
  <2>4. edit.op \notin Operations \cup {"compiled"}
    BY <2>1 DEF Operations
  <2>5. checks' \in [Versions -> {"none", "passed", "failed"}] /\ bindings' \in Seq(Binding)
    BY <2>2 DEF TemplatesTyped
  <2> QED BY <2>1, <2>2, <2>3, <2>4, <2>5, EditsMove
<1>2. ASSUME CommitBinding(e) PROVE TemplatesHeld'
  <2> DEFINE i == ActiveBinding(edits[e].bound)
             old == Superseded(bindings, i)
             bound == [version |-> edits[e].version, active |-> TRUE]
  <2>1. edits[e] \in BindingEdit
    BY <1>0, <1>2 DEF CommitBinding, NoEdit, VersionEdit, Operations
  <2> HIDE DEF i
  <2>2. old \in Seq(Binding) /\ Len(old) = Len(bindings)
    <3>1. CASE i = 0
      BY <1>0, <3>1 DEF Superseded
    <3>2. CASE i \in DOMAIN bindings /\ i # 0
      <4> DEFINE passed == [bindings[i] EXCEPT !.active = FALSE]
      <4>0. bindings[i] \in Binding
        BY <1>0, <3>2
      <4>1. passed \in Binding
        BY <4>0 DEF Binding
      <4>2. old = [bindings EXCEPT ![i] = passed]
        BY <3>2 DEF Superseded
      <4> HIDE DEF passed
      <4>3. i \in 1..Len(bindings)
        BY <1>0, <3>2
      <4>4. /\ [bindings EXCEPT ![i] = passed] \in Seq(Binding)
            /\ Len([bindings EXCEPT ![i] = passed]) = Len(bindings)
        BY <1>0, <4>1, <4>3, ExceptSeq
      <4> QED BY <4>2, <4>4
    <3>3. CASE i \notin DOMAIN bindings /\ i # 0
      <4>1. old = [bindings EXCEPT ![i].active = FALSE]
        BY <3>3 DEF Superseded
      <4>2. old = bindings
        BY <1>0, <3>3, <4>1
      <4> QED BY <1>0, <4>2
    <3> QED BY <3>1, <3>2, <3>3
  <2>3. bound \in Binding
    BY <2>1 DEF Binding, BindingEdit
  <2> HIDE DEF old, bound
  <2>4. edits' = [edits EXCEPT ![e] = NoEdit] /\ edits[e].op \in {"bind", "clear"}
        /\ UNCHANGED <<accepted, versions, checks, snapshots, outdated>>
        /\ bindings' = IF edits[e].op = "bind" THEN Append(old, bound) ELSE old
    BY <1>2 DEF CommitBinding, old, bound, i
  <2>5. NoEdit.op \notin Operations \cup {"compiled", "bind"}
    BY DEF NoEdit, Operations
  <2>6. /\ Cardinality(Pending') \in Nat /\ Cardinality(Pending') <= Cardinality(Pending)
        /\ edits[e].op = "bind" => Cardinality(Pending') = Cardinality(Pending) - 1
    BY <2>4, <2>5, NoMorePending
  <2>7. /\ bindings' \in Seq(Binding)
        /\ Len(bindings') = Len(bindings) + IF edits[e].op = "bind" THEN 1 ELSE 0
    BY <1>0, <2>2, <2>3, <2>4
  <2>8. BindingsBounded'
    BY <1>0, <2>6, <2>7, PendingType DEF BindingsBounded
  <2>9. checks' \in [Versions -> {"none", "passed", "failed"}]
    BY <2>4 DEF TemplatesTyped
  <2> QED BY <2>4, <2>5, <2>7, <2>8, <2>9, EditsMove
<1> QED BY <1>1, <1>2

\* A commit writes over what others have written only where the version is
\* counted as outdated; anywhere else the row becomes the one the edit wants.
LEMMA CommitKeeps ==
    ASSUME TemplateAssumption, TemplatesHeld, NEW e \in Edits, CommitEdit(e)
    PROVE  TemplatesHeld'
<1> USE DEF TemplatesHeld
<1> DEFINE edit == edits[e]
           v == edit.version
           wanted == Wanted(edit.op, v, edit.seen, edit.content)
           merged == Merged(versions[v], edit.seen, wanted)
<1>1. /\ edit.op \in Operations \cup {"compiled"}
      /\ Permitted(edit.op, v, edit.seen, edit.content)
      /\ versions' = [versions EXCEPT ![v] = merged]
      /\ outdated' = IF versions[v] # edit.seen THEN outdated \cup {v} ELSE outdated
      /\ edits' = [edits EXCEPT ![e] = NoEdit]
      /\ UNCHANGED <<accepted, bindings, snapshots>>
  BY DEF CommitEdit
<1>2. edit \in VersionEdit
  BY <1>1 DEF TemplatesTyped, NoEdit, BindingEdit, Operations
<1>3. v \in Versions /\ edit.seen \in Written /\ edit.content \in Contents
  BY <1>2 DEF VersionEdit
<1>4. versions[v] \in Written /\ (edit.op = "compiled" => edit.seen.status \in {"draft", "candidate"})
  BY <1>1, <1>3 DEF EditsSeen, TemplatesTyped
<1>5. /\ wanted \in Written
      /\ Sound(edit.seen) => Sound(wanted)
      /\ Final(edit.seen) => Final(wanted) /\ wanted.source = edit.seen.source
                                           /\ wanted.artifact = edit.seen.artifact
  BY <1>1, <1>3, <1>4, WantedRow
<1>6. /\ merged \in Written
      /\ versions[v] = edit.seen =>
            /\ merged.status = wanted.status /\ merged.source = wanted.source
            /\ merged.artifact = wanted.artifact /\ merged.evaluated = wanted.evaluated
  <2> HIDE DEF wanted
  <2> QED BY <1>3, <1>4, <1>5, MergedRow
<1> HIDE DEF merged, wanted
<1>7. checks' \in [Versions -> {"none", "passed", "failed"}]
  BY <1>3 DEF CommitEdit, TemplatesTyped
<1>8. TemplatesTyped'
  BY <1>1, <1>3, <1>6, <1>7 DEF TemplatesTyped
<1>9. versions'[v] = merged /\ \A w \in Versions : w # v => versions'[w] = versions[w]
  BY <1>1, <1>3 DEF TemplatesTyped
<1>10. merged # Absent
  BY <1>6 DEF Written, Absent
<1>11. EditsSeen'
  <2>1. NoEdit.op \notin Operations \cup {"compiled"}
    BY DEF NoEdit, Operations
  <2>2. edits'[e] = NoEdit /\ \A d \in Edits : d # e => edits'[d] = edits[d]
    BY <1>1 DEF TemplatesTyped
  <2>3. \A w : versions[w] # Absent /\ w \in Versions => versions'[w] # Absent
    BY <1>9, <1>10
  <2>4. \A d \in Edits : edits[d].op \in Operations \cup {"compiled"} => edits[d].version \in Versions
    BY DEF TemplatesTyped, NoEdit, BindingEdit, VersionEdit, Operations
  <2> QED BY <2>1, <2>2, <2>3, <2>4 DEF EditsSeen
<1>12. BindingsBounded'
  <2>1. NoEdit.op # "bind"
    BY DEF NoEdit
  <2>2. Cardinality(Pending') \in Nat /\ Cardinality(Pending') <= Cardinality(Pending)
    BY <1>1, <2>1, NoMorePending
  <2>3. Len(bindings) \in Nat /\ MaxBindings \in Nat /\ bindings' = bindings
    BY <1>1 DEF TemplatesTyped, TemplateAssumption
  <2> QED BY <2>2, <2>3, PendingType DEF BindingsBounded
<1>13. outdated \subseteq outdated' /\ (v \notin outdated' => versions[v] = edit.seen)
  BY <1>1
<1>14. PublishedSound'
  <2>1. \A w \in Versions : w \notin outdated => Sound(versions[w])
    BY DEF PublishedSound, Sound, Final
  <2>2. v \notin outdated' => Sound(merged)
    BY <1>3, <1>5, <1>6, <1>13, <2>1 DEF Sound, Final
  <2>3. \A w \in Versions : w \notin outdated' => Sound(versions'[w])
    BY <1>9, <1>13, <2>1, <2>2
  <2> QED BY <2>3 DEF PublishedSound, Sound, Final
<1>15. SnapshotsVerify'
  <2>1. \A w \in Versions : w \notin outdated' /\ Final(versions[w]) =>
            Final(versions'[w]) /\ versions'[w].artifact = versions[w].artifact
    <3>1. v \notin outdated' /\ Final(versions[v]) =>
            Final(merged) /\ merged.artifact = versions[v].artifact
      BY <1>5, <1>6, <1>13 DEF Final
    <3> QED BY <1>3, <1>9, <3>1
  <2>2. ASSUME NEW i \in DOMAIN snapshots PROVE snapshots[i].version \in Versions
    <3>0. snapshots \in Seq(Snapshot)
      BY DEF TemplatesTyped
    <3>1. snapshots[i] \in Snapshot
      BY <3>0
    <3> QED BY <3>1 DEF Snapshot
  <2> QED BY <1>1, <1>13, <2>1, <2>2 DEF SnapshotsVerify, Final
<1> QED BY <1>8, <1>11, <1>12, <1>14, <1>15

LEMMA SessionsKeep ==
    ASSUME TemplateAssumption, TemplatesHeld, (\E v \in Versions : StartSession(v)) \/ StartDefault
    PROVE  TemplatesHeld'
<1> USE DEF TemplatesHeld
<1>1. PICK v \in Versions : StartSession(v)
  <2>1. ASSUME StartDefault PROVE \E v \in Versions : StartSession(v)
    <3>1. ActiveBinding(bindings) \in DOMAIN bindings
      BY <2>1, ActiveBindingIn DEF StartDefault, TemplatesTyped
    <3>2. bindings[ActiveBinding(bindings)] \in Binding
      BY <3>1 DEF TemplatesTyped
    <3>3. bindings[ActiveBinding(bindings)].version \in Versions
      BY <3>2 DEF Binding
    <3> QED BY <2>1, <3>3 DEF StartDefault
  <2> QED BY <2>1
<1> DEFINE started == [version |-> v, snapshot |-> versions[v].source]
<1>2. /\ snapshots' = Append(snapshots, started)
      /\ UNCHANGED <<accepted, versions, checks, edits, edited, bindings, outdated>>
      /\ versions[v].status = "published" /\ versions[v].artifact # <<>>
  BY <1>1 DEF StartSession, Selectable
<1>3. versions[v] \in Written
  BY <1>2 DEF TemplatesTyped, Absent
<1>4. started \in Snapshot
      /\ started.version = v /\ started.snapshot = versions[v].source
  BY <1>3 DEF Written, Snapshot
<1> HIDE DEF started
<1>5. TemplatesTyped'
  BY <1>2, <1>4 DEF TemplatesTyped
<1>6. EditsSeen' /\ BindingsBounded' /\ PublishedSound'
  BY <1>2 DEF EditsSeen, BindingsBounded, Pending, PublishedSound
<1>7. SnapshotsVerify'
  <2>1. v \notin outdated => versions[v].artifact = versions[v].source
    BY <1>2 DEF PublishedSound
  <2>2. snapshots \in Seq(Snapshot)
    BY DEF TemplatesTyped
  <2>3. ASSUME NEW i \in DOMAIN snapshots'
        PROVE  \/ i \in DOMAIN snapshots /\ snapshots'[i] = snapshots[i]
               \/ snapshots'[i] = started
    BY <1>2, <1>4, <2>2
  <2> QED BY <1>2, <1>4, <2>1, <2>3 DEF SnapshotsVerify
<1> QED BY <1>5, <1>6, <1>7

\* The invariant: whatever is edited, deployed, bound and started, a version
\* nobody wrote over has the artifact of its source and, once published, was
\* evaluated and keeps both (templates.py:394-466, session_templates.py:196-241).
THEOREM TemplatesInvariant == TemplatesSpec => []TemplatesHeld
<1> USE TemplateAssumption
<1>1. TemplatesHeld /\ [NextTemplates]_templateVars => TemplatesHeld'
  <2> SUFFICES ASSUME TemplatesHeld, [NextTemplates]_templateVars PROVE TemplatesHeld'
    OBVIOUS
  <2>1. CASE UNCHANGED templateVars
    BY <2>1 DEF templateVars, TemplatesHeld, TemplatesTyped, EditsSeen, BindingsBounded, Pending,
                PublishedSound, SnapshotsVerify
  <2>2. CASE NextTemplates
    BY <2>2, CreationKeeps, ValidationKeeps, EditsBegin, BindingsKeep, CommitKeeps, SessionsKeep
       DEF NextTemplates
  <2> QED BY <2>1, <2>2
<1> QED BY <1>1, TemplatesStart, PTL DEF TemplatesSpec

\* What is published is what was evaluated and what its sessions say they ran,
\* for any versions, contents, validators and edits at once
\* (templates.py:394-466, session_templates.py:196-241).
THEOREM PublicationsHold == TemplatesSpec => []TemplatesSound
<1>1. TemplatesHeld => TemplatesTypeOK
  <2> SUFFICES ASSUME TemplatesHeld PROVE TemplatesTypeOK
    OBVIOUS
  <2> USE DEF TemplatesHeld
  <2>1. ASSUME NEW v \in Versions
        PROVE  /\ versions[v].status \in {"none", "draft", "candidate", "published", "deprecated"}
               /\ versions[v] # Absent => Content(versions[v].source) \in Contents
               /\ checks[v] \in {"none", "passed", "failed"}
    BY SourcesType DEF TemplatesTyped, Written, Absent
  <2>2. Len(bindings) \in Nat
    BY DEF TemplatesTyped
  <2>3. Len(bindings) <= MaxBindings + Cardinality(Edits)
    BY <2>2, PendingType, TemplateAssumption DEF BindingsBounded, TemplateAssumption
  <2> QED BY <2>1, <2>3 DEF TemplatesTypeOK, TemplatesTyped
<1>2. TemplatesHeld => TemplatesSound
  BY <1>1 DEF TemplatesHeld, TemplatesSound
<1> QED BY <1>2, TemplatesInvariant, PTL

----------------------------------------------------------------------------
(* The audit trail: the inductive invariant *)

Codes200 == {200, 403, 500, 503}
Event == [id : EventIds, time : Nat, call : AuditCalls, code : Codes200]
Answering == [at : {"responding", "answered"}, code : Codes200]
Reporting == [at : {"committing", "writing"}, event : Event]
Reading == [at : {"start", "more", "end"}, read : SUBSET Event, first : SUBSET Event,
            cursor : EventIds \cup {0}, again : BOOLEAN, lost : BOOLEAN]
Export == [until : Nat, there : SUBSET Event, rows : SUBSET Event, truncated : BOOLEAN]

AuditTyped ==
    /\ moment \in 0..LastMoment
    /\ trail \subseteq Event /\ IsFiniteSet(trail) /\ aged \subseteq Event
    /\ changed \subseteq AuditCalls
    /\ progress \in [AuditCalls -> {Unsent, [at |-> "lost"]} \cup Answering \cup Reporting]
    /\ reading \in Reading
    /\ exported \in Seq(Export)

\* Events that were built, whatever has become of them, have their own numbers.
Known == trail \cup Built \cup aged
EventsApart ==
    /\ \A e, f \in Known : e.id = f.id => e = f
    /\ \A e \in trail \cup Built : e.time <= moment

\* What a request is about to say is so: a success has changed something, alone
\* before its event or together with it.
Reported ==
    \A q \in AuditCalls :
        /\ progress[q].at = "responding" /\ progress[q].code = 200 =>
             q \in changed /\ q \notin Together
        /\ progress[q].at \in {"committing", "writing"} => progress[q].event.call = q
        /\ progress[q].at = "committing" => progress[q].event.code = 200
        /\ progress[q].at = "writing" /\ progress[q].event.code = 200 => q \in changed

\* Behind the cursor is all that is still to be read, before it, unless the event
\* it names was aged, all that was read.
CursorOf(c) ==
    /\ c.id = reading.cursor
    /\ \A e \in reading.first \ (reading.read \cup aged) : Newer(c, e)
    /\ ~reading.lost => \A e \in reading.read : e = c \/ Newer(e, c)

PagesRead ==
    /\ reading.at = "start" => reading = NotReading
    /\ reading.at # "start" => exported = <<>>
    /\ reading.read \subseteq trail \cup aged /\ reading.first \subseteq trail \cup aged
    /\ reading.at = "more" => \E c \in reading.read : CursorOf(c)

\* An export has its window of what there was, unless it was truncated.
Windowed(e, i) == e.time < exported[i].until /\ \A j \in 1..(i - 1) : e.time >= exported[j].until
WindowsAdjoin ==
    /\ \A i, j \in DOMAIN exported : i <= j => exported[i].until <= exported[j].until
    /\ \A i \in DOMAIN exported :
         /\ \A e \in exported[i].rows : Windowed(e, i)
         /\ \A e \in exported[i].there : Windowed(e, i) =>
              e \in exported[i].rows \/ exported[i].truncated

AuditHeld ==
    AuditTyped /\ EventsApart /\ Reported /\ PagesRead /\ WindowsAdjoin
    /\ AnswersAudited /\ PagesComplete /\ ExportsAdjoin

----------------------------------------------------------------------------
(* Every step keeps it *)

LEMMA AuditStart == ASSUME RequestAuditAssumption, InitAudit PROVE AuditHeld
<1>0. trail = {} /\ aged = {} /\ Built = {} /\ reading = NotReading /\ exported = <<>>
      /\ moment = 0 /\ changed = {} /\ \A q \in AuditCalls : progress[q].at = "unsent"
  BY DEF InitAudit, Built, Unsent
<1>1. AuditTyped
  <2>1. reading \in Reading
    BY <1>0 DEF Reading, NotReading
  <2>2. IsFiniteSet(trail)
    BY <1>0, FS_EmptySet
  <2> QED BY <1>0, <2>1, <2>2 DEF InitAudit, AuditTyped, RequestAuditAssumption
<1>2. EventsApart /\ Reported
  BY <1>0 DEF EventsApart, Known, Reported
<1>3. PagesRead /\ PagesComplete
  BY <1>0 DEF PagesRead, PagesComplete, NotReading
<1>4. WindowsAdjoin /\ ExportsAdjoin
  BY <1>0 DEF WindowsAdjoin, ExportsAdjoin
<1>5. AnswersAudited
  BY <1>0 DEF AnswersAudited, Recorded
<1> QED BY <1>1, <1>2, <1>3, <1>4, <1>5 DEF AuditHeld

\* What is read and exported is not disturbed by events that come, nor by one
\* that leaves the trail for what is aged.
LEMMA PagesStay ==
    ASSUME AuditHeld, UNCHANGED <<reading, exported>>,
           trail \cup aged \subseteq trail' \cup aged', aged \subseteq aged'
    PROVE  PagesRead' /\ PagesComplete' /\ WindowsAdjoin'
<1> USE DEF AuditHeld
<1>1. \A c : CursorOf(c) => CursorOf(c)'
  BY DEF CursorOf, Newer
<1>2. PagesRead'
  BY <1>1 DEF PagesRead, NotReading
<1>3. PagesComplete'
  BY DEF PagesComplete
<1>4. WindowsAdjoin'
  BY DEF WindowsAdjoin, Windowed
<1> QED BY <1>2, <1>3, <1>4

LEMMA CallPuts ==
    ASSUME AuditHeld, NEW q \in AuditCalls, NEW row, Put(q, row),
           row \in {Unsent, [at |-> "lost"]} \cup Answering \cup Reporting
    PROVE  /\ progress' \in [AuditCalls -> {Unsent, [at |-> "lost"]} \cup Answering \cup Reporting]
           /\ progress'[q] = row /\ \A p \in AuditCalls : p # q => progress'[p] = progress[p]
           /\ \A e \in Built' : \/ e \in Built
                                \/ row.at \in {"committing", "writing"} /\ e = row.event
<1> USE DEF AuditHeld
<1>1. /\ progress' \in [AuditCalls -> {Unsent, [at |-> "lost"]} \cup Answering \cup Reporting]
      /\ progress'[q] = row /\ \A p \in AuditCalls : p # q => progress'[p] = progress[p]
  BY DEF Put, AuditTyped
<1>2. ASSUME NEW e \in Built'
      PROVE  \/ e \in Built
             \/ row.at \in {"committing", "writing"} /\ e = row.event
  <2>1. PICK p \in AuditCalls : progress'[p].at \in {"committing", "writing"}
                                /\ e = progress'[p].event
    BY <1>2 DEF Built
  <2>2. CASE p = q
    BY <1>1, <2>1, <2>2
  <2>3. CASE p # q
    BY <1>1, <2>1, <2>3 DEF Built
  <2> QED BY <2>2, <2>3
<1> QED BY <1>1, <1>2

LEMMA KnownKept ==
    ASSUME AuditHeld, moment <= moment', moment' \in Nat, aged' \subseteq trail \cup aged,
           trail' \cup Built' \subseteq trail \cup Built
    PROVE  EventsApart'
<1>1. Known' \subseteq Known
  BY DEF Known
<1>2. \A e \in trail \cup Built : e.time \in Nat
  BY DEF AuditHeld, AuditTyped, Built, Event, Reporting, Answering, Unsent
<1> QED BY <1>1, <1>2 DEF AuditHeld, EventsApart, AuditTyped

LEMMA KnownGrows ==
    ASSUME AuditHeld, NEW event \in Event, UNCHANGED <<moment, aged>>,
           \A e \in Known : e.id # event.id, event.time = moment,
           trail' \cup Built' \subseteq trail \cup Built \cup {event}
    PROVE  EventsApart'
<1>1. Known' \subseteq Known \cup {event}
  BY DEF Known
<1>2. moment <= moment
  BY DEF AuditHeld, AuditTyped
<1> QED BY <1>1, <1>2 DEF AuditHeld, EventsApart

LEMMA NewEventsType ==
    ASSUME AuditHeld, NEW q \in AuditCalls, NEW code \in Codes200, NEW event \in NewEvents(q, code)
    PROVE  /\ event \in Event /\ event.time = moment /\ event.call = q /\ event.code = code
           /\ \A e \in Known : e.id # event.id
<1>1. PICK i \in EventIds \ {e.id : e \in trail \cup Built \cup aged} :
        event = [id |-> i, time |-> moment, call |-> q, code |-> code]
  BY DEF NewEvents
<1>2. moment \in Nat
  BY DEF AuditHeld, AuditTyped
<1>3. event \in Event /\ event.id = i /\ event.time = moment /\ event.call = q /\ event.code = code
  BY <1>1, <1>2 DEF Event
<1>4. \A e \in Known : e.id # i
  BY <1>1 DEF Known
<1> QED BY <1>3, <1>4

\* What one request does, once its own part is as it should be.
LEMMA CallKeeps ==
    ASSUME AuditHeld, NEW q \in AuditCalls, NEW row, Put(q, row),
           row \in {Unsent, [at |-> "lost"]} \cup Answering \cup Reporting,
           UNCHANGED <<moment, reading, exported, aged>>,
           NEW came \in SUBSET Built, IsFiniteSet(came), trail' = trail \cup came,
           changed \subseteq changed', changed' \subseteq changed \cup {q},
           EventsApart',
           row.at = "responding" /\ row.code = 200 => q \in changed' /\ q \notin Together,
           row.at \in {"committing", "writing"} => row.event.call = q,
           row.at = "committing" => row.event.code = 200,
           row.at = "writing" /\ row.event.code = 200 => q \in changed',
           row.at = "answered" /\ row.code < 500 =>
               \E e \in trail' \cup aged : e.call = q /\ e.code = row.code,
           \A e \in came : e.code = 200 => e.call \in changed',
           q \in Together /\ q \in changed' \ changed => \E e \in came : e.call = q /\ e.code = 200
    PROVE  AuditHeld'
<1> USE DEF AuditHeld
<1>1. /\ progress' \in [AuditCalls -> {Unsent, [at |-> "lost"]} \cup Answering \cup Reporting]
      /\ progress'[q] = row /\ \A p \in AuditCalls : p # q => progress'[p] = progress[p]
  BY CallPuts
<1>2. AuditTyped'
  <2>1. Built \subseteq Event
    BY DEF Built, AuditTyped, Reporting, Answering, Unsent
  <2>2. IsFiniteSet(trail')
    BY FS_Union DEF AuditTyped
  <2> QED BY <1>1, <2>1, <2>2 DEF AuditTyped
<1>3. Reported'
  <2>1. ASSUME NEW p \in AuditCalls, p # q
        PROVE  /\ progress'[p].at = "responding" /\ progress'[p].code = 200 =>
                    p \in changed' /\ p \notin Together
               /\ progress'[p].at \in {"committing", "writing"} => progress'[p].event.call = p
               /\ progress'[p].at = "committing" => progress'[p].event.code = 200
               /\ progress'[p].at = "writing" /\ progress'[p].event.code = 200 => p \in changed'
    BY <1>1, <2>1 DEF Reported
  <2> QED BY <1>1, <2>1 DEF Reported
<1>4. AnswersAudited'
  <2>1. Recorded \subseteq Recorded' /\ came \subseteq Recorded'
    BY DEF Recorded
  <2>2. ASSUME NEW p \in AuditCalls, progress'[p].at = "answered", progress'[p].code < 500
        PROVE  \E e \in Recorded' : e.call = p /\ e.code = progress'[p].code
    <3>1. CASE p = q
      BY <1>1, <2>2, <3>1 DEF Recorded
    <3>2. CASE p # q
      BY <1>1, <2>1, <2>2, <3>2 DEF AnswersAudited
    <3> QED BY <3>1, <3>2
  <2>3. \A e \in Recorded' : e.code = 200 => e.call \in changed'
    BY DEF AnswersAudited, Recorded
  <2>4. ASSUME NEW p \in Together \cap changed'
        PROVE  \E e \in Recorded' : e.call = p /\ e.code = 200
    <3>1. CASE p \in changed
      BY <2>1, <3>1 DEF AnswersAudited
    <3>2. CASE p \notin changed
      BY <2>1, <3>2
    <3> QED BY <3>1, <3>2
  <2> QED BY <2>2, <2>3, <2>4 DEF AnswersAudited
<1>5. PagesRead' /\ PagesComplete' /\ WindowsAdjoin'
  BY PagesStay
<1>6. ExportsAdjoin'
  BY DEF ExportsAdjoin, NotReading
<1> QED BY <1>2, <1>3, <1>4, <1>5, <1>6

\* Answers that are neither events nor successes.
LEMMA AnswerType ==
    ASSUME NEW code \in Codes200
    PROVE  /\ Responding(code) \in Answering /\ Responding(code).at = "responding"
           /\ Responding(code).code = code
           /\ [at |-> "answered", code |-> code] \in Answering
  BY DEF Responding, Answering

\* Without an event, a request answers or is lost.
LEMMA PlainCallKeeps ==
    ASSUME AuditHeld, NEW q \in AuditCalls, NEW row, Put(q, row),
           row \in {[at |-> "lost"]} \cup Answering,
           UNCHANGED <<moment, trail, reading, exported, aged>>,
           changed \subseteq changed', changed' \subseteq changed \cup {q},
           row.at = "responding" /\ row.code = 200 => q \in changed' /\ q \notin Together,
           row.at = "answered" => row.code >= 500,
           q \in Together => changed' = changed
    PROVE  AuditHeld'
<1>1. row.at \notin {"committing", "writing"}
  BY DEF Answering
<1>2. \A e \in Built' : e \in Built
  BY <1>1, CallPuts
<1>3. EventsApart'
  BY <1>2, KnownKept DEF AuditHeld, AuditTyped
<1>4. row.at = "answered" => ~(row.code < 500)
  BY DEF Answering, Codes200
<1>5. IsFiniteSet({}) /\ trail' = trail \cup {} /\ {} \in SUBSET Built
  BY FS_EmptySet
<1> QED BY <1>1, <1>3, <1>4, <1>5, CallKeeps

LEMMA RespondingKeeps ==
    ASSUME AuditHeld, NEW q \in AuditCalls, NEW code \in Codes200, Put(q, Responding(code)),
           UNCHANGED <<moment, trail, reading, exported, aged>>,
           changed \subseteq changed', changed' \subseteq changed \cup {q},
           code = 200 => q \in changed' /\ q \notin Together,
           q \in Together => changed' = changed
    PROVE  AuditHeld'
<1> DEFINE row == Responding(code)
<1>1. row \in {[at |-> "lost"]} \cup Answering /\ row.at = "responding" /\ row.code = code
  BY AnswerType
<1>2. Put(q, row)
  OBVIOUS
<1> HIDE DEF row
<1>3. row.at = "answered" => row.code >= 500
  BY <1>1
<1> QED BY <1>1, <1>2, <1>3, PlainCallKeeps

LEMMA HandlersKeep ==
    ASSUME AuditHeld, NEW q \in AuditCalls, HandleAlone(q) \/ EventFails(q) \/ CallLost(q)
    PROVE  AuditHeld'
<1>1. CASE HandleAlone(q)
  <2>1. PICK code \in {200, 403, 500} :
          /\ Put(q, Responding(code))
          /\ code = 200 => q \in changed'
          /\ changed \subseteq changed' /\ changed' \subseteq changed \cup {q}
    BY <1>1 DEF HandleAlone
  <2>2. q \notin Together /\ UNCHANGED <<moment, trail, reading, exported, aged>>
    BY <1>1 DEF HandleAlone
  <2>3. code \in Codes200
    BY DEF Codes200
  <2> QED BY <2>1, <2>2, <2>3, RespondingKeeps
<1>2. CASE EventFails(q)
  <2>1. PICK code \in {500, 503} : Put(q, [at |-> "answered", code |-> code])
    BY <1>2 DEF EventFails
  <2>2. UNCHANGED <<moment, trail, changed, reading, exported, aged>>
    BY <1>2 DEF EventFails
  <2>3. code \in Codes200 /\ code >= 500
    BY DEF Codes200
  <2>4. [at |-> "answered", code |-> code] \in Answering
    BY <2>3, AnswerType
  <2> QED BY <2>1, <2>2, <2>3, <2>4, PlainCallKeeps
<1>3. CASE CallLost(q)
  BY <1>3, PlainCallKeeps DEF CallLost
<1> QED BY <1>1, <1>2, <1>3

\* A request that builds an event gives it a number of its own.
LEMMA BuildingKeeps ==
    ASSUME AuditHeld, NEW q \in AuditCalls, NEW at \in {"committing", "writing"},
           NEW code \in Codes200, NEW event \in NewEvents(q, code),
           Put(q, [at |-> at, event |-> event]),
           UNCHANGED <<moment, trail, changed, reading, exported, aged>>,
           at = "committing" => code = 200,
           at = "writing" /\ code = 200 => q \in changed
    PROVE  AuditHeld'
<1> DEFINE row == [at |-> at, event |-> event]
<1>1. /\ event \in Event /\ event.time = moment /\ event.call = q /\ event.code = code
      /\ \A e \in Known : e.id # event.id
  BY NewEventsType
<1>2. row \in Reporting /\ row.at = at /\ row.event = event
  BY <1>1 DEF Reporting
<1> HIDE DEF row
<1>3. \A e \in Built' : e \in Built \/ e = event
  BY <1>2, CallPuts DEF row
<1>4. EventsApart'
  BY <1>1, <1>3, KnownGrows
<1>5. IsFiniteSet({}) /\ trail' = trail \cup {} /\ {} \in SUBSET Built
  BY FS_EmptySet
<1>6. Put(q, row)
  BY DEF row
<1> QED BY <1>1, <1>2, <1>4, <1>5, <1>6, CallKeeps

LEMMA JointHandlersKeep ==
    ASSUME AuditHeld, NEW q \in AuditCalls, HandleJointly(q) \/ BuildEvent(q)
    PROVE  AuditHeld'
<1>1. CASE HandleJointly(q)
  <2>1. UNCHANGED <<moment, trail, changed, reading, exported, aged>>
    BY <1>1 DEF HandleJointly
  <2>2. ASSUME NEW code \in {403, 503}, Put(q, Responding(code)) PROVE AuditHeld'
    <3>1. code \in Codes200 /\ code # 200
      BY DEF Codes200
    <3> QED BY <2>1, <2>2, <3>1, RespondingKeeps
  <2>3. ASSUME NEW event \in NewEvents(q, 200), Put(q, [at |-> "committing", event |-> event])
        PROVE  AuditHeld'
    <3>1. 200 \in Codes200
      BY DEF Codes200
    <3> QED BY <2>1, <2>3, <3>1, BuildingKeeps
  <2>4. Put(q, Responding(403)) \/ Put(q, Responding(503))
        \/ \E event \in NewEvents(q, 200) : Put(q, [at |-> "committing", event |-> event])
    BY <1>1 DEF HandleJointly
  <2>5. CASE Put(q, Responding(403))
    BY <2>2, <2>5
  <2>6. CASE Put(q, Responding(503))
    BY <2>2, <2>6
  <2> QED BY <2>3, <2>4, <2>5, <2>6, ZenonT(40)
<1>2. CASE BuildEvent(q)
  <2>1. progress[q] \in Answering /\ progress[q].at = "responding"
    BY <1>2 DEF BuildEvent, AuditHeld, AuditTyped, Unsent, Reporting
  <2>2. progress[q].code \in Codes200 /\ (progress[q].code = 200 => q \in changed)
    BY <2>1 DEF AuditHeld, Reported, Answering
  <2> QED BY <1>2, <2>2, BuildingKeeps DEF BuildEvent
<1> QED BY <1>1, <1>2

LEMMA CommitsKeep ==
    ASSUME AuditHeld, NEW q \in AuditCalls, CommitJointly(q) \/ CommitEvent(q)
    PROVE  AuditHeld'
<1> DEFINE event == progress[q].event
<1>1. progress[q] \in Reporting /\ progress[q].at \in {"committing", "writing"}
  BY DEF CommitJointly, CommitEvent, AuditHeld, AuditTyped, Unsent, Answering
<1>2. event \in Event /\ event \in Built /\ event.call = q /\ event.code \in Codes200
      /\ (progress[q].at = "committing" => event.code = 200)
      /\ (progress[q].at = "writing" /\ event.code = 200 => q \in changed)
  BY <1>1 DEF Reporting, Event, Built, AuditHeld, Reported
<1>3. UNCHANGED <<moment, reading, exported, aged>>
  BY DEF CommitJointly, CommitEvent
<1> HIDE DEF event
<1>4. IsFiniteSet({event}) /\ {event} \in SUBSET Built
  <2>1. IsFiniteSet({event})
    BY FS_Singleton, ZenonT(40)
  <2> QED BY <1>2, <2>1
<1>5. ASSUME NEW row \in Answering, Put(q, row), trail' = trail \cup {event}
      PROVE  EventsApart'
  <2>1. \A e \in Built' : e \in Built
    BY <1>5, CallPuts DEF Answering
  <2> QED BY <1>2, <1>3, <1>5, <2>1, KnownKept DEF AuditHeld, AuditTyped
<1>6. CASE CommitJointly(q)
  <2>1. CASE Put(q, Responding(500)) /\ UNCHANGED <<trail, changed>>
    <3>1. 500 \in Codes200
      BY DEF Codes200
    <3> QED BY <1>3, <2>1, <3>1, RespondingKeeps
  <2>2. CASE /\ trail' = trail \cup {event} /\ changed' = changed \cup {q}
             /\ Put(q, [at |-> "answered", code |-> 200])
    <3>1. [at |-> "answered", code |-> 200] \in Answering
      BY AnswerType DEF Codes200
    <3>2. EventsApart'
      BY <1>5, <2>2, <3>1
    <3>3. event.code = 200
      BY <1>2, <1>6 DEF CommitJointly
    <3> QED BY <1>2, <1>3, <1>4, <2>2, <3>1, <3>2, <3>3, CallKeeps
  <2>3. CASE /\ trail' = trail \cup {event} /\ changed' = changed \cup {q}
             /\ Put(q, Responding(500))
    <3>1. Responding(500) \in Answering /\ Responding(500).at = "responding"
          /\ Responding(500).code = 500
      BY AnswerType DEF Codes200
    <3>2. EventsApart'
      BY <1>5, <2>3, <3>1
    <3>3. event.code = 200
      BY <1>2, <1>6 DEF CommitJointly
    <3> QED BY <1>2, <1>3, <1>4, <2>3, <3>1, <3>2, <3>3, CallKeeps
  <2> QED BY <1>6, <2>1, <2>2, <2>3 DEF CommitJointly, event
<1>7. CASE CommitEvent(q)
  <2>1. trail' = trail \cup {event} /\ changed' = changed /\ progress[q].at = "writing"
        /\ Put(q, [at |-> "answered", code |-> event.code])
    BY <1>7 DEF CommitEvent, event
  <2>2. [at |-> "answered", code |-> event.code] \in Answering
    BY <1>2, AnswerType
  <2>3. EventsApart'
    BY <1>5, <2>1, <2>2
  <2> QED BY <1>2, <1>3, <1>4, <2>1, <2>2, <2>3, CallKeeps
<1> QED BY <1>6, <1>7

----------------------------------------------------------------------------
(* The order of the trail *)

LEMMA NewerOrders ==
    ASSUME RequestAuditAssumption, NEW e \in Event, NEW f \in Event, NEW g \in Event
    PROVE  /\ ~Newer(e, e) /\ ~(Newer(e, f) /\ Newer(f, e))
           /\ Newer(e, f) /\ Newer(f, g) => Newer(e, g)
           /\ e.id # f.id => Newer(e, f) \/ Newer(f, e)
<1>1. \A h \in Event : h.id \in Nat /\ h.time \in Nat
  BY DEF Event, RequestAuditAssumption
<1> QED BY <1>1 DEF Newer

\* Finitely many events have an oldest and a newest.
LEMMA Extremes ==
    ASSUME RequestAuditAssumption, NEW S \in SUBSET Event, IsFiniteSet(S), S # {},
           \A e, f \in S : e.id = f.id => e = f
    PROVE  /\ \E e \in S : \A f \in S : e = f \/ Newer(f, e)
           /\ \E e \in S : \A f \in S : ~Newer(f, e)
<1> DEFINE Below(e) == {f \in S : Newer(e, f)}
           Above(e) == {f \in S : Newer(f, e)}
           belows == {Below(e) : e \in S}
           aboves == {Above(e) : e \in S}
<1>1. /\ belows \subseteq FiniteSubsetsOf(S) /\ belows # {}
      /\ aboves \subseteq FiniteSubsetsOf(S) /\ aboves # {}
  <2>1. \A T \in SUBSET S : T \in FiniteSubsetsOf(S)
    BY FS_Subset DEF FiniteSubsetsOf
  <2>2. \A e \in S : Below(e) \in SUBSET S /\ Above(e) \in SUBSET S
    OBVIOUS
  <2> HIDE DEF Below, Above
  <2>3. belows \subseteq FiniteSubsetsOf(S) /\ aboves \subseteq FiniteSubsetsOf(S)
    BY <2>1, <2>2
  <2> QED BY <2>3
<1>2. \E e \in S : \A f \in S : e = f \/ Newer(f, e)
  <2>1. PICK s \in belows : \A t \in belows : ~ (<<t, s>> \in StrictSubsetOrdering(S))
    BY <1>1, FS_StrictSubsetOrderingWellFounded, WFMin
  <2>2. PICK e \in S : s = Below(e)
    BY <2>1
  <2>3. ASSUME NEW f \in S, Newer(e, f) PROVE FALSE
    <3>1. f \in Below(e) /\ f \notin Below(f)
      BY <2>3, NewerOrders
    <3>2. Below(f) \subseteq Below(e)
      BY <2>3, NewerOrders
    <3>3. Below(f) \subseteq S /\ Below(e) \subseteq S
      OBVIOUS
    <3>4. <<Below(f), Below(e)>> \in StrictSubsetOrdering(S)
      BY <3>1, <3>2, <3>3 DEF StrictSubsetOrdering
    <3>5. Below(f) \in belows
      OBVIOUS
    <3> HIDE DEF belows, Below
    <3> QED BY <2>1, <2>2, <3>4, <3>5
  <2>4. \A f \in S : e = f \/ Newer(f, e)
    BY <2>3, NewerOrders
  <2> QED BY <2>4
<1>3. \E e \in S : \A f \in S : ~Newer(f, e)
  <2>1. PICK s \in aboves : \A t \in aboves : ~ (<<t, s>> \in StrictSubsetOrdering(S))
    BY <1>1, FS_StrictSubsetOrderingWellFounded, WFMin
  <2>2. PICK e \in S : s = Above(e)
    BY <2>1
  <2>3. ASSUME NEW f \in S, Newer(f, e) PROVE FALSE
    <3>1. f \in Above(e) /\ f \notin Above(f)
      BY <2>3, NewerOrders
    <3>2. Above(f) \subseteq Above(e)
      BY <2>3, NewerOrders
    <3>3. Above(f) \subseteq S /\ Above(e) \subseteq S
      OBVIOUS
    <3>4. <<Above(f), Above(e)>> \in StrictSubsetOrdering(S)
      BY <3>1, <3>2, <3>3 DEF StrictSubsetOrdering
    <3>5. Above(f) \in aboves
      OBVIOUS
    <3> HIDE DEF aboves, Above
    <3> QED BY <2>1, <2>2, <3>4, <3>5
  <2> QED BY <2>3
<1> QED BY <1>2, <1>3

\* A page has the newest of what follows its cursor, and something if there is any.
LEMMA PageOf ==
    ASSUME RequestAuditAssumption, AuditTyped, EventsApart, NEW cursor
    PROVE  /\ Page(cursor) \subseteq Following(cursor) /\ Following(cursor) \subseteq trail
           /\ \A e \in Page(cursor), f \in Following(cursor) : Newer(f, e) => f \in Page(cursor)
           /\ Following(cursor) # {} => Page(cursor) # {}
           /\ IsFiniteSet(Page(cursor))
<1> DEFINE rest == Following(cursor)
           Above(e) == {f \in rest : Newer(f, e)}
<1>1. rest \subseteq trail /\ trail \subseteq Event /\ IsFiniteSet(rest)
  BY FS_Subset DEF Following, AuditTyped
<1>2. Page(cursor) = {e \in rest : Cardinality(Above(e)) < PageSize}
  BY DEF Page
<1>3. \A e : IsFiniteSet(Above(e)) /\ Cardinality(Above(e)) \in Nat
  BY <1>1, FS_Subset, FS_CardinalityType
<1>4. ASSUME NEW e \in rest, NEW f \in rest, Newer(f, e), Cardinality(Above(e)) < PageSize
      PROVE  Cardinality(Above(f)) < PageSize
  <2>1. Above(f) \subseteq Above(e)
    BY <1>1, <1>4, NewerOrders
  <2>2. Cardinality(Above(f)) <= Cardinality(Above(e))
    BY <1>3, <2>1, FS_Subset
  <2>3. PageSize \in Nat
    BY DEF RequestAuditAssumption
  <2> HIDE DEF Above
  <2> QED BY <1>3, <1>4, <2>2, <2>3
<1>5. ASSUME rest # {} PROVE Page(cursor) # {}
  <2>1. \A e, f \in rest : e.id = f.id => e = f
    BY <1>1 DEF EventsApart, Known
  <2>2. PICK e \in rest : \A f \in rest : ~Newer(f, e)
    <3> HIDE DEF rest
    <3> QED BY <1>1, <1>5, <2>1, Extremes
  <2>3. Above(e) = {}
    BY <2>2
  <2>4. Cardinality(Above(e)) < PageSize
    BY <2>3, FS_EmptySet DEF RequestAuditAssumption
  <2> QED BY <1>2, <2>4
<1>6. IsFiniteSet(Page(cursor))
  BY <1>1, <1>2, FS_Subset
<1> HIDE DEF Above
<1> QED BY <1>1, <1>2, <1>4, <1>5, <1>6

----------------------------------------------------------------------------
(* The auditor and the maintenance role *)

LEMMA MomentKeeps == ASSUME RequestAuditAssumption, AuditHeld, ClockTicks PROVE AuditHeld'
<1>0. UNCHANGED <<trail, changed, progress, reading, exported, aged>> /\ moment' = moment + 1
      /\ moment' \in 0..LastMoment /\ moment <= moment' /\ moment' \in Nat
  BY DEF ClockTicks, AuditHeld, AuditTyped, RequestAuditAssumption
<1>1. Built' = Built
  BY <1>0 DEF Built
<1>2. EventsApart'
  BY <1>0, <1>1, KnownKept
<1>3. AuditTyped' /\ Reported' /\ AnswersAudited' /\ ExportsAdjoin'
  BY <1>0 DEF AuditHeld, AuditTyped, Reported, AnswersAudited, Recorded, ExportsAdjoin, NotReading
<1>4. PagesRead' /\ PagesComplete' /\ WindowsAdjoin'
  BY <1>0, PagesStay
<1> QED BY <1>2, <1>3, <1>4 DEF AuditHeld

\* The first of the exports whose window ends after an event has that event, if
\* it was there and the export was not truncated.
LEMMA FirstExport ==
    ASSUME AuditHeld, NEW e \in Event, Dated(e)
    PROVE  \E i \in DOMAIN exported : Windowed(e, i)
<1> DEFINE after == {i \in Nat \ {0} : i <= Len(exported) /\ e.time < exported[i].until}
           heads == {1..i : i \in after}
<1>1. Len(exported) \in Nat /\ DOMAIN exported = 1..Len(exported) /\ e.time \in Nat
  BY DEF AuditHeld, AuditTyped, Event
<1>2. after \subseteq Nat /\ after # {}
  BY <1>1 DEF Dated
<1>3. heads \subseteq FiniteSubsetsOf(Nat) /\ heads # {}
  <2>1. ASSUME NEW i \in after PROVE 1..i \subseteq Nat /\ IsFiniteSet(1..i)
    <3>1. i \in Int /\ 1 \in Int
      OBVIOUS
    <3> HIDE DEF after
    <3>2. IsFiniteSet(1..i)
      BY <3>1, FS_Interval
    <3> QED BY <3>2
  <2> QED BY <1>2, <2>1 DEF FiniteSubsetsOf
<1>4. PICK s \in heads : \A t \in heads : ~ (<<t, s>> \in StrictSubsetOrdering(Nat))
  BY <1>3, FS_StrictSubsetOrderingWellFounded, WFMin
<1>5. PICK i \in after : s = 1..i
  BY <1>4
<1>6. ASSUME NEW j \in 1..(i - 1) PROVE e.time >= exported[j].until
  <2>1. SUFFICES ASSUME j \in after PROVE FALSE
    <3>1. exported[j] \in Export /\ j <= Len(exported) /\ j \in Nat \ {0}
      BY <1>1, <1>5, <1>6 DEF AuditHeld, AuditTyped
    <3>2. exported[j].until \in Nat
      BY <3>1 DEF Export
    <3> QED BY <1>1, <3>1, <3>2
  <2>2. 1..j \subseteq 1..i /\ 1..j # 1..i /\ 1..j \subseteq Nat /\ 1..i \subseteq Nat
    BY <1>6
  <2>3. <<1..j, s>> \in StrictSubsetOrdering(Nat)
    BY <1>5, <2>2 DEF StrictSubsetOrdering
  <2> QED BY <1>4, <2>1, <2>3
<1> QED BY <1>1, <1>5, <1>6 DEF Windowed

LEMMA AgingKeeps ==
    ASSUME AuditHeld, NEW role \in {"runtime", "owner", "maintenance"}, NEW maintenance \in BOOLEAN,
           NEW operation \in {"update", "delete"}, MutateEvent(role, maintenance, operation)
    PROVE  AuditHeld'
<1> USE DEF AuditHeld
<1>1. operation = "delete" /\ role = "maintenance"
  BY DEF MutateEvent, MutationPermitted
<1>2. PICK e \in trail : /\ reading # NotReading \/ Dated(e)
                         /\ trail' = trail \ {e} /\ aged' = aged \cup {e}
  BY <1>1 DEF MutateEvent
<1>3. UNCHANGED <<moment, changed, progress, reading, exported>>
  BY DEF MutateEvent
<1>4. AuditTyped'
  BY <1>2, <1>3, FS_RemoveElement DEF AuditTyped
<1>5. EventsApart'
  <2>1. Built' = Built
    BY <1>3 DEF Built
  <2>2. moment <= moment' /\ moment' \in Nat
    BY <1>3 DEF AuditTyped
  <2> QED BY <1>2, <2>1, <2>2, KnownKept
<1>6. PagesRead' /\ PagesComplete' /\ WindowsAdjoin'
  BY <1>2, <1>3, PagesStay
<1>7. Recorded' = Recorded
  BY <1>2 DEF Recorded
<1>8. AnswersAudited' /\ Reported'
  BY <1>3, <1>7 DEF AnswersAudited, Reported
<1>9. ExportsAdjoin'
  <2>1. ASSUME reading = NotReading
        PROVE  \E i \in DOMAIN exported :
                   /\ e.time < exported[i].until
                   /\ e \in exported[i].rows \/ exported[i].truncated \/ e \notin exported[i].there
    <3>1. e \in Event /\ Dated(e)
      BY <1>2, <2>1 DEF AuditTyped
    <3>2. PICK i \in DOMAIN exported : Windowed(e, i)
      BY <3>1, FirstExport
    <3> QED BY <3>2 DEF WindowsAdjoin, Windowed
  <2>2. NotReading' = NotReading
    BY DEF NotReading
  <2>3. exported' = exported /\ reading' = reading /\ aged' = aged \cup {e}
    BY <1>2, <1>3
  <2>4. ASSUME reading = NotReading, NEW f \in aged'
        PROVE  \E i \in DOMAIN exported :
                   /\ f.time < exported[i].until
                   /\ f \in exported[i].rows \/ exported[i].truncated \/ f \notin exported[i].there
    BY <2>1, <2>3, <2>4 DEF ExportsAdjoin
  <2> QED BY <2>2, <2>3, <2>4 DEF ExportsAdjoin
<1> QED BY <1>4, <1>5, <1>6, <1>8, <1>9

LEMMA ReadingKeeps == ASSUME RequestAuditAssumption, AuditHeld, ReadPage PROVE AuditHeld'
<1> USE DEF AuditHeld
<1> DEFINE rest == Following(reading.cursor)
           page == Page(reading.cursor)
           more == page # rest
           oldest == CHOOSE e \in page : \A f \in page : e = f \/ Newer(f, e)
           gone == reading.at = "more" /\ \A e \in trail : e.id # reading.cursor
           next == [at |-> IF more THEN "more" ELSE "end", read |-> reading.read \cup page,
                    first |-> IF reading.at = "start" THEN trail ELSE reading.first,
                    cursor |-> IF more THEN oldest.id ELSE 0,
                    again |-> reading.again \/ page \cap reading.read # {},
                    lost |-> reading.lost \/ gone]
<1>0. /\ reading.at \in {"start", "more"} /\ exported = <<>> /\ reading' = next
      /\ UNCHANGED <<moment, trail, changed, progress, exported, aged>>
  BY DEF ReadPage
<1>1. /\ page \subseteq rest /\ rest \subseteq trail /\ trail \subseteq Event
      /\ \A e \in page, f \in rest : Newer(f, e) => f \in page
      /\ rest # {} => page # {}
      /\ IsFiniteSet(page)
  BY PageOf DEF AuditTyped
<1>2. \A e, f \in trail \cup aged : e.id = f.id => e = f
  BY DEF EventsApart, Known
<1>3. more => oldest \in page /\ \A f \in page : oldest = f \/ Newer(f, oldest)
  <2> SUFFICES ASSUME more PROVE oldest \in page /\ \A f \in page : oldest = f \/ Newer(f, oldest)
    OBVIOUS
  <2> HIDE DEF page, rest
  <2>1. page # {}
    BY <1>1
  <2>2. \A e, f \in page : e.id = f.id => e = f
    BY <1>1, <1>2
  <2>3. \E e \in page : \A f \in page : e = f \/ Newer(f, e)
    BY <1>1, <2>1, <2>2, Extremes
  <2> QED BY <2>3
<1>4. /\ reading \in Reading /\ reading.again \in BOOLEAN /\ reading.lost \in BOOLEAN
      /\ reading.read \subseteq Event /\ reading.first \subseteq Event
      /\ reading.read \subseteq trail \cup aged /\ reading.first \subseteq trail \cup aged
      /\ aged \subseteq Event
  BY DEF AuditTyped, Reading, PagesRead
\* What follows a cursor is all there is, or all that is older than its event.
<1>5. ASSUME reading.at = "start" PROVE rest = trail /\ reading.read = {} /\ ~reading.lost
                                        /\ ~reading.again
  <2>1. reading = NotReading
    BY <1>5 DEF PagesRead
  <2>2. reading.cursor = 0 /\ reading.read = {} /\ ~reading.lost /\ ~reading.again
    BY <2>1 DEF NotReading
  <2>3. \A f \in trail : f.id # 0
    BY <1>1 DEF Event, RequestAuditAssumption
  <2> QED BY <2>2, <2>3 DEF Following
<1>6. ASSUME NEW c \in reading.read, CursorOf(c), reading.at = "more"
      PROVE  IF c \in trail THEN ~gone /\ rest = {e \in trail : Newer(c, e)}
             ELSE gone /\ rest = trail
  <2>1. c.id = reading.cursor /\ c \in trail \cup aged
    BY <1>4, <1>6 DEF CursorOf
  <2>2. CASE c \in trail
    <3>1. \A f \in trail : f.id = reading.cursor <=> f = c
      BY <1>2, <2>1, <2>2
    <3> QED BY <1>6, <2>2, <3>1 DEF Following
  <2>3. CASE c \notin trail
    <3>1. \A f \in trail : f.id # reading.cursor
      BY <1>2, <2>1, <2>3
    <3> QED BY <1>6, <2>3, <3>1 DEF Following
  <2> QED BY <2>2, <2>3
<1> HIDE DEF page, rest, oldest, gone
<1>7. /\ next.at = IF more THEN "more" ELSE "end"
      /\ next.read = reading.read \cup page
      /\ next.first = IF reading.at = "start" THEN trail ELSE reading.first
      /\ next.cursor = IF more THEN oldest.id ELSE 0
      /\ next.again = (reading.again \/ page \cap reading.read # {})
      /\ next.lost = (reading.lost \/ gone)
  OBVIOUS
<1>8. next \in Reading
  <2>1. /\ (IF more THEN "more" ELSE "end") \in {"start", "more", "end"}
        /\ reading.read \cup page \in SUBSET Event
        /\ (IF reading.at = "start" THEN trail ELSE reading.first) \in SUBSET Event
        /\ (reading.again \/ page \cap reading.read # {}) \in BOOLEAN
        /\ (reading.lost \/ gone) \in BOOLEAN
    BY <1>1, <1>4
  <2>2. (IF more THEN oldest.id ELSE 0) \in EventIds \cup {0}
    BY <1>1, <1>3 DEF Event
  <2> HIDE DEF more
  <2> QED BY <2>1, <2>2 DEF Reading
<1> HIDE DEF next
\* What was there first and has not been read is on the page or behind it.
<1>9. \A e \in next.first : e \in next.read \cup aged \/ e \in rest
  <2>1. CASE reading.at = "start"
    BY <1>5, <1>7, <2>1
  <2>2. CASE reading.at = "more"
    <3>1. PICK c \in reading.read : CursorOf(c)
      BY <2>2 DEF PagesRead
    <3>2. \A e \in reading.first \ (reading.read \cup aged) : Newer(c, e)
      BY <3>1 DEF CursorOf
    <3> QED BY <1>4, <1>6, <1>7, <2>2, <3>1, <3>2
  <2> QED BY <1>0, <2>1, <2>2
<1>10. ASSUME more PROVE \A e \in rest \ page : Newer(oldest, e)
  <2>1. ASSUME NEW e \in rest \ page PROVE Newer(oldest, e)
    <3>1. oldest \in page /\ oldest \in Event /\ e \in Event /\ oldest # e
      BY <1>1, <1>3, <1>10, <2>1
    <3>2. oldest.id # e.id
      BY <1>1, <1>2, <3>1, <2>1
    <3>3. ~Newer(e, oldest)
      BY <1>1, <2>1, <3>1
    <3> QED BY <3>1, <3>2, <3>3, NewerOrders
  <2> QED BY <2>1
\* As long as no cursor is lost, nothing read is behind it.
<1>11. ASSUME ~next.lost
       PROVE  /\ page \cap reading.read = {} /\ ~reading.again
              /\ \A e \in reading.read, f \in page : Newer(e, f)
  <2>1. ~reading.lost /\ ~gone
    BY <1>4, <1>7, <1>11
  <2>2. ~reading.again
    BY <1>4, <2>1 DEF PagesComplete
  <2>3. \A e \in reading.read, f \in page : Newer(e, f)
    <3>1. CASE reading.at = "start"
      BY <1>5, <3>1
    <3>2. CASE reading.at = "more"
      <4>1. PICK c \in reading.read : CursorOf(c)
        BY <3>2 DEF PagesRead
      <4>2. \A f \in page : Newer(c, f)
        BY <1>1, <1>6, <2>1, <3>2, <4>1
      <4>3. \A e \in reading.read : e = c \/ Newer(e, c)
        BY <2>1, <4>1 DEF CursorOf
      <4>4. \A e \in reading.read, f \in page : e \in Event /\ c \in Event /\ f \in Event
        BY <1>1, <1>4
      <4> QED BY <4>2, <4>3, <4>4, NewerOrders
    <3> QED BY <1>0, <3>1, <3>2
  <2>4. \A e \in reading.read \cap page : FALSE
    BY <1>1, <2>3, NewerOrders
  <2> QED BY <2>2, <2>3, <2>4
<1>12. PagesRead'
  <2>1. next.at # "start" /\ exported' = <<>>
    BY <1>0, <1>7
  <2>2. next.read \subseteq trail \cup aged /\ next.first \subseteq trail \cup aged
    BY <1>1, <1>4, <1>7
  <2>3. ASSUME next.at = "more" PROVE \E c \in reading'.read : CursorOf(c)'
    <3>1. more
      BY <1>7, <2>3
    <3>2. PICK c \in page : c = oldest
      BY <1>3, <3>1
    <3>3. next.cursor = c.id /\ c \in next.read
      BY <1>7, <3>1, <3>2
    <3>4. ASSUME NEW e \in next.first \ (next.read \cup aged) PROVE Newer(c, e)
      BY <1>7, <1>9, <1>10, <3>1, <3>2, <3>4
    <3>5. ASSUME ~next.lost, NEW e \in next.read PROVE e = c \/ Newer(e, c)
      BY <1>3, <1>7, <1>11, <3>1, <3>2, <3>5
    <3>6. CursorOf(c)'
      BY <1>0, <3>3, <3>4, <3>5 DEF CursorOf, Newer
    <3> QED BY <1>0, <3>3, <3>6
  <2> QED BY <1>0, <2>1, <2>2, <2>3 DEF PagesRead
<1>13. PagesComplete'
  <2>1. next.again => next.lost
    BY <1>4, <1>7, <1>11
  <2>2. next.at = "end" => next.first \subseteq next.read \cup aged
    BY <1>7, <1>9
  <2> QED BY <1>0, <2>1, <2>2 DEF PagesComplete
<1>14. AuditTyped'
  BY <1>0, <1>8 DEF AuditTyped
<1>15. EventsApart' /\ Reported' /\ AnswersAudited'
  BY <1>0 DEF EventsApart, Known, Built, Reported, AnswersAudited, Recorded
<1>16. WindowsAdjoin' /\ ExportsAdjoin'
  <2>1. next # NotReading
    BY <1>7 DEF NotReading
  <2> QED BY <1>0, <2>1 DEF WindowsAdjoin, Windowed, ExportsAdjoin, NotReading
<1> QED BY <1>12, <1>13, <1>14, <1>15, <1>16

LEMMA ExportingKeeps ==
    ASSUME RequestAuditAssumption, AuditHeld, NEW until \in 1..(LastMoment + 1), ExportEvents(until)
    PROVE  AuditHeld'
<1> USE DEF AuditHeld
<1> DEFINE from == IF exported = <<>> THEN 0 ELSE exported[Len(exported)].until
           events == Window(from, until)
           rows == OldestRows(events)
           export == [until |-> until, there |-> trail, rows |-> rows, truncated |-> rows # events]
<1>0. /\ reading = NotReading /\ from < until /\ exported' = Append(exported, export)
      /\ UNCHANGED <<moment, trail, changed, progress, reading, aged>>
  BY DEF ExportEvents
<1>1. /\ trail \subseteq Event /\ exported \in Seq(Export) /\ Len(exported) \in Nat
      /\ until \in Nat /\ \A e \in trail : e.time \in Nat
  BY DEF AuditTyped, Event, RequestAuditAssumption
<1>2. events = {e \in trail : e.time >= from /\ e.time < until} /\ rows \subseteq events
  BY DEF Window, OldestRows
<1> HIDE DEF rows
<1>3. export \in Export /\ export.until = until /\ export.there = trail /\ export.rows = rows
      /\ export.truncated = (rows # events)
  BY <1>1, <1>2 DEF Export
<1> HIDE DEF events, export
<1> PICK last \in Nat : last = Len(exported) + 1
  BY <1>1
<1>4. /\ exported' \in Seq(Export) /\ DOMAIN exported' = 1..last /\ DOMAIN exported = 1..(last - 1)
      /\ exported'[last] = export /\ \A i \in 1..(last - 1) : exported'[i] = exported[i]
  BY <1>0, <1>1, <1>3
<1>5. \A i \in 1..(last - 1) : exported[i].until \in Nat
  <2>1. \A i \in 1..(last - 1) : exported[i] \in Export
    BY <1>1
  <2> QED BY <2>1 DEF Export
\* The new window begins where the last ended, and no window ended later.
<1>6. /\ from \in Nat /\ \A i \in 1..(last - 1) : exported[i].until <= from
      /\ \A n \in Nat : (\A i \in 1..(last - 1) : n >= exported[i].until) => n >= from
  <2>1. CASE exported = <<>>
    BY <2>1
  <2>2. CASE exported # <<>>
    <3>1. Len(exported) \in 1..(last - 1) /\ from = exported[Len(exported)].until
      BY <1>1, <2>2
    <3>2. \A i \in 1..(last - 1) : exported[i].until <= exported[Len(exported)].until
      BY <1>1, <1>4, <3>1 DEF WindowsAdjoin
    <3> QED BY <1>5, <3>1, <3>2
  <2> QED BY <2>1, <2>2
<1> HIDE DEF from
<1>7. AuditTyped'
  BY <1>0, <1>4 DEF AuditTyped
<1>8. EventsApart' /\ Reported' /\ AnswersAudited'
  BY <1>0 DEF EventsApart, Known, Built, Reported, AnswersAudited, Recorded
<1>9. PagesRead' /\ PagesComplete'
  BY <1>0 DEF PagesRead, PagesComplete, NotReading
<1>10. \A e : \A i \in 1..(last - 1) : Windowed(e, i)' <=> Windowed(e, i)
  <2>1. ASSUME NEW i \in 1..(last - 1), NEW j \in 1..(i - 1)
        PROVE  j \in 1..(last - 1)
    BY <1>1
  <2> QED BY <1>4, <2>1 DEF Windowed
<1>11. \A e \in trail : Windowed(e, last)' <=> e \in events
  <2>1. ASSUME NEW e \in trail
        PROVE  Windowed(e, last)' <=> e \in events
    <3>1. Windowed(e, last)' <=> e.time < until /\ \A j \in 1..(last - 1) : e.time >= exported[j].until
      BY <1>3, <1>4 DEF Windowed
    <3>2. e.time >= from <=> \A j \in 1..(last - 1) : e.time >= exported[j].until
      <4>1. e.time \in Nat
        BY <1>1
      <4>2. ASSUME e.time >= from, NEW j \in 1..(last - 1)
            PROVE  e.time >= exported[j].until
        <5>1. exported[j].until \in Nat /\ exported[j].until <= from
          BY <1>5, <1>6
        <5> QED BY <1>6, <4>1, <4>2, <5>1
      <4>3. (\A j \in 1..(last - 1) : e.time >= exported[j].until) => e.time >= from
        BY <1>6, <4>1
      <4> QED BY <4>2, <4>3
    <3> QED BY <1>2, <3>1, <3>2
  <2> QED BY <2>1
<1>12. WindowsAdjoin'
  <2>1. ASSUME NEW i \in 1..last, NEW j \in 1..last, i <= j
        PROVE  exported'[i].until <= exported'[j].until
    <3>1. CASE j = last
      BY <1>0, <1>1, <1>3, <1>4, <1>5, <1>6, <2>1, <3>1
    <3>2. CASE j # last
      <4>1. i \in 1..(last - 1) /\ j \in 1..(last - 1)
        BY <1>1, <2>1, <3>2
      <4> QED BY <1>4, <2>1, <4>1 DEF WindowsAdjoin
    <3> QED BY <3>1, <3>2
  <2>2. ASSUME NEW i \in 1..last
        PROVE  /\ \A e \in exported'[i].rows : Windowed(e, i)'
               /\ \A e \in exported'[i].there : Windowed(e, i)' =>
                    e \in exported'[i].rows \/ exported'[i].truncated
    <3>1. CASE i = last
      BY <1>2, <1>3, <1>4, <1>11, <3>1
    <3>2. CASE i # last
      <4>1. i \in 1..(last - 1)
        BY <1>1, <3>2
      <4> QED BY <1>4, <1>10, <4>1 DEF WindowsAdjoin
    <3> QED BY <3>1, <3>2
  <2> QED BY <1>4, <2>1, <2>2 DEF WindowsAdjoin
<1>13. ExportsAdjoin'
  <2>1. \A i \in 1..(last - 1) : exported[i].rows \cap rows = {}
    <3>1. ASSUME NEW i \in 1..(last - 1), NEW e \in exported[i].rows \cap rows PROVE FALSE
      <4>1. e \in trail /\ e.time >= from
        BY <1>2, <3>1
      <4>2. e.time < exported[i].until
        BY <1>4, <3>1 DEF WindowsAdjoin, Windowed
      <4>3. exported[i].until <= from /\ exported[i].until \in Nat /\ from \in Nat /\ e.time \in Nat
        BY <1>1, <1>5, <1>6, <4>1
      <4> QED BY <4>1, <4>2, <4>3
    <3> QED BY <3>1
  <2>2. ASSUME NEW i \in 1..last, NEW j \in 1..last, i # j
        PROVE  exported'[i].rows \cap exported'[j].rows = {}
    <3>1. CASE i \in 1..(last - 1) /\ j \in 1..(last - 1)
      BY <1>4, <2>2, <3>1 DEF ExportsAdjoin
    <3>2. CASE i = last
      <4>1. j \in 1..(last - 1)
        BY <1>1, <2>2, <3>2
      <4> QED BY <1>3, <1>4, <2>1, <3>2, <4>1
    <3>3. CASE j = last
      <4>1. i \in 1..(last - 1)
        BY <1>1, <2>2, <3>3
      <4> QED BY <1>3, <1>4, <2>1, <3>3, <4>1
    <3> QED BY <1>1, <3>1, <3>2, <3>3
  <2>3. ASSUME NEW e \in aged
        PROVE  \E i \in 1..last :
                   /\ e.time < exported'[i].until
                   /\ \/ e \in exported'[i].rows \/ exported'[i].truncated
                      \/ e \notin exported'[i].there
    <3>1. PICK i \in 1..(last - 1) :
              /\ e.time < exported[i].until
              /\ e \in exported[i].rows \/ exported[i].truncated \/ e \notin exported[i].there
      BY <1>0, <1>4 DEF ExportsAdjoin
    <3>2. i \in 1..last
      BY <1>1
    <3> QED BY <1>4, <3>1, <3>2
  <2> QED BY <1>0, <1>4, <2>2, <2>3 DEF ExportsAdjoin
<1> QED BY <1>7, <1>8, <1>9, <1>12, <1>13

\* The invariant: what has been answered, changed, built, read and exported at
\* any moment, and what of it is still to come (audit.py:383-601, main.py:507-578).
THEOREM AuditInvariant == AuditSpec => []AuditHeld
<1> USE RequestAuditAssumption
<1>1. AuditHeld /\ [NextAudit]_auditVars => AuditHeld'
  <2> SUFFICES ASSUME AuditHeld, [NextAudit]_auditVars PROVE AuditHeld'
    OBVIOUS
  <2>1. CASE UNCHANGED auditVars
    <3>0. UNCHANGED <<moment, trail, changed, progress, reading, exported, aged>>
      BY <2>1 DEF auditVars
    <3>1. AuditTyped' /\ EventsApart' /\ Reported' /\ AnswersAudited'
      BY <3>0 DEF AuditHeld, AuditTyped, EventsApart, Known, Built, Reported, AnswersAudited, Recorded
    <3>2. PagesRead' /\ PagesComplete' /\ WindowsAdjoin'
      BY <3>0, PagesStay
    <3>3. ExportsAdjoin'
      BY <3>0 DEF AuditHeld, ExportsAdjoin, NotReading
    <3> QED BY <3>1, <3>2, <3>3 DEF AuditHeld
  <2>2. CASE NextAudit
    BY <2>2, HandlersKeep, JointHandlersKeep, CommitsKeep, MomentKeeps, ReadingKeeps,
       ExportingKeeps, AgingKeeps DEF NextAudit
  <2> QED BY <2>1, <2>2
<1> QED BY <1>1, AuditStart, PTL DEF AuditSpec

\* The trail is complete when it is written, paged through and exported, for any
\* requests, page size and clock (audit.py:383-478 and 528-601).
THEOREM TrailHolds == AuditSpec => []TrailComplete
<1>1. AuditHeld => TrailComplete
  <2> SUFFICES ASSUME AuditHeld PROVE AuditTypeOK
    BY DEF AuditHeld, TrailComplete
  <2>1. \A e \in trail : e.id \in EventIds /\ e.time \in Nat /\ e.call \in AuditCalls
                         /\ e.time <= moment
    BY DEF AuditHeld, AuditTyped, EventsApart, Event
  <2>2. moment \in 0..LastMoment
    BY DEF AuditHeld, AuditTyped
  <2>3. \A e \in trail : e.time \in 0..moment
    BY <2>1, <2>2, RequestAuditAssumption DEF RequestAuditAssumption
  <2>4. \A e, f \in trail : e.id = f.id => e = f
    BY DEF AuditHeld, EventsApart, Known
  <2>5. reading.read \subseteq trail \cup aged
    BY DEF AuditHeld, PagesRead
  <2> QED BY <2>1, <2>2, <2>3, <2>4, <2>5 DEF AuditTypeOK
<1> QED BY <1>1, AuditInvariant, PTL

----------------------------------------------------------------------------
(* Exports: the inductive invariant *)

JobRow == [status : {"queued", "running"} \cup Ended, actor : Actors, payload : Artifacts,
           task : BOOLEAN, begun : 0..MaxAttempts]
ArtifactRow == [status : {"queued", "completed", "failed"}, dsr : BOOLEAN,
                stored : 0..MaxAttempts]
\* Requests whose artifact is there, and those whose job is.
Enqueueing == {"lookup", "insert"}
Enqueued == {"publish", "record", "undelivered", "failing", "answered", "completing", "running"}
Asking == [at : {"create", "returned", "refused", "unavailable", "lost"} \cup Enqueueing
                  \cup Enqueued,
           actor : Actors, key : JobKeys, payload : Artifacts, dsr : BOOLEAN]
Handler == [key : JobKeys, n : 1..MaxAttempts,
            at : {"begin", "checked", "building", "stored", "failing", "done", "raised"}]

ExportsTyped ==
    /\ jobs \in [JobKeys -> {NoJob} \cup JobRow] /\ queue \subseteq JobKeys
    /\ clients \in [Clients -> {Arriving} \cup Asking]
    /\ artifacts \in [Artifacts -> {NoArtifact} \cup ArtifactRow]
    /\ objects \in [Artifacts -> 0..MaxAttempts]
    /\ dsrStatus \in {"approved", "running", "completed", "failed"} /\ dsrJob \in BOOLEAN
    /\ runs \subseteq Handler /\ lost \in 0..MaxLost

\* A job is for the artifact of its principal and key, which is there.
JobsOwn ==
    \A k \in JobKeys : jobs[k] # NoJob =>
        /\ jobs[k].payload = <<jobs[k].actor, k>> /\ artifacts[jobs[k].payload] # NoArtifact
        /\ jobs[k].status = "queued" => jobs[k].begun < MaxAttempts

\* A request keeps to its artifact and, once it has one, to its job.
ClientsOwn ==
    \A c \in Clients : clients[c] # Arriving =>
        /\ clients[c].payload = <<clients[c].actor, clients[c].key>>
        /\ clients[c].at \in Enqueueing \cup Enqueued =>
             /\ artifacts[clients[c].payload] # NoArtifact
             /\ artifacts[clients[c].payload].dsr = clients[c].dsr
        /\ clients[c].at \in Enqueued =>
             jobs[clients[c].key] # NoJob /\ SameRequest(jobs[clients[c].key], clients[c])
        /\ clients[c].at = "completing" => clients[c].dsr
        /\ clients[c].at = "completing" /\ lost = 0 =>
             artifacts[clients[c].payload].status = "completed"

\* One handler has the lock of an artifact; what it has put is there.
ArtifactsLocked ==
    /\ \A run \in runs : jobs[run.key] # NoJob
    /\ \A run, other \in runs : Locks(run) /\ Locks(other) /\ run.key = other.key => run = other
    /\ \A run \in runs : run.at = "stored" => objects[ArtifactOf(run)] = run.n

\* Only the handler of an artifact's job completes it.
CompletedByJob ==
    \A a \in Artifacts : artifacts[a] # NoArtifact =>
        /\ artifacts[a].stored # 0 => jobs[a[2]] # NoJob /\ jobs[a[2]].payload = a
        /\ artifacts[a].status = "completed" => artifacts[a].stored # 0

\* As long as no worker and no lease is lost, a job has one handler at a time,
\* and none that could take back what was completed.
Undisturbed ==
    lost = 0 =>
        /\ \A run \in runs : jobs[run.key].status # "queued"
        /\ \A run, other \in runs : run.key = other.key => run = other
        /\ \A k \in JobKeys : jobs[k].status = "running" =>
             \E run \in runs : run.key = k /\ run.n = jobs[k].begun
        /\ \A a \in Artifacts : artifacts[a] # NoArtifact /\ artifacts[a].stored # 0 =>
             /\ \A run \in runs : run.key = a[2] => run.at = "done"
             /\ jobs[a[2]].status # "queued"

\* Bytes other than those of the row belong to a handler that will mark the
\* artifact failed, or to one of two that were lost.
Overwriting ==
    \A a \in Artifacts :
        artifacts[a].status = "completed" /\ objects[a] # artifacts[a].stored =>
            \/ lost >= 2
            \/ lost >= 1 /\ \E run \in runs : run.key = a[2] /\ run.at \in {"stored", "failing"}

RequestCompleted ==
    dsrStatus = "completed" /\ lost = 0 =>
        \E a \in Artifacts : artifacts[a].status = "completed" /\ artifacts[a].dsr

ExportsHeld ==
    ExportsTyped /\ JobsOwn /\ ClientsOwn /\ ArtifactsLocked /\ CompletedByJob /\ Undisturbed
    /\ Overwriting /\ RequestCompleted

LEMMA NothingThere ==
  /\ NoJob.status = "none" /\ NoJob \notin JobRow
  /\ NoArtifact.status = "none" /\ NoArtifact \notin ArtifactRow
  /\ Arriving.at = "arriving" /\ Arriving \notin Asking
<1>1. NoJob.status = "none" /\ \A job \in JobRow : job.status # "none"
  BY DEF NoJob, JobRow, Ended
<1>2. NoArtifact.status = "none" /\ \A artifact \in ArtifactRow : artifact.status # "none"
  BY DEF NoArtifact, ArtifactRow
<1>3. Arriving.at = "arriving" /\ \A client \in Asking : client.at # "arriving"
  BY DEF Arriving, Asking, Enqueueing, Enqueued
<1> QED BY <1>1, <1>2, <1>3

LEMMA ExportsStart == ASSUME ExportsAssumption, InitExports PROVE ExportsHeld
<1> USE DEF InitExports, InitEnqueue
<1>1. /\ \A k \in JobKeys : jobs[k] = NoJob
      /\ \A a \in Artifacts : artifacts[a] = NoArtifact
      /\ \A c \in Clients : clients[c] = Arriving
  OBVIOUS
<1>2. ExportsTyped
  <2>1. 0 \in 0..MaxAttempts /\ 0 \in 0..MaxLost
    BY DEF ExportsAssumption
  <2> QED BY <2>1 DEF ExportsTyped
<1>3. JobsOwn /\ ClientsOwn /\ ArtifactsLocked /\ CompletedByJob
  BY <1>1 DEF JobsOwn, ClientsOwn, ArtifactsLocked, CompletedByJob
<1>4. Undisturbed
  BY <1>1, NothingThere DEF Undisturbed
<1>5. Overwriting /\ RequestCompleted
  BY <1>1, NothingThere DEF Overwriting, RequestCompleted
<1> QED BY <1>2, <1>3, <1>4, <1>5 DEF ExportsHeld

----------------------------------------------------------------------------
(* What steps have in common *)

\* Jobs and artifacts stay what they were made for, and what is completed stays
\* completed while nothing is lost.
Kept ==
    /\ \A k \in JobKeys : jobs[k] # NoJob =>
         jobs'[k] # NoJob /\ jobs'[k].actor = jobs[k].actor /\ jobs'[k].payload = jobs[k].payload
    /\ \A a \in Artifacts : artifacts[a] # NoArtifact =>
         artifacts'[a] # NoArtifact /\ artifacts'[a].dsr = artifacts[a].dsr
    /\ lost' = 0 => lost = 0 /\ \A a \in Artifacts :
         artifacts[a].status = "completed" => artifacts'[a].status = "completed"

ClientOwn(c) ==
    clients[c] # Arriving =>
        /\ clients[c].payload = <<clients[c].actor, clients[c].key>>
        /\ clients[c].at \in Enqueueing \cup Enqueued =>
             /\ artifacts[clients[c].payload] # NoArtifact
             /\ artifacts[clients[c].payload].dsr = clients[c].dsr
        /\ clients[c].at \in Enqueued =>
             jobs[clients[c].key] # NoJob /\ SameRequest(jobs[clients[c].key], clients[c])
        /\ clients[c].at = "completing" => clients[c].dsr
        /\ clients[c].at = "completing" /\ lost = 0 =>
             artifacts[clients[c].payload].status = "completed"

LEMMA ClientsOwned == ClientsOwn <=> \A c \in Clients : ClientOwn(c)
  BY DEF ClientsOwn, ClientOwn

LEMMA ClientStays ==
    ASSUME ExportsHeld, Kept, NEW c \in Clients, clients'[c] = clients[c]
    PROVE  ClientOwn(c)'
<1>1. ClientOwn(c)
  BY ClientsOwned DEF ExportsHeld
<1>2. CASE clients[c] = Arriving
  BY <1>2 DEF ClientOwn
<1>3. CASE clients[c] # Arriving
  <2>1. clients[c] \in Asking
    BY <1>3 DEF ExportsHeld, ExportsTyped
  <2>2. clients[c].payload \in Artifacts /\ clients[c].key \in JobKeys
    BY <2>1 DEF Asking
  <2> QED BY <1>1, <1>3, <2>2 DEF ClientOwn, Kept, SameRequest
<1> QED BY <1>2, <1>3

\* A request that moves on keeps everything but its place.
LEMMA ClientGoes ==
    ASSUME ExportsHeld, NEW c \in Clients, NEW place \in Enqueueing \cup Enqueued \cup
                {"create", "returned", "refused", "unavailable", "lost"},
           clients[c].at # "arriving", Go(c, place)
    PROVE  /\ clients[c] \in Asking /\ clients'[c] \in Asking /\ clients'[c].at = place
           /\ clients'[c] # Arriving /\ clients[c] # Arriving
           /\ clients'[c].actor = clients[c].actor /\ clients'[c].key = clients[c].key
           /\ clients'[c].payload = clients[c].payload /\ clients'[c].dsr = clients[c].dsr
           /\ clients' \in [Clients -> {Arriving} \cup Asking]
           /\ \A d \in Clients \ {c} : clients'[d] = clients[d]
<1>1. clients[c] \in Asking /\ clients \in [Clients -> {Arriving} \cup Asking]
  BY NothingThere DEF ExportsHeld, ExportsTyped
<1> DEFINE moved == [clients[c] EXCEPT !.at = place]
<1>2. clients' = [clients EXCEPT ![c] = moved]
  BY DEF Go
<1>3. /\ moved \in Asking /\ moved.at = place /\ moved.actor = clients[c].actor
      /\ moved.key = clients[c].key /\ moved.payload = clients[c].payload
      /\ moved.dsr = clients[c].dsr
  BY <1>1 DEF Asking
<1> HIDE DEF moved
<1>4. clients'[c] = moved /\ \A d \in Clients \ {c} : clients'[d] = clients[d]
  BY <1>1, <1>2
<1>5. clients' \in [Clients -> {Arriving} \cup Asking]
  BY <1>1, <1>2, <1>3
<1> QED BY <1>1, <1>3, <1>4, <1>5, NothingThere

\* What has nothing to do with requests.
LEMMA BehindStays ==
    ASSUME ExportsHeld, UNCHANGED <<jobs, artifacts, objects, runs, lost>>
    PROVE  JobsOwn' /\ ArtifactsLocked' /\ CompletedByJob' /\ Undisturbed' /\ Overwriting' /\ Kept
<1> USE DEF ExportsHeld
<1>1. JobsOwn'
  BY DEF JobsOwn
<1>2. ArtifactsLocked'
  BY DEF ArtifactsLocked, ArtifactOf, Locks
<1>3. CompletedByJob'
  BY DEF CompletedByJob
<1>4. Undisturbed'
  BY DEF Undisturbed
<1>5. Overwriting'
  BY DEF Overwriting
<1> QED BY <1>1, <1>2, <1>3, <1>4, <1>5 DEF Kept

\* A write to the row of a job that says it failed, or leaves its status alone.
LEMMA JobWritten ==
    ASSUME ExportsHeld, NEW k \in JobKeys, NEW job \in JobRow, jobs[k] # NoJob,
           jobs' = [jobs EXCEPT ![k] = job],
           job.actor = jobs[k].actor, job.payload = jobs[k].payload, job.begun = jobs[k].begun,
           job.status \in {jobs[k].status, "failed"},
           UNCHANGED <<artifacts, objects, runs, lost>>
    PROVE  /\ jobs' \in [JobKeys -> {NoJob} \cup JobRow] /\ JobsOwn' /\ ArtifactsLocked'
           /\ CompletedByJob' /\ Undisturbed' /\ Overwriting' /\ Kept
<1> USE DEF ExportsHeld
<1>1. jobs \in [JobKeys -> {NoJob} \cup JobRow] /\ job # NoJob
  BY NothingThere DEF ExportsTyped
<1>2. jobs'[k] = job /\ \A j \in JobKeys \ {k} : jobs'[j] = jobs[j]
  BY <1>1
<1>3. \A j \in JobKeys :
        /\ jobs'[j] = NoJob <=> jobs[j] = NoJob
        /\ jobs[j] # NoJob => jobs'[j].actor = jobs[j].actor /\ jobs'[j].payload = jobs[j].payload
                              /\ jobs'[j].begun = jobs[j].begun
        /\ jobs'[j].status # jobs[j].status => jobs'[j].status = "failed"
  BY <1>1, <1>2
<1>4. jobs' \in [JobKeys -> {NoJob} \cup JobRow]
  BY <1>1
<1>5. JobsOwn'
  BY <1>3 DEF JobsOwn
<1>6. ArtifactsLocked'
  <2>1. \A run \in runs : run.key \in JobKeys
    BY DEF ExportsTyped, Handler
  <2> QED BY <1>3, <2>1 DEF ArtifactsLocked, ArtifactOf, Locks
<1>7. \A a \in Artifacts : a[2] \in JobKeys
  BY DEF Artifacts
<1>8. CompletedByJob'
  BY <1>3, <1>7 DEF CompletedByJob
<1>9. Undisturbed'
  <2>1. \A run \in runs : run.key \in JobKeys
    BY DEF ExportsTyped, Handler
  <2>2. \A j \in JobKeys : jobs'[j].status = "running" =>
          jobs[j].status = "running" /\ jobs'[j].begun = jobs[j].begun
    BY <1>3, NothingThere
  <2>3. \A j \in JobKeys : jobs'[j].status = "queued" => jobs[j].status = "queued"
    BY <1>3
  <2> QED BY <1>7, <2>1, <2>2, <2>3 DEF Undisturbed
<1>10. Overwriting'
  BY DEF Overwriting
<1>11. Kept
  BY <1>3 DEF Kept
<1> QED BY <1>4, <1>5, <1>6, <1>8, <1>9, <1>10, <1>11

LEMMA RequestStays ==
    ASSUME ExportsHeld, Kept, dsrStatus' = dsrStatus \/ dsrStatus' # "completed"
    PROVE  RequestCompleted'
<1> SUFFICES ASSUME dsrStatus' = "completed", lost' = 0
             PROVE  \E a \in Artifacts : artifacts'[a].status = "completed" /\ artifacts'[a].dsr
  BY DEF RequestCompleted
<1>1. lost = 0 /\ dsrStatus = "completed"
  BY DEF Kept
<1>2. PICK a \in Artifacts : artifacts[a].status = "completed" /\ artifacts[a].dsr
  BY <1>1 DEF ExportsHeld, RequestCompleted
<1>3. artifacts[a] # NoArtifact
  BY <1>2, NothingThere
<1> QED BY <1>2, <1>3 DEF Kept

----------------------------------------------------------------------------
(* What the endpoints do *)

LEMMA AskingKeeps ==
    ASSUME ExportsHeld, NEW c \in Clients, NEW actor \in Actors, NEW key \in JobKeys,
           NEW dsr \in BOOLEAN, AskExport(c, actor, key, dsr)
    PROVE  ExportsHeld'
<1> USE DEF ExportsHeld
<1>1. /\ UNCHANGED <<jobs, queue, artifacts, objects, dsrJob, runs, lost>>
      /\ dsrStatus' = IF dsr THEN "approved" ELSE dsrStatus
  BY DEF AskExport
<1>2. PICK place \in {"create", "returned", "refused"} :
        clients' = [clients EXCEPT ![c] =
            [at |-> place, actor |-> actor, key |-> key, payload |-> <<actor, key>>, dsr |-> dsr]]
  BY DEF AskExport
<1> DEFINE client == [at |-> place, actor |-> actor, key |-> key, payload |-> <<actor, key>>,
                      dsr |-> dsr]
<1>3. client \in Asking /\ client.at = place /\ client.payload = <<client.actor, client.key>>
  BY DEF Asking, Artifacts
<1>4. clients' = [clients EXCEPT ![c] = client]
  BY <1>2
<1> HIDE DEF client
<1>5. Kept
  BY <1>1, BehindStays
<1>6. ExportsTyped'
  BY <1>1, <1>3, <1>4 DEF ExportsTyped
<1>7. clients'[c] = client /\ \A d \in Clients \ {c} : clients'[d] = clients[d]
  BY <1>4 DEF ExportsTyped
<1>8. ClientsOwn'
  <2>1. ClientOwn(c)'
    BY <1>3, <1>7 DEF ClientOwn, Enqueueing, Enqueued
  <2>2. \A d \in Clients \ {c} : ClientOwn(d)'
    BY <1>5, <1>7, ClientStays
  <2> QED BY <2>1, <2>2 DEF ClientsOwn, ClientOwn
<1>9. RequestCompleted'
  BY <1>1, <1>5, RequestStays
<1> QED BY <1>1, <1>6, <1>8, <1>9, BehindStays

\* A step of a request that leaves the workers' side alone.
LEMMA RequestGoes ==
    ASSUME ExportsHeld, NEW c \in Clients, NEW place \in Enqueueing \cup Enqueued \cup
                {"create", "returned", "refused", "unavailable", "lost"},
           clients[c].at # "arriving", Go(c, place),
           UNCHANGED <<artifacts, objects, runs, lost>>,
           Kept, ExportsTyped', JobsOwn', ArtifactsLocked', CompletedByJob', Undisturbed',
           Overwriting', dsrStatus' = dsrStatus \/ dsrStatus' # "completed",
           place \in Enqueueing \cup Enqueued => clients[c].at \in Enqueueing \cup Enqueued,
           place \in Enqueued => clients[c].at \in Enqueued \/
               (jobs'[clients[c].key] # NoJob /\ SameRequest(jobs'[clients[c].key], clients[c])),
           place = "completing" => /\ clients[c].dsr
                                   /\ artifacts[clients[c].payload].status = "completed"
    PROVE  ExportsHeld'
<1> USE DEF ExportsHeld
<1>1. /\ clients[c] \in Asking /\ clients'[c].at = place
      /\ clients'[c] # Arriving /\ clients[c] # Arriving
      /\ clients'[c].actor = clients[c].actor /\ clients'[c].key = clients[c].key
      /\ clients'[c].payload = clients[c].payload /\ clients'[c].dsr = clients[c].dsr
      /\ \A d \in Clients \ {c} : clients'[d] = clients[d]
  BY ClientGoes
<1>2. ClientOwn(c) /\ clients[c].key \in JobKeys
  BY <1>1, ClientsOwned DEF Asking
<1>3. ClientOwn(c)'
  <2>1. /\ clients'[c].payload = <<clients'[c].actor, clients'[c].key>>
        /\ place \in Enqueueing \cup Enqueued =>
             /\ artifacts[clients[c].payload] # NoArtifact
             /\ artifacts[clients[c].payload].dsr = clients[c].dsr
    BY <1>1, <1>2 DEF ClientOwn
  <2>2. place \in Enqueued =>
          jobs'[clients'[c].key] # NoJob /\ SameRequest(jobs'[clients'[c].key], clients'[c])
    BY <1>1, <1>2 DEF ClientOwn, Kept, SameRequest
  <2> QED BY <1>1, <2>1, <2>2 DEF ClientOwn
<1>4. \A d \in Clients \ {c} : ClientOwn(d)'
  BY <1>1, ClientStays
<1>5. ClientsOwn'
  BY <1>3, <1>4 DEF ClientsOwn, ClientOwn
<1>6. RequestCompleted'
  BY RequestStays
<1> QED BY <1>5, <1>6

\* A step of a request that writes no row of a job or an artifact.
LEMMA RequestReads ==
    ASSUME ExportsHeld, NEW c \in Clients, NEW place \in Enqueueing \cup Enqueued \cup
                {"create", "returned", "refused", "unavailable", "lost"},
           clients[c].at # "arriving", Go(c, place), queue' \subseteq JobKeys,
           UNCHANGED <<jobs, artifacts, objects, runs, lost>>,
           dsrStatus' = dsrStatus \/ dsrStatus' = "running" \/
             (dsrStatus' = "completed" /\ clients[c].at = "completing"),
           dsrJob' \in BOOLEAN,
           place \in Enqueueing \cup Enqueued => clients[c].at \in Enqueueing \cup Enqueued,
           place \in Enqueued => clients[c].at \in Enqueued \/
               (jobs[clients[c].key] # NoJob /\ SameRequest(jobs[clients[c].key], clients[c])),
           place = "completing" => /\ clients[c].dsr
                                   /\ artifacts[clients[c].payload].status = "completed"
    PROVE  ExportsHeld'
<1> USE DEF ExportsHeld
<1>1. /\ clients[c] \in Asking /\ clients'[c].at = place
      /\ clients'[c] # Arriving /\ clients[c] # Arriving
      /\ clients'[c].actor = clients[c].actor /\ clients'[c].key = clients[c].key
      /\ clients'[c].payload = clients[c].payload /\ clients'[c].dsr = clients[c].dsr
      /\ clients' \in [Clients -> {Arriving} \cup Asking]
      /\ \A d \in Clients \ {c} : clients'[d] = clients[d]
  BY ClientGoes
<1>2. /\ Kept /\ JobsOwn' /\ ArtifactsLocked' /\ CompletedByJob' /\ Undisturbed' /\ Overwriting'
  BY BehindStays
<1>3. ExportsTyped'
  BY <1>1 DEF ExportsTyped
<1>4. CASE dsrStatus' = dsrStatus \/ dsrStatus' # "completed"
  BY <1>2, <1>3, <1>4, RequestGoes
<1>5. CASE dsrStatus' = "completed" /\ clients[c].at = "completing"
  <2>1. /\ clients[c].payload \in Artifacts /\ clients[c].key \in JobKeys
        /\ clients[c].at \in Enqueueing \cup Enqueued /\ clients[c].at \in Enqueued
    BY <1>1, <1>5 DEF Asking, Enqueued
  <2>2. /\ clients[c].dsr /\ artifacts[clients[c].payload].dsr = clients[c].dsr
        /\ lost = 0 => artifacts[clients[c].payload].status = "completed"
    BY <1>1, <1>5, <2>1 DEF ClientsOwn
  <2>3. RequestCompleted'
    BY <2>1, <2>2 DEF RequestCompleted
  <2>4. ClientOwn(c)'
    <3>1. ClientOwn(c)
      BY ClientsOwned
    <3>2. /\ clients'[c].payload = <<clients'[c].actor, clients'[c].key>>
          /\ artifacts[clients[c].payload] # NoArtifact
          /\ jobs[clients[c].key] # NoJob /\ SameRequest(jobs[clients[c].key], clients[c])
      BY <1>1, <2>1, <3>1 DEF ClientOwn
    <3> QED BY <1>1, <2>2, <3>2 DEF ClientOwn, SameRequest
  <2>5. \A d \in Clients \ {c} : ClientOwn(d)'
    BY <1>1, <1>2, ClientStays
  <2>6. ClientsOwn'
    BY <2>4, <2>5 DEF ClientsOwn, ClientOwn
  <2> QED BY <1>2, <1>3, <2>3, <2>6
<1> QED BY <1>4, <1>5

LEMMA CreateKeeps ==
    ASSUME ExportsAssumption, ExportsHeld, NEW c \in Clients, CreateArtifact(c)
    PROVE  ExportsHeld'
<1> USE DEF ExportsHeld
<1>0. /\ clients[c].at = "create" /\ UNCHANGED <<jobs, queue, objects, dsrStatus, dsrJob, runs, lost>>
      /\ clients[c] \in Asking /\ clients[c].payload \in Artifacts /\ clients[c] # Arriving
      /\ clients[c].dsr \in BOOLEAN
  BY NothingThere DEF CreateArtifact, At, ExportsTyped, Asking
<1> PICK a \in Artifacts : a = clients[c].payload
  BY <1>0
<1>1. CASE artifacts[a] = NoArtifact
  <2> DEFINE new == [status |-> "queued", dsr |-> clients[c].dsr, stored |-> 0]
  <2>1. artifacts' = [artifacts EXCEPT ![a] = new] /\ Go(c, "lookup")
    BY <1>1 DEF CreateArtifact
  <2>2. new \in ArtifactRow /\ new.status = "queued" /\ new.stored = 0 /\ new.dsr = clients[c].dsr
    BY <1>0 DEF ArtifactRow, ExportsAssumption
  <2> HIDE DEF new
  <2>3. /\ artifacts' \in [Artifacts -> {NoArtifact} \cup ArtifactRow] /\ artifacts'[a] = new
        /\ \A b \in Artifacts \ {a} : artifacts'[b] = artifacts[b]
        /\ new # NoArtifact
    BY <2>1, <2>2, NothingThere DEF ExportsTyped
  <2>4. /\ clients'[c].at = "lookup" /\ clients'[c] # Arriving
        /\ clients'[c].actor = clients[c].actor /\ clients'[c].key = clients[c].key
        /\ clients'[c].payload = clients[c].payload /\ clients'[c].dsr = clients[c].dsr
        /\ clients' \in [Clients -> {Arriving} \cup Asking]
        /\ \A d \in Clients \ {c} : clients'[d] = clients[d]
    BY <1>0, <2>1, ClientGoes DEF Enqueueing
  <2>5. Kept
    BY <1>0, <1>1, <2>3, NothingThere DEF Kept
  <2>6. ExportsTyped'
    BY <1>0, <2>3, <2>4 DEF ExportsTyped
  <2>7. JobsOwn'
    <3>1. \A k \in JobKeys : jobs[k] # NoJob => jobs[k].payload \in Artifacts
      BY DEF ExportsTyped, JobRow
    <3> QED BY <1>0, <2>5, <3>1 DEF JobsOwn, Kept
  <2>8. ClientsOwn'
    <3>1. ClientOwn(c)'
      <4>1. clients[c].payload = <<clients[c].actor, clients[c].key>>
        BY <1>0 DEF ClientsOwn
      <4> QED BY <2>2, <2>3, <2>4, <4>1 DEF ClientOwn, Enqueueing, Enqueued
    <3>2. \A d \in Clients \ {c} : ClientOwn(d)'
      BY <2>4, <2>5, ClientStays
    <3> QED BY <3>1, <3>2 DEF ClientsOwn, ClientOwn
  <2>9. ArtifactsLocked'
    BY <1>0 DEF ArtifactsLocked, ArtifactOf, Locks
  <2>10. CompletedByJob'
    BY <1>0, <2>2, <2>3 DEF CompletedByJob
  <2>11. Undisturbed'
    BY <1>0, <2>2, <2>3 DEF Undisturbed
  <2>12. Overwriting'
    BY <1>0, <2>2, <2>3 DEF Overwriting
  <2>13. RequestCompleted'
    BY <1>0, <2>5, RequestStays
  <2> QED BY <2>6, <2>7, <2>8, <2>9, <2>10, <2>11, <2>12, <2>13
<1>2. CASE artifacts[a] # NoArtifact
  <2>1. artifacts' = artifacts /\ Go(c, "refused")
    BY <1>2 DEF CreateArtifact
  <2> QED BY <1>0, <2>1, RequestReads DEF ExportsTyped, Enqueueing, Enqueued
<1> QED BY <1>1, <1>2

\* What enqueue_job reads, publishes and leaves.
LEMMA EnqueueReads ==
    ASSUME ExportsHeld, NEW c \in Clients, UNCHANGED exportVars,
           LookUpJob(c) \/ PublishJob(c) \/ ReadUndelivered(c) \/ ClientLost(c)
    PROVE  ExportsHeld'
<1> USE DEF ExportsHeld
<1>1. UNCHANGED <<artifacts, objects, dsrStatus, dsrJob, runs, lost>>
  BY DEF exportVars
<1>2. queue \subseteq JobKeys /\ dsrJob \in BOOLEAN
  BY DEF ExportsTyped
<1>3. CASE LookUpJob(c)
  <2>1. clients[c].at = "lookup" /\ UNCHANGED <<jobs, queue>>
    BY <1>3 DEF LookUpJob, At
  <2>2. CASE Go(c, "insert")
    BY <1>1, <1>2, <2>1, <2>2, RequestReads DEF Enqueueing, Enqueued
  <2>3. CASE Go(c, "refused")
    BY <1>1, <1>2, <2>1, <2>3, RequestReads DEF Enqueueing, Enqueued
  <2>4. CASE /\ jobs[clients[c].key] # NoJob /\ SameRequest(jobs[clients[c].key], clients[c])
             /\ Go(c, "answered")
    BY <1>1, <1>2, <2>1, <2>4, RequestReads DEF Enqueueing, Enqueued
  <2> QED BY <1>3, <2>2, <2>3, <2>4 DEF LookUpJob
<1>4. CASE PublishJob(c)
  <2>1. clients[c].at = "publish" /\ jobs' = jobs
        /\ queue' \in {queue, queue \cup {clients[c].key}}
    BY <1>4 DEF PublishJob, At
  <2>2. clients[c].key \in JobKeys
    BY <2>1, NothingThere DEF ExportsTyped, Asking
  <2>3. queue' \subseteq JobKeys
    BY <1>2, <2>1, <2>2
  <2>4. CASE Go(c, "record")
    BY <1>1, <1>2, <2>1, <2>3, <2>4, RequestReads DEF Enqueueing, Enqueued
  <2>5. CASE Go(c, "undelivered")
    BY <1>1, <1>2, <2>1, <2>3, <2>5, RequestReads DEF Enqueueing, Enqueued
  <2> QED BY <1>4, <2>4, <2>5 DEF PublishJob
<1>5. CASE ReadUndelivered(c)
  <2>1. clients[c].at = "undelivered" /\ UNCHANGED <<jobs, queue>>
        /\ (Go(c, "failing") \/ Go(c, "answered"))
    BY <1>5 DEF ReadUndelivered, At
  <2>2. CASE Go(c, "failing")
    BY <1>1, <1>2, <2>1, <2>2, RequestReads DEF Enqueueing, Enqueued
  <2>3. CASE Go(c, "answered")
    BY <1>1, <1>2, <2>1, <2>3, RequestReads DEF Enqueueing, Enqueued
  <2> QED BY <2>1, <2>2, <2>3
<1>6. CASE ClientLost(c)
  <2>1. clients[c].at # "arriving" /\ UNCHANGED <<jobs, queue>> /\ Go(c, "lost")
    BY <1>6 DEF ClientLost, InEnqueue
  <2> QED BY <1>1, <1>2, <2>1, RequestReads DEF Enqueueing, Enqueued
<1> QED BY <1>3, <1>4, <1>5, <1>6

LEMMA InsertKeeps ==
    ASSUME ExportsAssumption, ExportsHeld, NEW c \in Clients, UNCHANGED exportVars, InsertJob(c)
    PROVE  ExportsHeld'
<1> USE DEF ExportsHeld
<1>1. /\ UNCHANGED <<artifacts, objects, dsrStatus, dsrJob, runs, lost, queue>>
      /\ clients[c].at = "insert"
  BY DEF exportVars, InsertJob, At
<1>2. queue \subseteq JobKeys /\ dsrJob \in BOOLEAN /\ runs \subseteq Handler
  BY DEF ExportsTyped
<1>3. clients[c] \in Asking /\ clients[c] # Arriving
  BY <1>1, NothingThere DEF ExportsTyped
<1>4. /\ clients[c].key \in JobKeys /\ clients[c].actor \in Actors
      /\ clients[c].payload \in Artifacts
      /\ clients[c].payload = <<clients[c].actor, clients[c].key>>
      /\ artifacts[clients[c].payload] # NoArtifact
  BY <1>1, <1>3 DEF Asking, ClientsOwn, Enqueueing
<1> PICK k \in JobKeys : k = clients[c].key
  BY <1>4
<1>5. CASE jobs[k] # NoJob
  <2>1. jobs' = jobs
    BY <1>5 DEF InsertJob
  <2>2. CASE Go(c, "refused")
    BY <1>1, <1>2, <2>1, <2>2, RequestReads DEF Enqueueing, Enqueued
  <2>3. CASE SameRequest(jobs[k], clients[c]) /\ Go(c, "answered")
    BY <1>1, <1>2, <1>5, <2>1, <2>3, RequestReads DEF Enqueueing, Enqueued
  <2> QED BY <1>5, <2>2, <2>3 DEF InsertJob
<1>6. CASE jobs[k] = NoJob
  <2> DEFINE job == NewJob(clients[c])
  <2>1. jobs' = [jobs EXCEPT ![k] = job] /\ Go(c, "publish")
    BY <1>6 DEF InsertJob
  <2>2. /\ job \in JobRow /\ job.status = "queued" /\ job.begun = 0
        /\ job.actor = clients[c].actor /\ job.payload = clients[c].payload
    <3>1. 0 \in 0..MaxAttempts
      BY DEF ExportsAssumption
    <3> QED BY <1>4, <3>1 DEF NewJob, JobRow
  <2> HIDE DEF job
  <2>3. /\ jobs' \in [JobKeys -> {NoJob} \cup JobRow] /\ jobs'[k] = job /\ job # NoJob
        /\ \A j \in JobKeys \ {k} : jobs'[j] = jobs[j]
    BY <2>1, <2>2, NothingThere DEF ExportsTyped
  <2>4. Kept
    BY <1>1, <1>6, <2>3 DEF Kept
  <2>5. clients' \in [Clients -> {Arriving} \cup Asking]
    BY <1>1, <2>1, ClientGoes DEF Enqueued
  <2>6. ExportsTyped'
    BY <1>1, <2>3, <2>5 DEF ExportsTyped
  <2>7. JobsOwn'
    BY <1>1, <1>4, <2>2, <2>3 DEF JobsOwn, ExportsAssumption
  \* No handler has run for it yet, and no artifact was completed by it.
  <2>8. \A run \in runs : run.key \in JobKeys /\ run.key # k
    BY <1>2, <1>6 DEF Handler, ArtifactsLocked
  <2>9. \A a \in Artifacts : a[2] \in JobKeys /\
          (artifacts[a] # NoArtifact /\ artifacts[a].stored # 0 => a[2] # k)
    BY <1>6 DEF Artifacts, CompletedByJob
  <2>10. ArtifactsLocked'
    BY <1>1, <2>3, <2>8 DEF ArtifactsLocked, ArtifactOf, Locks
  <2>11. CompletedByJob'
    BY <1>1, <2>3, <2>9 DEF CompletedByJob
  <2>12. Undisturbed'
    BY <1>1, <2>2, <2>3, <2>8, <2>9 DEF Undisturbed
  <2>13. Overwriting'
    BY <1>1 DEF Overwriting
  <2>14. SameRequest(jobs'[k], clients[c])
    BY <2>2, <2>3 DEF SameRequest
  <2> QED BY <1>1, <2>1, <2>3, <2>4, <2>6, <2>7, <2>10, <2>11, <2>12, <2>13, <2>14, RequestGoes
             DEF Enqueueing, Enqueued
<1> QED BY <1>5, <1>6

LEMMA EnqueueWrites ==
    ASSUME ExportsHeld, NEW c \in Clients, UNCHANGED exportVars,
           RecordTask(c) \/ WriteUndelivered(c)
    PROVE  ExportsHeld'
<1> USE DEF ExportsHeld
<1>1. /\ UNCHANGED <<artifacts, objects, dsrStatus, dsrJob, runs, lost, queue>>
      /\ clients[c].at \in {"record", "failing"}
  BY DEF exportVars, RecordTask, WriteUndelivered, At
<1>2. clients[c] \in Asking /\ clients[c] # Arriving /\ clients[c].key \in JobKeys
      /\ jobs[clients[c].key] # NoJob
  BY <1>1, NothingThere DEF ExportsTyped, Asking, ClientsOwn, Enqueued
<1> PICK k \in JobKeys : k = clients[c].key
  BY <1>2
<1>3. jobs[k] \in JobRow
  BY <1>2 DEF ExportsTyped
<1>4. PICK job \in JobRow, place \in {"answered", "unavailable"} :
        /\ jobs' = [jobs EXCEPT ![k] = job] /\ Go(c, place)
        /\ job.actor = jobs[k].actor /\ job.payload = jobs[k].payload /\ job.begun = jobs[k].begun
        /\ job.status \in {jobs[k].status, "failed"}
  <2>1. CASE RecordTask(c)
    <3> DEFINE job == [jobs[k] EXCEPT !.task = TRUE]
    <3>1. jobs' = [jobs EXCEPT ![k] = job] /\ Go(c, "answered")
      BY <2>1 DEF RecordTask
    <3>2. /\ job \in JobRow /\ job.actor = jobs[k].actor /\ job.payload = jobs[k].payload
          /\ job.begun = jobs[k].begun /\ job.status = jobs[k].status
      BY <1>3 DEF JobRow
    <3> HIDE DEF job
    <3> QED BY <3>1, <3>2
  <2>2. CASE WriteUndelivered(c)
    <3> DEFINE job == [jobs[k] EXCEPT !.status = "failed"]
    <3>1. jobs' = [jobs EXCEPT ![k] = job] /\ Go(c, "unavailable")
      BY <2>2 DEF WriteUndelivered
    <3>2. /\ job \in JobRow /\ job.actor = jobs[k].actor /\ job.payload = jobs[k].payload
          /\ job.begun = jobs[k].begun /\ job.status = "failed"
      BY <1>3 DEF JobRow, Ended
    <3> HIDE DEF job
    <3> QED BY <3>1, <3>2
  <2> QED BY <2>1, <2>2
<1>5. /\ jobs' \in [JobKeys -> {NoJob} \cup JobRow] /\ JobsOwn' /\ ArtifactsLocked'
      /\ CompletedByJob' /\ Undisturbed' /\ Overwriting' /\ Kept
  BY <1>1, <1>2, <1>4, JobWritten
<1>6. clients[c].at # "arriving" /\ clients[c].at \in Enqueued
  BY <1>1 DEF Enqueued
<1>7. clients' \in [Clients -> {Arriving} \cup Asking]
  BY <1>4, <1>6, ClientGoes DEF Enqueued
<1>8. ExportsTyped'
  BY <1>1, <1>5, <1>7 DEF ExportsTyped
<1> QED BY <1>1, <1>4, <1>5, <1>6, <1>8, RequestGoes DEF Enqueueing, Enqueued

LEMMA LinksKeep ==
    ASSUME ExportsHeld, NEW c \in Clients, ReadArtifact(c) \/ LinkRequest(c)
    PROVE  ExportsHeld'
<1> USE DEF ExportsHeld
<1>1. UNCHANGED <<jobs, queue, artifacts, objects, runs, lost>> /\ clients[c].at # "arriving"
      /\ queue \subseteq JobKeys
  BY DEF ReadArtifact, LinkRequest, exportVars, At, ExportsTyped
<1>2. CASE ReadArtifact(c)
  <2>1. clients[c].at = "answered" /\ clients[c].dsr /\ UNCHANGED <<dsrStatus, dsrJob>>
        /\ dsrJob \in BOOLEAN
    BY <1>2 DEF ReadArtifact, exportVars, At, ExportsTyped
  <2>2. CASE artifacts[clients[c].payload].status = "completed" /\ Go(c, "completing")
    BY <1>1, <2>1, <2>2, RequestReads DEF Enqueueing, Enqueued
  <2>3. CASE Go(c, "running")
    BY <1>1, <2>1, <2>3, RequestReads DEF Enqueueing, Enqueued
  <2> QED BY <1>2, <2>2, <2>3 DEF ReadArtifact
<1>3. CASE LinkRequest(c)
  <2>1. /\ clients[c].at \in {"completing", "running"} /\ Go(c, "returned")
        /\ dsrStatus' = IF clients[c].at = "completing" THEN "completed" ELSE "running"
        /\ dsrJob' = TRUE
    BY <1>3 DEF LinkRequest, Linked
  <2> QED BY <1>1, <2>1, RequestReads DEF Enqueueing, Enqueued
<1> QED BY <1>2, <1>3

----------------------------------------------------------------------------
(* What the workers do *)

LEMMA BesideRequests ==
    ASSUME ExportsHeld, clients' = clients, Kept, ExportsTyped', JobsOwn', ArtifactsLocked',
           CompletedByJob', Undisturbed', Overwriting', RequestCompleted'
    PROVE  ExportsHeld'
<1>1. \A c \in Clients : ClientOwn(c)'
  BY ClientStays
<1>2. ClientsOwn'
  BY <1>1 DEF ClientsOwn, ClientOwn
<1> QED BY <1>2 DEF ExportsHeld

LEMMA OrphanKeeps ==
    ASSUME ExportsHeld, NEW k \in JobKeys, RecoverOrphan(k), UNCHANGED exportVars
    PROVE  ExportsHeld'
<1> USE DEF ExportsHeld
<1>1. UNCHANGED <<artifacts, objects, dsrStatus, dsrJob, runs, lost>>
  BY DEF exportVars
<1>2. jobs[k] \in JobRow /\ jobs[k] # NoJob
  BY NothingThere DEF RecoverOrphan, ExportsTyped
<1> DEFINE job == [jobs[k] EXCEPT !.task = TRUE]
<1>3. /\ job \in JobRow /\ job.actor = jobs[k].actor /\ job.payload = jobs[k].payload
      /\ job.begun = jobs[k].begun /\ job.status = jobs[k].status
  BY <1>2 DEF JobRow
<1>4. jobs' = [jobs EXCEPT ![k] = job] /\ queue' = queue \cup {k} /\ clients' = clients
  BY DEF RecoverOrphan
<1> HIDE DEF job
<1>5. /\ jobs' \in [JobKeys -> {NoJob} \cup JobRow] /\ JobsOwn' /\ ArtifactsLocked'
      /\ CompletedByJob' /\ Undisturbed' /\ Overwriting' /\ Kept
  BY <1>1, <1>2, <1>3, <1>4, JobWritten
<1>6. ExportsTyped'
  BY <1>1, <1>4, <1>5 DEF ExportsTyped
<1>7. RequestCompleted'
  BY <1>1, <1>5, RequestStays
<1> QED BY <1>4, <1>5, <1>6, <1>7, BesideRequests

LEMMA HandlerOwn ==
    ASSUME ExportsHeld, NEW run \in runs
    PROVE  /\ run \in Handler /\ run.key \in JobKeys /\ run.n \in 1..MaxAttempts
           /\ jobs[run.key] # NoJob /\ jobs[run.key] \in JobRow
           /\ ArtifactOf(run) \in Artifacts /\ ArtifactOf(run)[2] = run.key
           /\ artifacts[ArtifactOf(run)] \in ArtifactRow
           /\ artifacts[ArtifactOf(run)] # NoArtifact
<1> USE DEF ExportsHeld
<1>1. run \in Handler /\ run.key \in JobKeys /\ run.n \in 1..MaxAttempts
  BY DEF ExportsTyped, Handler
<1>2. jobs[run.key] # NoJob
  BY DEF ArtifactsLocked
<1>3. jobs[run.key] \in JobRow
  BY <1>1, <1>2 DEF ExportsTyped
<1>4. jobs[run.key].payload \in Artifacts
  BY <1>3 DEF JobRow
<1>5. jobs[run.key].payload = <<jobs[run.key].actor, run.key>>
      /\ artifacts[jobs[run.key].payload] # NoArtifact
  BY <1>1, <1>2 DEF JobsOwn
<1>6. artifacts[jobs[run.key].payload] \in ArtifactRow
  BY <1>4, <1>5 DEF ExportsTyped
<1> QED BY <1>1, <1>2, <1>3, <1>4, <1>5, <1>6 DEF ArtifactOf

\* A handler that moves on keeps its job and its attempt.
LEMMA HandlerGoes ==
    ASSUME ExportsHeld, NEW run \in runs,
           NEW place \in {"begin", "checked", "building", "stored", "failing", "done", "raised"},
           Step(run, place)
    PROVE  \E moved \in Handler :
             /\ moved.key = run.key /\ moved.n = run.n /\ moved.at = place
             /\ runs' = (runs \ {run}) \cup {moved}
<1> DEFINE moved == [run EXCEPT !.at = place]
<1>1. run \in Handler
  BY HandlerOwn
<1>2. moved \in Handler /\ moved.key = run.key /\ moved.n = run.n /\ moved.at = place
  BY <1>1 DEF Handler
<1>3. runs' = (runs \ {run}) \cup {moved}
  BY DEF Step
<1> HIDE DEF moved
<1> QED BY <1>2, <1>3

\* A step of a handler that leaves jobs and artifacts alone.
LEMMA HandlerMoves ==
    ASSUME ExportsHeld, NEW run \in runs,
           NEW place \in {"checked", "building", "failing", "raised"}, Step(run, place),
           UNCHANGED <<enqueueVars, artifacts, objects, dsrStatus, dsrJob, lost>>,
           place = "building" => Unlocked(run), run.at # "done",
           run.at \in {"stored", "failing"} => place = "failing"
    PROVE  ExportsHeld'
<1> USE DEF ExportsHeld
<1>1. UNCHANGED <<jobs, queue, clients>>
  BY DEF enqueueVars
<1>2. PICK moved \in Handler : /\ moved.key = run.key /\ moved.n = run.n /\ moved.at = place
                               /\ runs' = (runs \ {run}) \cup {moved}
  BY HandlerGoes
<1>3. Kept
  BY <1>1 DEF Kept
<1>4. ExportsTyped'
  BY <1>1, <1>2 DEF ExportsTyped
<1>5. JobsOwn'
  BY <1>1 DEF JobsOwn
<1>6. ArtifactsLocked'
  <2>1. \A r \in runs' : jobs[r.key] # NoJob
    BY <1>2, HandlerOwn
  <2>2. ASSUME NEW r \in runs', NEW other \in runs', Locks(r), Locks(other), r.key = other.key
        PROVE  r = other
    <3>1. r \in runs \/ r = moved
      BY <1>2
    <3>2. other \in runs \/ other = moved
      BY <1>2
    <3>3. Locks(moved) => Unlocked(run)
      BY <1>2 DEF Locks
    <3>4. r \in runs /\ other \in runs => r = other
      BY <2>2 DEF ArtifactsLocked
    <3>5. ~(Locks(moved) /\ \E o \in runs : Locks(o) /\ o.key = moved.key)
      BY <1>2, <3>3 DEF Unlocked
    <3> QED BY <2>2, <3>1, <3>2, <3>4, <3>5
  <2>3. \A r \in runs' : r.at = "stored" => r \in runs
    BY <1>2
  <2>4. \A r \in runs' : r.at = "stored" => objects[ArtifactOf(r)] = r.n
    BY <2>3 DEF ArtifactsLocked
  <2> QED BY <1>1, <2>1, <2>2, <2>4 DEF ArtifactsLocked, ArtifactOf, Locks
<1>7. CompletedByJob'
  BY <1>1 DEF CompletedByJob
<1>8. Undisturbed'
  <2> SUFFICES ASSUME lost = 0
               PROVE  /\ \A r \in runs' : jobs[r.key].status # "queued"
                      /\ \A r, other \in runs' : r.key = other.key => r = other
                      /\ \A k \in JobKeys : jobs[k].status = "running" =>
                           \E r \in runs' : r.key = k /\ r.n = jobs[k].begun
                      /\ \A a \in Artifacts : artifacts[a] # NoArtifact /\ artifacts[a].stored # 0 =>
                           /\ \A r \in runs' : r.key = a[2] => r.at = "done"
                           /\ jobs[a[2]].status # "queued"
    BY <1>1 DEF Undisturbed
  <2>1. /\ \A r \in runs : jobs[r.key].status # "queued"
        /\ \A r, other \in runs : r.key = other.key => r = other
        /\ \A k \in JobKeys : jobs[k].status = "running" =>
             \E r \in runs : r.key = k /\ r.n = jobs[k].begun
        /\ \A a \in Artifacts : artifacts[a] # NoArtifact /\ artifacts[a].stored # 0 =>
             /\ \A r \in runs : r.key = a[2] => r.at = "done"
             /\ jobs[a[2]].status # "queued"
    BY DEF Undisturbed
  <2>2. \A r \in runs' : r \in runs \ {run} \/ r = moved
    BY <1>2
  <2>3. \A r \in runs' : jobs[r.key].status # "queued"
    BY <1>2, <2>1, <2>2
  <2>4. \A r, other \in runs' : r.key = other.key => r = other
    BY <1>2, <2>1, <2>2
  <2>5. \A k \in JobKeys : jobs[k].status = "running" =>
          \E r \in runs' : r.key = k /\ r.n = jobs[k].begun
    BY <1>2, <2>1
  <2>6. \A a \in Artifacts : artifacts[a] # NoArtifact /\ artifacts[a].stored # 0 =>
          /\ \A r \in runs' : r.key = a[2] => r.at = "done"
          /\ jobs[a[2]].status # "queued"
    BY <1>2, <2>1, <2>2
  <2> QED BY <2>3, <2>4, <2>5, <2>6
<1>9. Overwriting'
  <2>1. ASSUME NEW r \in runs, r.at \in {"stored", "failing"}
        PROVE  \E s \in runs' : s.key = r.key /\ s.at \in {"stored", "failing"}
    BY <1>2, <2>1
  <2> QED BY <2>1 DEF Overwriting
<1>10. RequestCompleted'
  BY <1>3, RequestStays
<1> QED BY <1>1, <1>3, <1>4, <1>5, <1>6, <1>7, <1>8, <1>9, <1>10, BesideRequests

LEMMA PutKeeps ==
    ASSUME ExportsHeld, NEW run \in runs, PutExport(run)
    PROVE  ExportsHeld'
<1> USE DEF ExportsHeld
<1>0. /\ run.at = "building"
      /\ UNCHANGED <<enqueueVars, jobs, queue, clients, artifacts, dsrStatus, dsrJob, lost>>
  BY DEF PutExport, enqueueVars
<1>1. CASE Step(run, "failing") /\ objects' = objects
  BY <1>0, <1>1, HandlerMoves
<1>2. CASE Step(run, "stored") /\ objects' = [objects EXCEPT ![ArtifactOf(run)] = run.n]
  <2> PICK a \in Artifacts : a = ArtifactOf(run)
    BY HandlerOwn
  <2>1. a[2] = run.key /\ run.n \in 0..MaxAttempts
    BY HandlerOwn
  <2>2. PICK moved \in Handler : /\ moved.key = run.key /\ moved.n = run.n /\ moved.at = "stored"
                                 /\ runs' = (runs \ {run}) \cup {moved}
    BY <1>2, HandlerGoes
  <2>3. /\ objects' \in [Artifacts -> 0..MaxAttempts] /\ objects'[a] = run.n
        /\ \A b \in Artifacts \ {a} : objects'[b] = objects[b]
    BY <1>2, <2>1 DEF ExportsTyped
  <2>4. Kept
    BY <1>0 DEF Kept
  <2>5. ExportsTyped'
    BY <1>0, <2>2, <2>3 DEF ExportsTyped
  <2>6. JobsOwn'
    BY <1>0 DEF JobsOwn
  <2>7. \A r \in runs' : r \in runs \ {run} \/ r = moved
    BY <2>2
  <2>8. ArtifactsLocked'
    <3>1. \A r \in runs' : jobs[r.key] # NoJob
      BY <2>2, <2>7, HandlerOwn
    <3>2. \A r \in runs \ {run} : Locks(r) => r.key # run.key
      BY <1>0 DEF ArtifactsLocked, Locks
    <3>3. \A r, other \in runs' : Locks(r) /\ Locks(other) /\ r.key = other.key => r = other
      BY <2>2, <2>7, <3>2 DEF ArtifactsLocked
    <3>4. ASSUME NEW r \in runs', r.at = "stored"
          PROVE  objects'[ArtifactOf(r)] = r.n
      <4>1. CASE r = moved
        BY <2>2, <2>3, <4>1 DEF ArtifactOf
      <4>2. CASE r \in runs \ {run}
        <5>1. ArtifactOf(r) \in Artifacts /\ ArtifactOf(r)[2] = r.key
          BY <4>2, HandlerOwn
        <5>2. r.key # run.key
          BY <3>2, <3>4, <4>2 DEF Locks
        <5>3. ArtifactOf(r) # a
          BY <2>1, <5>1, <5>2
        <5> QED BY <2>3, <3>4, <4>2, <5>1, <5>3 DEF ArtifactsLocked
      <4> QED BY <2>7, <4>1, <4>2
    <3> QED BY <1>0, <3>1, <3>3, <3>4 DEF ArtifactsLocked, ArtifactOf, Locks
  <2>9. CompletedByJob'
    BY <1>0 DEF CompletedByJob
  \* A lone handler of the job stores nothing once something was completed.
  <2>10. lost = 0 => \A b \in Artifacts :
           artifacts[b] # NoArtifact /\ artifacts[b].stored # 0 => b[2] # run.key
    BY <1>0 DEF Undisturbed
  <2>11. Undisturbed'
    <3> SUFFICES ASSUME lost = 0
                 PROVE  /\ \A r \in runs' : jobs[r.key].status # "queued"
                        /\ \A r, other \in runs' : r.key = other.key => r = other
                        /\ \A k \in JobKeys : jobs[k].status = "running" =>
                             \E r \in runs' : r.key = k /\ r.n = jobs[k].begun
                        /\ \A b \in Artifacts : artifacts[b] # NoArtifact /\ artifacts[b].stored # 0 =>
                             /\ \A r \in runs' : r.key = b[2] => r.at = "done"
                             /\ jobs[b[2]].status # "queued"
      BY <1>0 DEF Undisturbed
    <3>1. \A r \in runs' : jobs[r.key].status # "queued"
      BY <2>2, <2>7 DEF Undisturbed
    <3>2. \A r, other \in runs' : r.key = other.key => r = other
      BY <2>2, <2>7 DEF Undisturbed
    <3>3. \A k \in JobKeys : jobs[k].status = "running" =>
            \E r \in runs' : r.key = k /\ r.n = jobs[k].begun
      BY <2>2 DEF Undisturbed
    <3>4. \A b \in Artifacts : artifacts[b] # NoArtifact /\ artifacts[b].stored # 0 =>
            /\ \A r \in runs' : r.key = b[2] => r.at = "done"
            /\ jobs[b[2]].status # "queued"
      BY <2>2, <2>7, <2>10 DEF Undisturbed
    <3> QED BY <3>1, <3>2, <3>3, <3>4
  <2>12. Overwriting'
    <3> SUFFICES ASSUME NEW b \in Artifacts, artifacts[b].status = "completed",
                        objects'[b] # artifacts[b].stored
                 PROVE  \/ lost >= 2
                        \/ lost >= 1 /\ \E r \in runs' : r.key = b[2] /\ r.at \in {"stored", "failing"}
      BY <1>0 DEF Overwriting
    <3>1. CASE b = a
      <4>1. artifacts[b] # NoArtifact /\ artifacts[b].stored # 0
        BY NothingThere DEF CompletedByJob
      <4>2. lost # 0 /\ lost \in Nat
        BY <2>1, <2>10, <3>1, <4>1 DEF ExportsTyped
      <4>3. moved \in runs' /\ moved.key = b[2]
        BY <2>1, <2>2, <3>1
      <4> QED BY <2>2, <4>2, <4>3
    <3>2. CASE b # a
      <4>1. objects[b] # artifacts[b].stored
        BY <2>3, <3>2
      <4>2. \/ lost >= 2
            \/ lost >= 1 /\ \E r \in runs : r.key = b[2] /\ r.at \in {"stored", "failing"}
        BY <4>1 DEF Overwriting
      <4> QED BY <1>0, <2>2, <4>2
    <3> QED BY <3>1, <3>2
  <2>13. RequestCompleted'
    BY <1>0, <2>4, RequestStays
  <2> QED BY <1>0, <2>4, <2>5, <2>6, <2>8, <2>9, <2>11, <2>12, <2>13, BesideRequests
<1> QED BY <1>0, <1>1, <1>2 DEF PutExport

\* A write to the artifact of a handler's job, other than to what it was made for.
LEMMA ArtifactWritten ==
    ASSUME ExportsHeld, NEW run \in runs, NEW artifact \in ArtifactRow,
           NEW place \in {"done", "raised"}, Step(run, place),
           artifacts' = [artifacts EXCEPT ![ArtifactOf(run)] = artifact],
           artifact.dsr = artifacts[ArtifactOf(run)].dsr,
           artifact.status = "completed" => /\ artifact.stored # 0
                                            /\ artifact.stored = objects[ArtifactOf(run)],
           artifact.stored # 0 /\ lost = 0 => place = "done",
           artifact.status # "completed" /\ lost = 0 =>
               artifacts[ArtifactOf(run)].status # "completed",
           UNCHANGED <<enqueueVars, objects, dsrJob, lost>>,
           dsrStatus' \in {dsrStatus, "failed"} \/
               (dsrStatus' = "completed" /\ artifact.status = "completed" /\ artifact.dsr)
    PROVE  ExportsHeld'
<1> USE DEF ExportsHeld
<1>0. UNCHANGED <<jobs, queue, clients>>
  BY DEF enqueueVars
<1> PICK a \in Artifacts : a = ArtifactOf(run)
  BY HandlerOwn
<1>1. a[2] = run.key /\ artifacts[a] \in ArtifactRow /\ artifacts[a] # NoArtifact
  BY HandlerOwn
<1>2. PICK moved \in Handler : /\ moved.key = run.key /\ moved.n = run.n /\ moved.at = place
                               /\ runs' = (runs \ {run}) \cup {moved}
  BY HandlerGoes
<1>3. /\ artifacts' \in [Artifacts -> {NoArtifact} \cup ArtifactRow] /\ artifacts'[a] = artifact
      /\ \A b \in Artifacts \ {a} : artifacts'[b] = artifacts[b]
      /\ artifact # NoArtifact
  BY NothingThere DEF ExportsTyped
<1>4. Kept
  <2>1. \A b \in Artifacts : artifacts[b] # NoArtifact =>
          artifacts'[b] # NoArtifact /\ artifacts'[b].dsr = artifacts[b].dsr
    BY <1>3
  <2>2. lost = 0 => \A b \in Artifacts :
          artifacts[b].status = "completed" => artifacts'[b].status = "completed"
    BY <1>3
  <2> QED BY <1>0, <2>1, <2>2 DEF Kept
<1>5. ExportsTyped'
  BY <1>0, <1>2, <1>3 DEF ExportsTyped
<1>6. JobsOwn'
  <2>1. \A k \in JobKeys : jobs[k] # NoJob => jobs[k].payload \in Artifacts
    BY DEF ExportsTyped, JobRow
  <2> QED BY <1>0, <1>3, <2>1 DEF JobsOwn
<1>7. \A r \in runs' : r \in runs \ {run} \/ r = moved
  BY <1>2
<1>8. ArtifactsLocked'
  <2>1. \A r \in runs' : jobs[r.key] # NoJob
    BY <1>2, <1>7, HandlerOwn
  <2>2. \A r \in runs' : Locks(r) \/ r.at = "stored" => r \in runs
    BY <1>2, <1>7 DEF Locks
  <2> QED BY <1>0, <2>1, <2>2 DEF ArtifactsLocked, ArtifactOf, Locks
<1>9. jobs[a[2]] # NoJob /\ jobs[a[2]].payload = a
  BY <1>1, HandlerOwn DEF ArtifactOf
<1>10. CompletedByJob'
  BY <1>0, <1>3, <1>9 DEF CompletedByJob
<1>11. \A b \in Artifacts \ {a} : artifacts[b] # NoArtifact /\ artifacts[b].stored # 0 =>
         b[2] # run.key
  BY <1>1, <1>9 DEF CompletedByJob
<1>12. Undisturbed'
  <2> SUFFICES ASSUME lost = 0
               PROVE  /\ \A r \in runs' : jobs[r.key].status # "queued"
                      /\ \A r, other \in runs' : r.key = other.key => r = other
                      /\ \A k \in JobKeys : jobs[k].status = "running" =>
                           \E r \in runs' : r.key = k /\ r.n = jobs[k].begun
                      /\ \A b \in Artifacts : artifacts'[b] # NoArtifact /\ artifacts'[b].stored # 0 =>
                           /\ \A r \in runs' : r.key = b[2] => r.at = "done"
                           /\ jobs[b[2]].status # "queued"
    BY <1>0 DEF Undisturbed
  <2>1. \A r \in runs' : jobs[r.key].status # "queued"
    BY <1>2, <1>7 DEF Undisturbed
  <2>2. \A r, other \in runs' : r.key = other.key => r = other
    BY <1>2, <1>7 DEF Undisturbed
  <2>3. \A k \in JobKeys : jobs[k].status = "running" =>
          \E r \in runs' : r.key = k /\ r.n = jobs[k].begun
    BY <1>2 DEF Undisturbed
  <2>4. ASSUME artifact.stored # 0
        PROVE  /\ \A r \in runs' : r.key = a[2] => r.at = "done"
               /\ jobs[a[2]].status # "queued"
    <3>1. \A r \in runs' : r.key = a[2] => r = moved
      BY <1>1, <1>2, <2>2
    <3> QED BY <1>1, <1>2, <2>1, <2>4, <3>1
  <2>5. ASSUME NEW b \in Artifacts \ {a}, artifacts[b] # NoArtifact, artifacts[b].stored # 0
        PROVE  /\ \A r \in runs' : r.key = b[2] => r.at = "done"
               /\ jobs[b[2]].status # "queued"
    <3>1. b[2] # run.key
      BY <1>11, <2>5
    <3> QED BY <1>2, <1>7, <2>5, <3>1 DEF Undisturbed
  <2>6. ASSUME NEW b \in Artifacts, artifacts'[b] # NoArtifact, artifacts'[b].stored # 0
        PROVE  /\ \A r \in runs' : r.key = b[2] => r.at = "done"
               /\ jobs[b[2]].status # "queued"
    <3>1. CASE b = a
      BY <1>3, <2>4, <2>6, <3>1
    <3>2. CASE b # a
      BY <1>3, <2>5, <2>6, <3>2
    <3> QED BY <3>1, <3>2
  <2> QED BY <2>1, <2>2, <2>3, <2>6
<1>13. Overwriting'
  <2> SUFFICES ASSUME NEW b \in Artifacts, artifacts'[b].status = "completed",
                      objects[b] # artifacts'[b].stored
               PROVE  \/ lost >= 2
                      \/ lost >= 1 /\ \E r \in runs' : r.key = b[2] /\ r.at \in {"stored", "failing"}
    BY DEF Overwriting
  <2>1. b # a /\ artifacts'[b] = artifacts[b]
    BY <1>3
  <2>2. artifacts[b] # NoArtifact /\ artifacts[b].stored # 0
    BY <2>1, NothingThere DEF CompletedByJob
  <2>3. b[2] # run.key
    BY <1>11, <2>1, <2>2
  <2>4. \/ lost >= 2
        \/ lost >= 1 /\ \E r \in runs : r.key = b[2] /\ r.at \in {"stored", "failing"}
    BY <2>1 DEF Overwriting
  <2> QED BY <1>2, <2>3, <2>4
<1>14. RequestCompleted'
  <2>1. CASE dsrStatus' \in {dsrStatus, "failed"}
    BY <1>4, <2>1, RequestStays
  <2>2. CASE dsrStatus' = "completed" /\ artifact.status = "completed" /\ artifact.dsr
    BY <1>3, <2>2 DEF RequestCompleted
  <2> QED BY <2>1, <2>2
<1> QED BY <1>0, <1>4, <1>5, <1>6, <1>8, <1>10, <1>12, <1>13, <1>14, BesideRequests

LEMMA ExportCommitKeeps ==
    ASSUME ExportsHeld, NEW run \in runs, CommitExport(run)
    PROVE  ExportsHeld'
<1> USE DEF ExportsHeld
<1>0. run.at = "stored" /\ UNCHANGED <<enqueueVars, objects, dsrJob, lost>>
  BY DEF CommitExport
<1> PICK a \in Artifacts : a = ArtifactOf(run)
  BY HandlerOwn
<1>1. artifacts[a] \in ArtifactRow /\ run.n \in 1..MaxAttempts /\ run.n \in 0..MaxAttempts
  BY HandlerOwn
<1>2. CASE artifacts[a].stored # 0
  <2>1. Step(run, "failing") /\ UNCHANGED <<artifacts, dsrStatus>>
    BY <1>2 DEF CommitExport
  <2> QED BY <1>0, <2>1, HandlerMoves
<1>3. CASE artifacts[a].stored = 0
  <2> DEFINE artifact == [artifacts[a] EXCEPT !.status = "completed", !.stored = run.n]
  <2>1. /\ artifacts' = [artifacts EXCEPT ![a] = artifact]
        /\ dsrStatus' = IF artifacts[a].dsr THEN "completed" ELSE dsrStatus
        /\ Step(run, "done")
    BY <1>3 DEF CommitExport
  <2>2. /\ artifact \in ArtifactRow /\ artifact.status = "completed" /\ artifact.stored = run.n
        /\ artifact.dsr = artifacts[a].dsr
    BY <1>1 DEF ArtifactRow
  <2> HIDE DEF artifact
  <2>3. objects[a] = run.n /\ run.n # 0
    BY <1>0, <1>1 DEF ArtifactsLocked
  <2> QED BY <1>0, <2>1, <2>2, <2>3, ArtifactWritten
<1> QED BY <1>2, <1>3

LEMMA FailKeeps ==
    ASSUME ExportsHeld, NEW run \in runs, MarkExportFailed(run)
    PROVE  ExportsHeld'
<1> USE DEF ExportsHeld
<1>0. run.at = "failing" /\ UNCHANGED <<enqueueVars, objects, dsrJob, lost>> /\ Step(run, "raised")
  BY DEF MarkExportFailed
<1> PICK a \in Artifacts : a = ArtifactOf(run)
  BY HandlerOwn
<1>1. artifacts[a] \in ArtifactRow /\ artifacts[a] # NoArtifact /\ a[2] = run.key
  BY HandlerOwn
<1> DEFINE artifact == [artifacts[a] EXCEPT !.status = "failed"]
<1>2. /\ artifacts' = [artifacts EXCEPT ![a] = artifact]
      /\ dsrStatus' = IF artifacts[a].dsr THEN "failed" ELSE dsrStatus
  BY DEF MarkExportFailed
<1>3. /\ artifact \in ArtifactRow /\ artifact.status = "failed"
      /\ artifact.stored = artifacts[a].stored /\ artifact.dsr = artifacts[a].dsr
  BY <1>1 DEF ArtifactRow
<1> HIDE DEF artifact
<1>4. lost = 0 => artifacts[a].stored = 0
  BY <1>0, <1>1 DEF Undisturbed
<1>5. lost = 0 => artifacts[a].status # "completed"
  BY <1>1, <1>4 DEF CompletedByJob
<1> QED BY <1>0, <1>2, <1>3, <1>4, <1>5, ArtifactWritten

LEMMA StartKeeps ==
    ASSUME ExportsAssumption, ExportsHeld, NEW k \in JobKeys, StartRun(k)
    PROVE  ExportsHeld'
<1> USE DEF ExportsHeld
<1>0. /\ UNCHANGED <<clients, artifacts, objects, dsrStatus, dsrJob, lost>>
      /\ queue' \subseteq JobKeys
  BY DEF StartRun, Deliver, ExportsTyped
<1>1. CASE jobs[k].status # "queued"
  <2>1. UNCHANGED <<jobs, runs>>
    BY <1>1 DEF StartRun, Deliver
  <2>2. Kept /\ JobsOwn' /\ ArtifactsLocked' /\ CompletedByJob' /\ Undisturbed' /\ Overwriting'
    BY <1>0, <2>1, BehindStays
  <2>3. ExportsTyped'
    BY <1>0, <2>1 DEF ExportsTyped
  <2>4. RequestCompleted'
    BY <1>0, <2>2, RequestStays
  <2> QED BY <1>0, <2>2, <2>3, <2>4, BesideRequests
<1>2. CASE jobs[k].status = "queued"
  <2> DEFINE job == [jobs[k] EXCEPT !.status = "running", !.begun = @ + 1]
             handler == [key |-> k, n |-> jobs[k].begun + 1, at |-> "begin"]
  <2>1. jobs[k] # NoJob /\ jobs[k] \in JobRow /\ jobs[k].begun < MaxAttempts
        /\ jobs[k].begun \in Nat
    <3>1. jobs[k] # NoJob
      BY <1>2, NothingThere
    <3>2. jobs[k] \in JobRow
      BY <3>1 DEF ExportsTyped
    <3>3. jobs[k].begun < MaxAttempts
      BY <1>2, <3>1 DEF JobsOwn
    <3> QED BY <3>1, <3>2, <3>3 DEF JobRow
  <2>2. jobs[k].begun + 1 \in 0..MaxAttempts /\ jobs[k].begun + 1 \in 1..MaxAttempts
    BY <2>1 DEF ExportsAssumption
  <2>3. /\ job \in JobRow /\ job.status = "running" /\ job.begun = jobs[k].begun + 1
        /\ job.actor = jobs[k].actor /\ job.payload = jobs[k].payload
    BY <2>1, <2>2 DEF JobRow
  <2>4. /\ handler \in Handler /\ handler.key = k /\ handler.n = jobs[k].begun + 1
        /\ handler.at = "begin"
    BY <2>2 DEF Handler
  <2>5. jobs' = [jobs EXCEPT ![k] = job] /\ runs' = runs \cup {handler}
    BY <1>2 DEF StartRun, Deliver
  <2> HIDE DEF job, handler
  <2>6. /\ jobs' \in [JobKeys -> {NoJob} \cup JobRow] /\ jobs'[k] = job /\ job # NoJob
        /\ \A j \in JobKeys \ {k} : jobs'[j] = jobs[j]
    BY <2>3, <2>5, NothingThere DEF ExportsTyped
  <2>7. Kept
    <3>1. \A j \in JobKeys : jobs[j] # NoJob => /\ jobs'[j] # NoJob
            /\ jobs'[j].actor = jobs[j].actor /\ jobs'[j].payload = jobs[j].payload
      BY <2>3, <2>6
    <3> QED BY <1>0, <3>1 DEF Kept
  <2>8. ExportsTyped'
    BY <1>0, <2>4, <2>5, <2>6 DEF ExportsTyped
  <2>9. JobsOwn'
    BY <1>0, <2>1, <2>3, <2>6 DEF JobsOwn
  <2>10. \A r \in runs' : r \in runs \/ r = handler
    BY <2>5
  <2>11. \A r \in runs' : jobs'[r.key] # NoJob /\ jobs'[r.key].payload = jobs[r.key].payload
    BY <2>3, <2>4, <2>6, <2>10, HandlerOwn
  <2>12. ArtifactsLocked'
    <3>1. \A r \in runs' : Locks(r) \/ r.at = "stored" => r \in runs
      BY <2>4, <2>10 DEF Locks
    <3> QED BY <1>0, <2>11, <3>1 DEF ArtifactsLocked, ArtifactOf, Locks
  <2>13. \A a \in Artifacts : a[2] \in JobKeys
    BY DEF Artifacts
  <2>14. CompletedByJob'
    BY <1>0, <2>3, <2>6, <2>13 DEF CompletedByJob
  <2>15. Undisturbed'
    <3> SUFFICES ASSUME lost = 0
                 PROVE  /\ \A r \in runs' : jobs'[r.key].status # "queued"
                        /\ \A r, other \in runs' : r.key = other.key => r = other
                        /\ \A j \in JobKeys : jobs'[j].status = "running" =>
                             \E r \in runs' : r.key = j /\ r.n = jobs'[j].begun
                        /\ \A a \in Artifacts : artifacts[a] # NoArtifact /\ artifacts[a].stored # 0 =>
                             /\ \A r \in runs' : r.key = a[2] => r.at = "done"
                             /\ jobs'[a[2]].status # "queued"
      BY <1>0 DEF Undisturbed
    \* No other handler has the job: it would not be queued.
    <3>1. \A r \in runs : r.key \in JobKeys /\ r.key # k
      BY <1>2, HandlerOwn DEF Undisturbed
    <3>2. \A r \in runs' : jobs'[r.key].status # "queued"
      BY <2>3, <2>4, <2>6, <2>10, <3>1 DEF Undisturbed
    <3>3. \A r, other \in runs' : r.key = other.key => r = other
      BY <2>4, <2>10, <3>1 DEF Undisturbed
    <3>4. ASSUME NEW j \in JobKeys, jobs'[j].status = "running"
          PROVE  \E r \in runs' : r.key = j /\ r.n = jobs'[j].begun
      <4>1. CASE j = k
        BY <2>3, <2>4, <2>5, <2>6, <4>1
      <4>2. CASE j # k
        BY <2>5, <2>6, <3>4, <4>2 DEF Undisturbed
      <4> QED BY <4>1, <4>2
    <3>5. ASSUME NEW a \in Artifacts, artifacts[a] # NoArtifact, artifacts[a].stored # 0
          PROVE  /\ \A r \in runs' : r.key = a[2] => r.at = "done"
                 /\ jobs'[a[2]].status # "queued"
      <4>1. a[2] # k /\ a[2] \in JobKeys
        BY <1>2, <2>13, <3>5 DEF Undisturbed
      <4> QED BY <2>4, <2>6, <2>10, <3>5, <4>1 DEF Undisturbed
    <3> QED BY <3>2, <3>3, <3>4, <3>5
  <2>16. Overwriting'
    BY <1>0, <2>5 DEF Overwriting
  <2>17. RequestCompleted'
    BY <1>0, <2>7, RequestStays
  <2> QED BY <1>0, <2>7, <2>8, <2>9, <2>12, <2>14, <2>15, <2>16, <2>17, BesideRequests
<1> QED BY <1>1, <1>2

\* A job that ends, or is to be delivered again, whoever ran it.
LEMMA JobGoes ==
    ASSUME ExportsHeld, NEW k \in JobKeys, NEW status \in {"completed", "failed", "queued"},
           jobs[k].status = "running", jobs' = [jobs EXCEPT ![k].status = status],
           status = "queued" => jobs[k].begun < MaxAttempts,
           UNCHANGED <<artifacts, objects, dsrStatus>>,
           lost' = 0 => lost = 0, runs' \subseteq runs
    PROVE  /\ jobs' \in [JobKeys -> {NoJob} \cup JobRow] /\ JobsOwn' /\ ArtifactsLocked'
           /\ CompletedByJob' /\ Kept /\ RequestCompleted'
           /\ jobs'[k].status = status /\ \A j \in JobKeys \ {k} : jobs'[j] = jobs[j]
<1> USE DEF ExportsHeld
<1> DEFINE job == [jobs[k] EXCEPT !.status = status]
<1>1. jobs[k] # NoJob /\ jobs[k] \in JobRow
  BY NothingThere DEF ExportsTyped
<1>2. /\ job \in JobRow /\ job.status = status /\ job.begun = jobs[k].begun
      /\ job.actor = jobs[k].actor /\ job.payload = jobs[k].payload
  BY <1>1 DEF JobRow, Ended
<1>3. jobs' = [jobs EXCEPT ![k] = job]
  OBVIOUS
<1> HIDE DEF job
<1>4. /\ jobs' \in [JobKeys -> {NoJob} \cup JobRow] /\ jobs'[k] = job /\ job # NoJob
      /\ \A j \in JobKeys \ {k} : jobs'[j] = jobs[j]
  BY <1>2, <1>3, NothingThere DEF ExportsTyped
<1>5. \A j \in JobKeys : jobs[j] # NoJob => /\ jobs'[j] # NoJob
        /\ jobs'[j].actor = jobs[j].actor /\ jobs'[j].payload = jobs[j].payload
  BY <1>2, <1>4
<1>6. Kept
  BY <1>5 DEF Kept
<1>7. JobsOwn'
  BY <1>1, <1>2, <1>4 DEF JobsOwn
<1>8. ArtifactsLocked'
  <2>1. \A r \in runs' : r \in runs /\ r.key \in JobKeys /\ jobs[r.key] # NoJob
    BY HandlerOwn
  <2> QED BY <1>5, <2>1 DEF ArtifactsLocked, ArtifactOf, Locks
<1>9. CompletedByJob'
  <2>1. \A a \in Artifacts : a[2] \in JobKeys
    BY DEF Artifacts
  <2> QED BY <1>5, <2>1 DEF CompletedByJob
<1>10. RequestCompleted'
  BY <1>6, RequestStays
<1> QED BY <1>2, <1>4, <1>6, <1>7, <1>8, <1>9, <1>10

LEMMA LapseKeeps ==
    ASSUME ExportsAssumption, ExportsHeld, NEW k \in JobKeys, LeaseLapses(k)
    PROVE  ExportsHeld'
<1> USE DEF ExportsHeld
<1>0. /\ UNCHANGED <<clients, artifacts, objects, dsrStatus, dsrJob, runs>>
      /\ jobs[k].status = "running" /\ lost \in 0..MaxLost
  BY DEF LeaseLapses, ExportsTyped
<1>1. PICK status \in {"completed", "failed", "queued"} :
        /\ jobs' = [jobs EXCEPT ![k].status = status]
        /\ status = "queued" => jobs[k].begun < MaxAttempts
  <2>1. CASE jobs[k].begun < MaxAttempts
    BY <2>1 DEF LeaseLapses
  <2>2. CASE ~(jobs[k].begun < MaxAttempts)
    BY <2>2 DEF LeaseLapses
  <2> QED BY <2>1, <2>2
<1>2. queue' \subseteq JobKeys
  BY DEF LeaseLapses, ExportsTyped
\* A job that is running has a handler until something is lost.
<1>3. lost' \in 0..MaxLost /\ lost' >= lost /\ lost' # 0
  <2> DEFINE live == \E run \in runs : run.key = k /\ Holds(run)
  <2>1. (live => lost < MaxLost) /\ lost' = IF live THEN lost + 1 ELSE lost
    BY DEF LeaseLapses
  <2>2. lost = 0 => live
    BY <1>0 DEF Undisturbed, Holds
  <2> HIDE DEF live
  <2> QED BY <1>0, <2>1, <2>2 DEF ExportsAssumption
<1>4. /\ jobs' \in [JobKeys -> {NoJob} \cup JobRow] /\ JobsOwn' /\ ArtifactsLocked'
      /\ CompletedByJob' /\ Kept /\ RequestCompleted'
  BY <1>0, <1>1, <1>3, JobGoes
<1>5. ExportsTyped'
  BY <1>0, <1>2, <1>3, <1>4 DEF ExportsTyped
<1>6. Undisturbed'
  BY <1>3 DEF Undisturbed
<1>7. Overwriting'
  BY <1>0, <1>3 DEF Overwriting
<1> QED BY <1>0, <1>4, <1>5, <1>6, <1>7, BesideRequests

\* A handler that goes, its job as it is.
LEMMA HandlerGone ==
    ASSUME ExportsHeld, NEW run \in runs, runs' = runs \ {run}, UNCHANGED <<jobs, artifacts, objects>>
    PROVE  JobsOwn' /\ ArtifactsLocked' /\ CompletedByJob'
<1> USE DEF ExportsHeld
<1>1. JobsOwn' /\ CompletedByJob'
  BY DEF JobsOwn, CompletedByJob
<1>2. ArtifactsLocked'
  BY DEF ArtifactsLocked, ArtifactOf, Locks
<1> QED BY <1>1, <1>2

LEMMA LostKeeps ==
    ASSUME ExportsAssumption, ExportsHeld, NEW run \in runs, WorkerLost(run)
    PROVE  ExportsHeld'
<1> USE DEF ExportsHeld
<1>0. /\ UNCHANGED <<jobs, queue, clients, artifacts, objects, dsrStatus, dsrJob>>
      /\ runs' = runs \ {run} /\ lost < MaxLost /\ lost' = lost + 1 /\ lost \in 0..MaxLost
  BY DEF WorkerLost, enqueueVars, ExportsTyped
<1>1. lost' \in 0..MaxLost /\ lost' # 0 /\ (lost >= 1 => lost' >= 2)
  BY <1>0 DEF ExportsAssumption
<1>2. JobsOwn' /\ ArtifactsLocked' /\ CompletedByJob'
  BY <1>0, HandlerGone
<1>3. Kept
  BY <1>0, <1>1 DEF Kept
<1>4. ExportsTyped'
  BY <1>0, <1>1 DEF ExportsTyped
<1>5. Undisturbed' /\ RequestCompleted'
  BY <1>1 DEF Undisturbed, RequestCompleted
<1>6. lost >= 2 => lost' >= 2
  BY <1>0, <1>1
<1>7. Overwriting'
  BY <1>0, <1>1, <1>6 DEF Overwriting
<1> QED BY <1>0, <1>2, <1>3, <1>4, <1>5, <1>7, BesideRequests

LEMMA FinishKeeps ==
    ASSUME ExportsHeld, NEW run \in runs, FinishRun(run)
    PROVE  ExportsHeld'
<1> USE DEF ExportsHeld
<1>0. /\ UNCHANGED <<clients, artifacts, objects, dsrStatus, dsrJob, lost>>
      /\ runs' = runs \ {run} /\ run.at \in {"done", "raised"}
  BY DEF FinishRun
<1>1. Overwriting'
  <2>1. \A r \in runs : r.at \in {"stored", "failing"} => r \in runs'
    BY <1>0
  <2> QED BY <1>0, <2>1 DEF Overwriting
<1> PICK k \in JobKeys : k = run.key
  BY HandlerOwn
<1>2. \A a \in Artifacts : a[2] \in JobKeys
  BY DEF Artifacts
<1>3. lost = 0 => \A r \in runs' : r \in runs /\ r.key # k
  BY <1>0 DEF Undisturbed
<1>4. CASE ~Holds(run)
  <2>1. UNCHANGED <<jobs, queue>>
    BY <1>4 DEF FinishRun
  <2>2. JobsOwn' /\ ArtifactsLocked' /\ CompletedByJob'
    BY <1>0, <2>1, HandlerGone
  <2>3. Kept
    BY <1>0, <2>1 DEF Kept
  <2>4. ExportsTyped'
    BY <1>0, <2>1 DEF ExportsTyped
  <2>5. lost = 0 => \A r \in runs : r.key = k => r = run
    BY DEF Undisturbed
  <2>6. lost = 0 => jobs[k].status # "running"
    BY <1>4, <2>5 DEF Undisturbed, Holds
  <2>7. lost = 0 => \A j \in JobKeys : jobs[j].status = "running" =>
          \E r \in runs' : r.key = j /\ r.n = jobs[j].begun
    BY <1>0, <2>6 DEF Undisturbed
  <2>8. Undisturbed'
    BY <1>0, <1>3, <2>1, <2>7 DEF Undisturbed
  <2>9. RequestCompleted'
    BY <1>0, <2>3, RequestStays
  <2> QED BY <1>0, <1>1, <2>2, <2>3, <2>4, <2>8, <2>9, BesideRequests
<1>5. CASE Holds(run)
  <2>1. jobs[k].status = "running"
    BY <1>5 DEF Holds
  <2>2. PICK status \in {"completed", "failed", "queued"} :
          /\ jobs' = [jobs EXCEPT ![k].status = status]
          /\ queue' \in {queue, queue \cup {k}}
          /\ status = "queued" => run.at # "done" /\ jobs[k].begun < MaxAttempts
    <3> DEFINE outcomes == IF run.at = "done" THEN {"completed"}
                           ELSE {"failed"} \cup
                                IF jobs[k].begun < MaxAttempts THEN {"queued"} ELSE {}
    <3>1. PICK status \in outcomes :
            /\ jobs' = [jobs EXCEPT ![k].status = status]
            /\ queue' = IF status = "queued" THEN queue \cup {k} ELSE queue
      BY <1>0, <1>5 DEF FinishRun
    <3>2. status \in {"completed", "failed", "queued"}
          /\ (status = "queued" => run.at # "done" /\ jobs[k].begun < MaxAttempts)
      OBVIOUS
    <3>3. queue' \in {queue, queue \cup {k}}
      BY <3>1
    <3> HIDE DEF outcomes
    <3> QED BY <3>1, <3>2, <3>3
  <2>3. /\ jobs' \in [JobKeys -> {NoJob} \cup JobRow] /\ JobsOwn' /\ ArtifactsLocked'
        /\ CompletedByJob' /\ Kept /\ RequestCompleted'
        /\ jobs'[k].status = status /\ \A j \in JobKeys \ {k} : jobs'[j] = jobs[j]
    <3>1. runs' \subseteq runs /\ (lost' = 0 => lost = 0)
      BY <1>0
    <3> QED BY <1>0, <2>1, <2>2, <3>1, JobGoes
  <2>4. ExportsTyped'
    BY <1>0, <2>2, <2>3 DEF ExportsTyped
  <2>5. Undisturbed'
    <3> SUFFICES ASSUME lost = 0
                 PROVE  /\ \A r \in runs' : jobs'[r.key].status # "queued"
                        /\ \A r, other \in runs' : r.key = other.key => r = other
                        /\ \A j \in JobKeys : jobs'[j].status = "running" =>
                             \E r \in runs' : r.key = j /\ r.n = jobs'[j].begun
                        /\ \A a \in Artifacts : artifacts[a] # NoArtifact /\ artifacts[a].stored # 0 =>
                             /\ \A r \in runs' : r.key = a[2] => r.at = "done"
                             /\ jobs'[a[2]].status # "queued"
      BY <1>0 DEF Undisturbed
    <3>1. \A r \in runs' : r \in runs /\ r.key \in JobKeys /\ jobs'[r.key] = jobs[r.key]
      BY <1>0, <1>3, <2>3, HandlerOwn
    <3>2. \A r \in runs' : jobs'[r.key].status # "queued"
      BY <3>1 DEF Undisturbed
    <3>3. \A r, other \in runs' : r.key = other.key => r = other
      BY <3>1 DEF Undisturbed
    <3>4. \A j \in JobKeys : jobs'[j].status = "running" =>
            \E r \in runs' : r.key = j /\ r.n = jobs'[j].begun
      BY <1>0, <2>2, <2>3 DEF Undisturbed
    <3>5. ASSUME NEW a \in Artifacts, artifacts[a] # NoArtifact, artifacts[a].stored # 0
          PROVE  /\ \A r \in runs' : r.key = a[2] => r.at = "done"
                 /\ jobs'[a[2]].status # "queued"
      <4>1. \A r \in runs' : r.key = a[2] => r.at = "done"
        BY <3>1, <3>5 DEF Undisturbed
      <4>2. CASE a[2] = k
        <5>1. run.at = "done"
          BY <3>5, <4>2 DEF Undisturbed
        <5> QED BY <2>2, <2>3, <4>1, <4>2, <5>1
      <4>3. CASE a[2] # k
        BY <1>2, <2>3, <3>5, <4>1, <4>3 DEF Undisturbed
      <4> QED BY <4>2, <4>3
    <3> QED BY <3>2, <3>3, <3>4, <3>5
  <2> QED BY <1>0, <1>1, <2>3, <2>4, <2>5, BesideRequests
<1> QED BY <1>4, <1>5

----------------------------------------------------------------------------
(* Exports: the theorems *)

LEMMA ExportsStep ==
    ASSUME ExportsAssumption, ExportsHeld, [NextExports]_<<enqueueVars, exportVars>>
    PROVE  ExportsHeld'
<1>1. ASSUME NEW c \in Clients, NEW actor \in Actors, NEW key \in JobKeys, NEW dsr \in BOOLEAN,
             AskExport(c, actor, key, dsr)
      PROVE  ExportsHeld'
  BY <1>1, AskingKeeps
<1>2. ASSUME NEW c \in Clients, CreateArtifact(c)
      PROVE  ExportsHeld'
  BY <1>2, CreateKeeps
<1>3. ASSUME NEW c \in Clients, Enqueue(c)
      PROVE  ExportsHeld'
  BY <1>3, EnqueueReads, InsertKeeps, EnqueueWrites DEF Enqueue, EnqueueStep
<1>4. ASSUME NEW c \in Clients, ReadArtifact(c) \/ LinkRequest(c)
      PROVE  ExportsHeld'
  BY <1>4, LinksKeep
<1>5. ASSUME NEW c \in Clients, ClientLost(c), UNCHANGED exportVars
      PROVE  ExportsHeld'
  BY <1>5, EnqueueReads
<1>6. ASSUME NEW k \in JobKeys, RecoverOrphan(k), UNCHANGED exportVars
      PROVE  ExportsHeld'
  BY <1>6, OrphanKeeps
<1>7. ASSUME NEW k \in JobKeys, StartRun(k) \/ LeaseLapses(k)
      PROVE  ExportsHeld'
  BY <1>7, StartKeeps, LapseKeeps
<1>8. ASSUME NEW run \in runs, CheckJob(run)
      PROVE  ExportsHeld'
  <2>1. /\ run.at = "begin" /\ UNCHANGED <<enqueueVars, artifacts, objects, dsrStatus, dsrJob, lost>>
        /\ Step(run, "checked") \/ Step(run, "raised")
    BY <1>8 DEF CheckJob
  <2> QED BY <2>1, HandlerMoves
<1>9. ASSUME NEW run \in runs, LockArtifact(run)
      PROVE  ExportsHeld'
  BY <1>9, HandlerMoves DEF LockArtifact
<1>10. ASSUME NEW run \in runs, PutExport(run) \/ CommitExport(run) \/ MarkExportFailed(run)
       PROVE  ExportsHeld'
  BY <1>10, PutKeeps, ExportCommitKeeps, FailKeeps
<1>11. ASSUME NEW run \in runs, FinishRun(run) \/ WorkerLost(run)
       PROVE  ExportsHeld'
  BY <1>11, FinishKeeps, LostKeeps
<1>12. CASE UNCHANGED <<enqueueVars, exportVars>>
  <2>1. UNCHANGED <<jobs, queue, clients, artifacts, objects, dsrStatus, dsrJob, runs, lost>>
    BY <1>12 DEF enqueueVars, exportVars
  <2>2. Kept /\ JobsOwn' /\ ArtifactsLocked' /\ CompletedByJob' /\ Undisturbed' /\ Overwriting'
    BY <2>1, BehindStays
  <2>3. ExportsTyped'
    BY <2>1 DEF ExportsHeld, ExportsTyped
  <2>4. RequestCompleted'
    BY <2>1, <2>2, RequestStays
  <2> QED BY <2>1, <2>2, <2>3, <2>4, BesideRequests
<1> QED BY <1>1, <1>2, <1>3, <1>4, <1>5, <1>6, <1>7, <1>8, <1>9, <1>10, <1>11, <1>12
           DEF NextExports

LEMMA ExportsFollow == ASSUME ExportsAssumption, ExportsHeld PROVE ExportsSound
<1> USE DEF ExportsHeld
<1>1. EnqueueTypeOK
  <2>1. \A k \in JobKeys : jobs[k] = NoJob \/ jobs[k] \in JobRow
    BY DEF ExportsTyped
  <2>2. \A job \in JobRow : /\ job.status \in {"queued", "running"} \cup Ended
                            /\ job.actor \in Actors /\ job.begun \in Nat
    BY DEF JobRow
  <2> QED BY <2>1, <2>2 DEF EnqueueTypeOK, ExportsTyped
<1>2. ExportsTypeOK
  <2>1. \A a \in Artifacts : artifacts[a] = NoArtifact \/ artifacts[a] \in ArtifactRow
    BY DEF ExportsTyped
  <2>2. \A artifact \in ArtifactRow : /\ artifact.status \in {"queued", "completed", "failed"}
                                      /\ artifact.stored \in 0..MaxAttempts
    BY DEF ArtifactRow
  <2>3. \A run \in runs : run.n \in 1..MaxAttempts
    BY HandlerOwn
  <2> QED BY <2>1, <2>2, <2>3 DEF ExportsTypeOK, ExportsTyped
<1>3. AnsweredWithOwnJob
  <2>1. \A c \in Clients : At(c, "answered") => clients[c] # Arriving /\ clients[c].at \in Enqueued
    BY NothingThere DEF At, Enqueued
  <2> QED BY <2>1 DEF AnsweredWithOwnJob, ClientsOwn
<1>4. CompletedExportsKept
  <2>1. ASSUME NEW a \in Artifacts, Settled(a), lost < 2, artifacts[a].status = "completed"
        PROVE  objects[a] = artifacts[a].stored
    <3>1. ~(lost >= 2)
      BY <2>1 DEF ExportsTyped, ExportsAssumption
    <3> QED BY <2>1, <3>1 DEF Overwriting, Settled
  <2> QED BY <2>1 DEF CompletedExportsKept, RequestCompleted
<1> QED BY <1>1, <1>2, <1>3, <1>4 DEF ExportsSound

\* Every reachable state of requests, jobs, handlers and artifacts is as the
\* invariant says, whatever is asked, delivered again or lost.
THEOREM ExportsInvariant == ExportsSpec => []ExportsHeld
<1>1. ExportsAssumption /\ InitExports => ExportsHeld
  BY ExportsStart
<1>2. ExportsAssumption /\ ExportsHeld /\ [NextExports]_<<enqueueVars, exportVars>> => ExportsHeld'
  BY ExportsStep
<1> QED BY <1>1, <1>2, ExportsAssumption, PTL DEF ExportsSpec

\* Whoever asks for work gets their own, and what it left behind when it says
\* completed (services/jobs.py:86-159, data_lifecycle.py:659-684).
THEOREM ExportsAreSound == ExportsSpec => []ExportsSound
<1>1. ExportsAssumption /\ ExportsHeld => ExportsSound
  BY ExportsFollow
<1> QED BY <1>1, ExportsInvariant, ExportsAssumption, PTL

----------------------------------------------------------------------------
(* Seeding: the inductive invariant *)

Row == [status : {"draft", "published", "deprecated"}, print : Prints \cup {"clone"}, born : Nat]
Shelves == UNION {[D -> Row] : D \in {E \in SUBSET (Nat \ {0}) : IsFiniteSet(E)}}
Placing == {"template", "add template", "version", "add version", "commit"}
Early == {"organization", "add organization", "prompts", "add prompts"}
Starter == [at : {"down", "failed", "serving"} \cup Early \cup Placing,
            release : Releases \cup {"none"}, nr : Nat \ {0}, orgs : {0, 1},
            prompts : SUBSET UNION {PromptsOf[r] : r \in Releases},
            template : BOOLEAN, rows : Shelves, met : BOOLEAN]

SeedTyped ==
    /\ starters \in [Starters -> Starter] /\ shelf \in Shelves
    /\ legacy \in BOOLEAN /\ builtin \in BOOLEAN /\ crossed \in BOOLEAN

\* What a start has found or stored of the first versions of its release.
Placed(s, nr) ==
    \/ nr \in DOMAIN shelf /\ Unchanged(shelf[nr], Ships[s.release][nr])
    \/ nr \in DOMAIN s.rows /\ Unchanged(s.rows[nr], Ships[s.release][nr])

\* Each transaction of a start builds on what those before it committed, and
\* holds what it has inserted itself.
Ordered(s) ==
    /\ s.at # "down" => s.release \in Releases
    /\ s.orgs = 1 => s.at = "add organization"
    /\ s.prompts # {} =>
          s.at = "add prompts" /\ s.prompts = PromptsOf[s.release] /\ registry = {}
    /\ s.at \in Early => s.nr = 1
    /\ s.at \in {"prompts", "add prompts", "serving"} \cup Placing => legacy
    /\ s.at \in {"serving"} \cup Placing => registry # {}
    /\ s.at \in {"version", "add version", "commit"} => builtin \/ s.template
    /\ s.at = "serving" => builtin
    /\ s.at \notin Placing => DOMAIN s.rows = {} /\ ~s.template

\* The versions of the release, one after the other.
Counted(s) ==
    /\ DOMAIN s.rows \cap DOMAIN shelf = {}
    /\ s.at \in Placing =>
         /\ DOMAIN s.rows \subseteq 1..s.nr - 1
         /\ s.nr <= Len(Ships[s.release]) + 1
         /\ s.at # "commit" => s.nr <= Len(Ships[s.release])
         /\ s.at = "commit" => s.nr = Len(Ships[s.release]) + 1
         /\ \A nr \in 1..s.nr - 1 : Placed(s, nr)
    /\ s.at = "serving" => \A nr \in 1..Len(Ships[s.release]) : Placed(s, nr)

\* A row of another print than the one shipped.
Otherwise(s, nr) == nr \in DOMAIN shelf /\ shelf[nr].print # Ships[s.release][nr]

\* What a look did not find is missing still, unless somebody else starts or a
\* version was cloned.
Surprised(s) ==
    /\ s.at = "add organization" => ~legacy \/ s.met
    /\ s.at = "add prompts" => registry = {} \/ s.met
    /\ s.at = "add template" => ~builtin \/ s.met
    /\ s.at = "add version" =>
          s.nr \notin DOMAIN s.rows
          /\ (s.nr \in DOMAIN shelf => s.met \/ Otherwise(s, s.nr))
    /\ s.at = "failed" =>
          owned # {} \/ s.met \/ \E nr \in 1..Len(Ships[s.release]) : Otherwise(s, nr)

Apart(s) == owned # {} /\ (s.template \/ s.at = "add template") => crossed

\* Without clones the versions are those of one release after the other.
InLine(s) ==
    cloned = {} =>
      /\ \E k \in Nat : DOMAIN shelf \cup DOMAIN s.rows = 1..k
      /\ \A nr \in DOMAIN s.rows : s.rows[nr].born = nr

Good(s) == Ordered(s) /\ Counted(s) /\ Surprised(s) /\ Apart(s) /\ InLine(s)

Begun(s) == s.at \notin {"down", "failed", "serving"}

\* Two starts hold different rows, and know that they met.
Separate(s, t) ==
    /\ DOMAIN s.rows \cap DOMAIN t.rows = {}
    /\ s.prompts = {} \/ t.prompts = {}
    /\ Begun(s) /\ Begun(t) => s.met /\ t.met

ShelfSound ==
    /\ builtin /\ owned # {} => crossed
    /\ registry \in {{}} \cup {PromptsOf[r] : r \in Releases}
    /\ \A nr \in DOMAIN shelf : shelf[nr].status = "draft" => shelf[nr].print = "clone"
    /\ cloned = {} =>
          /\ \E k \in Nat : DOMAIN shelf = 1..k
          /\ \A nr \in DOMAIN shelf : shelf[nr].born = nr

SeedInvariant ==
    /\ SeedTyped /\ ShelfSound
    /\ \A p \in Starters : Good(starters[p])
    /\ \A p, q \in Starters : p # q => Separate(starters[p], starters[q])

LEMMA ShelfFacts ==
    ASSUME NEW m \in Shelves
    PROVE  /\ DOMAIN m \subseteq Nat \ {0} /\ IsFiniteSet(DOMAIN m)
           /\ m \in [DOMAIN m -> Row]
BY DEF Shelves

LEMMA ShelfIn ==
    ASSUME NEW D \in SUBSET (Nat \ {0}), IsFiniteSet(D), NEW m \in [D -> Row]
    PROVE  m \in Shelves
BY DEF Shelves

LEMMA EmptyShelf == [n \in {} |-> 0] \in Shelves /\ DOMAIN [n \in {} |-> 0] = {}
<1>1. [n \in {} |-> 0] \in [{} -> Row]
    OBVIOUS
<1>2. IsFiniteSet({})
    BY FS_EmptySet
<1> QED BY <1>1, <1>2, ShelfIn

LEMMA ShipsFacts ==
    ASSUME NEW r \in Releases
    PROVE  /\ Len(Ships[r]) \in Nat \ {0} /\ DOMAIN Ships[r] = 1..Len(Ships[r])
           /\ \A n \in 1..Len(Ships[r]) : Ships[r][n] \in Prints
           /\ "clone" \notin Prints
           /\ PromptsOf[r] # {} /\ \A q \in Releases : PromptsOf[q] \cap PromptsOf[r] # {}
<1>1. Ships[r] \in Seq(Prints) /\ Ships[r] # <<>>
    BY SeedingAssumption
<1>2. Len(Ships[r]) \in Nat \ {0} /\ DOMAIN Ships[r] = 1..Len(Ships[r])
    BY <1>1
<1>3. \A n \in 1..Len(Ships[r]) : Ships[r][n] \in Prints
    BY <1>1
<1> QED BY <1>2, <1>3, SeedingAssumption

LEMMA GoodSame ==
    ASSUME NEW q, NEW s, s = starters'[q], Good(s)'
    PROVE  Good(starters[q])'
<1>1. Ordered(starters[q])'
    BY DEF Good, Ordered
<1>2. Counted(starters[q])'
    BY DEF Good, Counted, Placed
<1>3. Surprised(starters[q])'
    BY DEF Good, Surprised, Otherwise
<1>4. Apart(starters[q])' /\ InLine(starters[q])'
    BY DEF Good, Apart, InLine
<1> QED BY <1>1, <1>2, <1>3, <1>4 DEF Good

\* A step of one start that stores nothing.
LEMMA OwnStep ==
    ASSUME SeedInvariant, NEW p \in Starters, NEW rec \in Starter,
           starters' = [starters EXCEPT ![p] = rec],
           legacy' = legacy, registry' = registry, builtin' = builtin, shelf' = shelf,
           owned' = owned, crossed' = crossed, cloned' = cloned,
           Good(rec), \A q \in Starters \ {p} : Separate(rec, starters[q])
    PROVE  SeedInvariant'
<1>1. SeedTyped'
    BY DEF SeedInvariant, SeedTyped
<1>2. starters'[p] = rec /\ \A q \in Starters \ {p} : starters'[q] = starters[q]
    BY DEF SeedInvariant, SeedTyped
<1>3. ShelfSound'
    BY DEF SeedInvariant, ShelfSound
<1>4. ASSUME NEW s, Good(s) PROVE Good(s)'
    <2>1. Ordered(s)'
        BY <1>4 DEF Good, Ordered
    <2>2. Counted(s)'
        BY <1>4 DEF Good, Counted, Placed
    <2>3. Surprised(s)'
        BY <1>4 DEF Good, Surprised, Otherwise
    <2>4. Apart(s)' /\ InLine(s)'
        BY <1>4 DEF Good, Apart, InLine
    <2> QED BY <2>1, <2>2, <2>3, <2>4 DEF Good
<1>5. ASSUME NEW q \in Starters PROVE Good(starters[q])'
    <2> PICK s : s = starters'[q]
        OBVIOUS
    <2>1. Good(s)
        BY <1>2 DEF SeedInvariant
    <2>2. Good(s)'
        BY <2>1, <1>4
    <2> QED BY <2>2, GoodSame
<1>6. ASSUME NEW q \in Starters, NEW r \in Starters, q # r
      PROVE  Separate(starters[q], starters[r])'
    <2>1. Separate(starters'[q], starters'[r])
        <3>1. CASE q = p
            BY <3>1, <1>2, <1>6
        <3>2. CASE r = p
            <4>1. Separate(rec, starters[q])
                BY <3>2, <1>6
            <4> QED BY <4>1, <3>2, <1>2, <1>6 DEF Separate
        <3>3. CASE q # p /\ r # p
            BY <3>3, <1>2, <1>6 DEF SeedInvariant
        <3> QED BY <3>1, <3>2, <3>3
    <2> QED BY <2>1 DEF Separate, Begun
<1> QED BY <1>1, <1>3, <1>5, <1>6 DEF SeedInvariant

LEMMA StarterFacts ==
    ASSUME NEW s \in Starter
    PROVE  /\ s.at \in {"down", "failed", "serving"} \cup Early \cup Placing
           /\ s.release \in Releases \cup {"none"} /\ s.nr \in Nat \ {0} /\ s.orgs \in {0, 1}
           /\ s.prompts \in SUBSET UNION {PromptsOf[r] : r \in Releases}
           /\ s.template \in BOOLEAN /\ s.rows \in Shelves /\ s.met \in BOOLEAN
BY DEF Starter

LEMMA Failing ==
    ASSUME SeedInvariant, NEW p \in Starters, Begun(starters[p]), Fails(p), NothingStored,
           \/ owned # {} \/ starters[p].met
           \/ \E nr \in 1..Len(Ships[starters[p].release]) : Otherwise(starters[p], nr)
    PROVE  SeedInvariant'
<1> PICK s \in Starter : s = starters[p]
    BY DEF SeedInvariant, SeedTyped
<1>1. Good(s) /\ Begun(s) /\ ShelfSound
    BY DEF SeedInvariant
<1> PICK rec : rec = [s EXCEPT !.at = "failed", !.orgs = 0, !.prompts = {},
                               !.template = FALSE, !.rows = [n \in {} |-> 0]]
    OBVIOUS
<1>2. rec \in Starter
    BY EmptyShelf DEF Starter
<1>3. /\ rec.at = "failed" /\ rec.release = s.release /\ rec.nr = s.nr /\ rec.orgs = 0
      /\ rec.prompts = {} /\ rec.template = FALSE /\ DOMAIN rec.rows = {} /\ rec.met = s.met
    BY EmptyShelf DEF Starter
<1>4. Apart(rec)
    BY <1>3 DEF Apart
<1>9. Ordered(rec)
    <2>1. s.release \in Releases
        BY <1>1 DEF Good, Ordered, Begun
    <2> QED BY <2>1, <1>3 DEF Ordered, Early, Placing
<1>5. Counted(rec) /\ InLine(rec)
    <2>1. rec.at \notin {"serving"} \cup Placing
        BY <1>3 DEF Placing
    <2>2. Counted(rec)
        BY <2>1, <1>3 DEF Counted
    <2>3. InLine(rec)
        BY <1>1, <1>3 DEF InLine, ShelfSound
    <2> QED BY <2>2, <2>3
<1>6. Surprised(rec)
    BY <1>3 DEF Surprised, Otherwise
<1>7. \A q \in Starters \ {p} : Separate(rec, starters[q])
    BY <1>3 DEF Separate, Begun
<1>8. starters' = [starters EXCEPT ![p] = rec]
    BY DEF Fails, Proceed
<1> QED BY <1>2, <1>4, <1>5, <1>6, <1>7, <1>8, <1>9, OwnStep DEF Good, NothingStored

LEMMA LookOrganizationKeeps ==
    ASSUME SeedInvariant, NEW p \in Starters, LookOrganization(p)
    PROVE  SeedInvariant'
<1> PICK s \in Starter : s = starters[p]
    BY DEF SeedInvariant, SeedTyped
<1>1. Good(s) /\ \A q \in Starters \ {p} : Separate(s, starters[q])
    BY DEF SeedInvariant
<1> PICK rec : rec = [s EXCEPT !.at = IF legacy THEN "prompts" ELSE "add organization"]
    OBVIOUS
<1>2. rec \in Starter
    BY DEF Starter, Early
<1>3. /\ (legacy /\ rec.at = "prompts") \/ (~legacy /\ rec.at = "add organization")
      /\ rec.release = s.release /\ rec.nr = s.nr /\ rec.orgs = s.orgs
      /\ rec.prompts = s.prompts /\ rec.template = s.template /\ rec.rows = s.rows
      /\ rec.met = s.met
    BY DEF Starter
<1>4. s.at = "organization"
    BY DEF LookOrganization
<1>5. Ordered(rec) /\ Apart(rec)
    BY <1>1, <1>3, <1>4 DEF Good, Ordered, Early, Placing, Apart
<1>6. Counted(rec) /\ InLine(rec)
    BY <1>1, <1>3, <1>4 DEF Good, Counted, InLine, Placing
<1>7. Surprised(rec)
    BY <1>1, <1>3, <1>4 DEF Good, Surprised
<1>8. \A q \in Starters \ {p} : Separate(rec, starters[q])
    BY <1>1, <1>3, <1>4 DEF Separate, Begun
<1>9. starters' = [starters EXCEPT ![p] = rec]
    BY DEF LookOrganization, Proceed
<1> QED BY <1>2, <1>5, <1>6, <1>7, <1>8, <1>9, OwnStep DEF Good, NothingStored, LookOrganization

LEMMA InsertOrganizationKeeps ==
    ASSUME SeedInvariant, NEW p \in Starters, InsertOrganization(p)
    PROVE  SeedInvariant'
<1> PICK s \in Starter : s = starters[p]
    BY DEF SeedInvariant, SeedTyped
<1>1. Good(s) /\ \A q \in Starters \ {p} : Separate(s, starters[q])
    BY DEF SeedInvariant
<1>4. s.at = "add organization"
    BY DEF InsertOrganization
<1>A. CASE legacy
    <2>1. s.met
        BY <1>1, <1>4, <1>A DEF Good, Surprised
    <2> QED BY <2>1, <1>4, <1>A, Failing DEF InsertOrganization, Inserts, Begun
<1>B. CASE ~legacy
    <2> PICK rec : rec = [s EXCEPT !.orgs = 1]
        OBVIOUS
    <2>2. rec \in Starter
        BY DEF Starter
    <2>3. /\ rec.at = s.at /\ rec.release = s.release /\ rec.nr = s.nr /\ rec.orgs = 1
          /\ rec.prompts = s.prompts /\ rec.template = s.template /\ rec.rows = s.rows
          /\ rec.met = s.met
        BY DEF Starter
    <2>5. Ordered(rec) /\ Apart(rec) /\ Surprised(rec)
        BY <1>1, <2>3, <1>4 DEF Good, Ordered, Early, Placing, Apart, Surprised
    <2>6. Counted(rec) /\ InLine(rec)
        BY <1>1, <2>3, <1>4 DEF Good, Counted, InLine, Placing
    <2>8. \A q \in Starters \ {p} : Separate(rec, starters[q])
        BY <1>1, <2>3, <1>4 DEF Separate, Begun
    <2>9. starters' = [starters EXCEPT ![p] = rec]
        BY <1>B DEF InsertOrganization, Inserts, Proceed
    <2> QED BY <2>2, <2>5, <2>6, <2>8, <2>9, OwnStep DEF Good, NothingStored, InsertOrganization
<1> QED BY <1>A, <1>B

LEMMA LookPromptsKeeps ==
    ASSUME SeedInvariant, NEW p \in Starters, LookPrompts(p)
    PROVE  SeedInvariant'
<1> PICK s \in Starter : s = starters[p]
    BY DEF SeedInvariant, SeedTyped
<1>1. Good(s) /\ \A q \in Starters \ {p} : Separate(s, starters[q])
    BY DEF SeedInvariant
<1>0. PICK rec : rec = [s EXCEPT !.at = IF registry # {} THEN "template" ELSE "add prompts"]
    OBVIOUS
<1>2. rec \in Starter
    BY <1>0 DEF Starter, Early, Placing
<1>3. /\ (registry # {} /\ rec.at = "template") \/ (registry = {} /\ rec.at = "add prompts")
      /\ rec.release = s.release /\ rec.nr = s.nr /\ rec.orgs = s.orgs
      /\ rec.prompts = s.prompts /\ rec.template = s.template /\ rec.rows = s.rows
      /\ rec.met = s.met
    BY <1>0 DEF Starter
<1>4. s.at = "prompts" /\ s.release \in Releases
    BY <1>1 DEF LookPrompts, Good, Ordered
<1>5. Ordered(rec) /\ Apart(rec)
    BY <1>1, <1>3, <1>4 DEF Good, Ordered, Early, Placing, Apart
<1>6. Counted(rec) /\ InLine(rec)
    <2>1. s.nr = 1 /\ DOMAIN s.rows = {} /\ Len(Ships[s.release]) \in Nat \ {0}
        BY <1>1, <1>4, ShipsFacts DEF Good, Ordered, Early, Placing
    <2>6. rec.nr = 1 /\ rec.rows = s.rows /\ rec.release = s.release
        BY <2>1, <1>3
    <2>2. 1..rec.nr - 1 = {} /\ DOMAIN rec.rows = {} /\ rec.nr = 1
        BY <2>1, <2>6
    <2>3. 1 <= Len(Ships[rec.release]) /\ 1 <= Len(Ships[rec.release]) + 1
        BY <2>1, <2>6
    <2>4. rec.at # "commit" /\ rec.at # "serving"
        BY <1>3
    <2>5. Counted(rec)
        BY <2>2, <2>3, <2>4 DEF Counted
    <2> QED BY <2>5, <1>1, <1>3 DEF Good, InLine
<1>7. Surprised(rec)
    BY <1>1, <1>3, <1>4 DEF Good, Surprised
<1>8. \A q \in Starters \ {p} : Separate(rec, starters[q])
    BY <1>1, <1>3, <1>4 DEF Separate, Begun
<1>9. starters' = [starters EXCEPT ![p] = rec]
    BY <1>0 DEF LookPrompts, Proceed
<1> QED BY <1>2, <1>5, <1>6, <1>7, <1>8, <1>9, OwnStep DEF Good, NothingStored, LookPrompts

LEMMA InsertPromptsKeeps ==
    ASSUME SeedInvariant, NEW p \in Starters, InsertPrompts(p)
    PROVE  SeedInvariant'
<1> PICK s \in Starter : s = starters[p]
    BY DEF SeedInvariant, SeedTyped
<1>1. Good(s) /\ \A q \in Starters \ {p} : Separate(s, starters[q])
    BY DEF SeedInvariant
<1> PICK names : names = PromptsOf[s.release]
    OBVIOUS
<1>4. s.at = "add prompts" /\ s.release \in Releases
    BY <1>1 DEF InsertPrompts, Good, Ordered
<1>A. CASE registry \cap names # {}
    <2>1. s.met
        BY <1>1, <1>4, <1>A DEF Good, Surprised
    <2> QED BY <2>1, <1>4, <1>A, Failing DEF InsertPrompts, Inserts, Begun
<1>B. CASE registry \cap names = {}
    <2> PICK rec : rec = [s EXCEPT !.prompts = names]
        OBVIOUS
    <2>2. rec \in Starter
        BY <1>4 DEF Starter
    <2>3. /\ rec.at = s.at /\ rec.release = s.release /\ rec.nr = s.nr /\ rec.orgs = s.orgs
          /\ rec.prompts = names /\ rec.template = s.template /\ rec.rows = s.rows
          /\ rec.met = s.met
        BY DEF Starter
    <2>4. registry = {}
        <3>1. registry \in {{}} \cup {PromptsOf[r] : r \in Releases}
            BY DEF SeedInvariant, ShelfSound
        <3> QED BY <3>1, <1>B, <1>4, ShipsFacts
    <2>5. Ordered(rec) /\ Apart(rec) /\ Surprised(rec)
        BY <1>1, <2>3, <1>4, <2>4 DEF Good, Ordered, Early, Placing, Apart, Surprised
    <2>6. Counted(rec) /\ InLine(rec)
        BY <1>1, <2>3, <1>4 DEF Good, Counted, InLine, Placing
    <2>7. ASSUME NEW q \in Starters \ {p} PROVE starters[q].prompts = {}
        <3>1. starters[q].prompts \cap names = {}
            BY DEF InsertPrompts, Inserts
        <3>2. CASE starters[q].prompts # {}
            <4>1. Good(starters[q])
                BY DEF SeedInvariant
            <4>2. starters[q].at = "add prompts" /\ starters[q].prompts = PromptsOf[starters[q].release]
                  /\ starters[q].release \in Releases
                BY <4>1, <3>2 DEF Good, Ordered
            <4> QED BY <4>2, <3>1, <1>4, ShipsFacts
        <3> QED BY <3>2
    <2>8. \A q \in Starters \ {p} : Separate(rec, starters[q])
        BY <1>1, <2>3, <1>4, <2>7 DEF Separate, Begun
    <2>9. starters' = [starters EXCEPT ![p] = rec]
        BY <1>B DEF InsertPrompts, Inserts, Proceed
    <2> QED BY <2>2, <2>5, <2>6, <2>8, <2>9, OwnStep DEF Good, NothingStored, InsertPrompts
<1> QED BY <1>A, <1>B

LEMMA LookTemplateKeeps ==
    ASSUME SeedInvariant, NEW p \in Starters, LookTemplate(p)
    PROVE  SeedInvariant'
<1> PICK s \in Starter : s = starters[p]
    BY DEF SeedInvariant, SeedTyped
<1>1. Good(s) /\ \A q \in Starters \ {p} : Separate(s, starters[q])
    BY DEF SeedInvariant
<1>4. s.at = "template" /\ s.release \in Releases
    BY <1>1 DEF LookTemplate, Good, Ordered
<1>2. ASSUME NEW at \in {"add template", "version"},
             Proceed(p, [starters[p] EXCEPT !.at = at]), NothingStored,
             at = "add template" => ~builtin /\ ~s.template /\ owned = {},
             at = "version" => builtin \/ s.template
      PROVE  SeedInvariant'
    <2>0. PICK rec : rec = [s EXCEPT !.at = at]
        OBVIOUS
    <2>1. rec \in Starter
        BY <2>0 DEF Starter, Placing
    <2>2. /\ rec.at = at /\ rec.release = s.release /\ rec.nr = s.nr /\ rec.orgs = s.orgs
          /\ rec.prompts = s.prompts /\ rec.template = s.template /\ rec.rows = s.rows
          /\ rec.met = s.met
        BY <2>0 DEF Starter
    <2>3. Ordered(rec) /\ Apart(rec) /\ Surprised(rec)
        BY <1>1, <1>2, <2>2, <1>4 DEF Good, Ordered, Early, Placing, Apart, Surprised
    <2>4. Counted(rec)
        <3>1. \A nr \in 1..s.nr - 1 : Placed(s, nr) => Placed(rec, nr)
            BY <2>2 DEF Placed
        <3> QED BY <1>1, <1>2, <2>2, <1>4, <3>1 DEF Good, Counted, Placing
    <2>5. InLine(rec)
        BY <1>1, <2>2 DEF Good, InLine
    <2>6. \A q \in Starters \ {p} : Separate(rec, starters[q])
        BY <1>1, <1>2, <2>2, <1>4 DEF Separate, Begun
    <2>7. starters' = [starters EXCEPT ![p] = rec]
        BY <1>2, <2>0 DEF Proceed
    <2> QED BY <1>2, <2>1, <2>3, <2>4, <2>5, <2>6, <2>7, OwnStep DEF Good, NothingStored
<1>5. CASE Fails(p) /\ owned # {}
    BY <1>5, <1>4, Failing DEF Begun, LookTemplate
<1>6. CASE /\ ~builtin /\ ~s.template /\ owned = {}
           /\ Proceed(p, [starters[p] EXCEPT !.at = "add template"])
    BY <1>6, <1>2 DEF LookTemplate
<1>7. CASE (builtin \/ s.template) /\ Proceed(p, [starters[p] EXCEPT !.at = "version"])
    BY <1>7, <1>2 DEF LookTemplate
<1> QED BY <1>5, <1>6, <1>7 DEF LookTemplate

LEMMA InsertTemplateKeeps ==
    ASSUME SeedInvariant, NEW p \in Starters, InsertTemplate(p)
    PROVE  SeedInvariant'
<1> PICK s \in Starter : s = starters[p]
    BY DEF SeedInvariant, SeedTyped
<1>1. Good(s) /\ \A q \in Starters \ {p} : Separate(s, starters[q])
    BY DEF SeedInvariant
<1>4. s.at = "add template"
    BY DEF InsertTemplate
<1>A. CASE builtin
    <2>1. s.met
        BY <1>1, <1>4, <1>A DEF Good, Surprised
    <2> QED BY <2>1, <1>4, <1>A, Failing DEF InsertTemplate, Inserts, Begun
<1>B. CASE ~builtin
    <2>0. PICK rec : rec = [s EXCEPT !.at = "version", !.template = TRUE]
        OBVIOUS
    <2>1. rec \in Starter
        BY <2>0 DEF Starter, Placing
    <2>2. /\ rec.at = "version" /\ rec.release = s.release /\ rec.nr = s.nr /\ rec.orgs = s.orgs
          /\ rec.prompts = s.prompts /\ rec.template = TRUE /\ rec.rows = s.rows
          /\ rec.met = s.met
        BY <2>0 DEF Starter
    <2>3. Ordered(rec) /\ Apart(rec) /\ Surprised(rec)
        BY <1>1, <2>2, <1>4 DEF Good, Ordered, Early, Placing, Apart, Surprised
    <2>4. Counted(rec)
        <3>1. \A nr \in 1..s.nr - 1 : Placed(s, nr) => Placed(rec, nr)
            BY <2>2 DEF Placed
        <3> QED BY <1>1, <2>2, <1>4, <3>1 DEF Good, Counted, Placing
    <2>5. InLine(rec)
        BY <1>1, <2>2 DEF Good, InLine
    <2>6. \A q \in Starters \ {p} : Separate(rec, starters[q])
        BY <1>1, <2>2, <1>4 DEF Separate, Begun
    <2>7. starters' = [starters EXCEPT ![p] = rec]
        BY <1>B, <2>0 DEF InsertTemplate, Inserts, Proceed
    <2> QED BY <2>1, <2>3, <2>4, <2>5, <2>6, <2>7, OwnStep
        DEF Good, NothingStored, InsertTemplate
<1> QED BY <1>A, <1>B

\* The next version is there, or among the rows the start holds by then.
Adds(p, s, rows) ==
    /\ s.at \in {"version", "add version"}
    /\ Proceed(p, NextFile(p, [s EXCEPT !.rows = rows])) /\ NothingStored
    /\ DOMAIN s.rows \subseteq DOMAIN rows /\ DOMAIN rows \subseteq 1..s.nr
    /\ \A nr \in DOMAIN s.rows : rows[nr] = s.rows[nr]
    /\ DOMAIN rows \cap DOMAIN shelf = {} /\ (builtin \/ s.template)
    /\ \A q \in Starters \ {p} : DOMAIN rows \cap DOMAIN starters[q].rows = {}
    /\ \/ s.nr \in DOMAIN shelf /\ Unchanged(shelf[s.nr], Ships[s.release][s.nr])
       \/ s.nr \in DOMAIN rows /\ Unchanged(rows[s.nr], Ships[s.release][s.nr])
    /\ cloned = {} =>
         /\ \E k \in Nat : DOMAIN shelf \cup DOMAIN rows = 1..k
         /\ \A nr \in DOMAIN rows : rows[nr].born = nr

LEMMA NextFileKeeps ==
    ASSUME SeedInvariant, NEW p \in Starters, NEW s \in Starter, s = starters[p],
           NEW rows \in Shelves, Adds(p, s, rows)
    PROVE  SeedInvariant'
<1>1. Good(s) /\ \A q \in Starters \ {p} : Separate(s, starters[q])
    BY DEF SeedInvariant
<1>2. s.release \in Releases /\ s.nr \in Nat \ {0}
    BY <1>1, StarterFacts DEF Good, Ordered, Adds
<1>3. Len(Ships[s.release]) \in Nat \ {0} /\ s.nr <= Len(Ships[s.release])
    BY <1>1, <1>2, ShipsFacts DEF Good, Counted, Placing, Adds
<1>0. PICK rec : rec = NextFile(p, [s EXCEPT !.rows = rows])
    OBVIOUS
<1>a. PICK mid : mid = [s EXCEPT !.rows = rows]
    OBVIOUS
<1>b. /\ mid.release = s.release /\ mid.nr = s.nr /\ mid.orgs = s.orgs
      /\ mid.prompts = s.prompts /\ mid.template = s.template /\ mid.rows = rows
      /\ mid.met = s.met /\ mid.at = s.at /\ mid \in Starter
    BY <1>a DEF Starter
<1>c. PICK at \in {"commit", "template"} :
        at = IF mid.nr = Len(Shipped(p)) THEN "commit" ELSE "template"
    OBVIOUS
<1>d. rec = [mid EXCEPT !.nr = @ + 1, !.at = at]
    BY <1>0, <1>a, <1>c DEF NextFile
<1>e. PICK n \in Nat \ {0} : n = s.nr
    BY <1>2
<1>g. rec = [mid EXCEPT !.nr = n + 1, !.at = at] /\ n + 1 \in Nat \ {0}
    BY <1>b, <1>d, <1>e
<1>4. /\ rec.release = s.release /\ rec.nr = n + 1 /\ rec.orgs = s.orgs
      /\ rec.prompts = s.prompts /\ rec.template = s.template /\ rec.rows = rows
      /\ rec.met = s.met /\ rec.at = at
      /\ rec \in Starter
    BY <1>b, <1>g DEF Starter, Placing
<1>f. (n + 1) - 1 = n
    OBVIOUS
<1>5. /\ rec.at \in {"commit", "template"}
      /\ rec.at = "commit" => s.nr = Len(Ships[s.release])
      /\ rec.at = "template" => s.nr # Len(Ships[s.release])
    BY <1>4, <1>b, <1>c DEF Shipped
<1>6. Ordered(rec) /\ Apart(rec) /\ Surprised(rec)
    BY <1>1, <1>4, <1>5 DEF Good, Ordered, Early, Placing, Apart, Surprised, Adds
<1>7. Counted(rec)
    <2>1. \A nr \in 1..s.nr - 1 : Placed(s, nr) => Placed(rec, nr)
        BY <1>4 DEF Placed, Adds
    <2>2. \A nr \in 1..s.nr - 1 : Placed(s, nr)
        BY <1>1 DEF Good, Counted, Placing, Adds
    <2>3. Placed(rec, s.nr)
        BY <1>4 DEF Placed, Adds
    <2>4. \A nr \in 1..n : Placed(rec, nr)
        BY <2>1, <2>2, <2>3, <1>e
    <2>5. rec.nr - 1 = n /\ DOMAIN rec.rows \subseteq 1..n
        BY <1>4, <1>e, <1>f DEF Adds
    <2>6. PICK len \in Nat : len = Len(Ships[s.release])
        BY <1>3
    <2>7. /\ n <= len /\ n + 1 <= len + 1
          /\ rec.at = "commit" => n + 1 = len + 1
          /\ rec.at = "template" => n + 1 <= len
        BY <2>6, <1>3, <1>5, <1>e
    <2>8. DOMAIN rec.rows \cap DOMAIN shelf = {}
        BY <1>4 DEF Adds
    <2>9. rec.at \in {"commit", "template"} /\ rec.nr = n + 1 /\ len = Len(Ships[rec.release])
        BY <1>4, <2>6
    <2> QED BY <2>4, <2>5, <2>7, <2>8, <2>9 DEF Counted
<1>8. InLine(rec)
    BY <1>4 DEF InLine, Adds
<1>9. \A q \in Starters \ {p} : Separate(rec, starters[q])
    BY <1>1, <1>4, <1>5 DEF Separate, Begun, Adds
<1>10. starters' = [starters EXCEPT ![p] = rec]
    BY <1>0 DEF Proceed, Adds
<1> QED BY <1>4, <1>6, <1>7, <1>8, <1>9, <1>10, OwnStep DEF Good, NothingStored, Adds

LEMMA LookVersionKeeps ==
    ASSUME SeedInvariant, NEW p \in Starters, LookVersion(p)
    PROVE  SeedInvariant'
<1>0. PICK s \in Starter : s = starters[p]
    BY DEF SeedInvariant, SeedTyped
<1>1. Good(s) /\ \A q \in Starters \ {p} : Separate(s, starters[q])
    BY <1>0 DEF SeedInvariant
<1>2. /\ s.at = "version" /\ s.release \in Releases /\ s.nr \in Nat \ {0}
      /\ s.rows \in Shelves
    BY <1>0, <1>1, StarterFacts DEF LookVersion, Good, Ordered
<1>3. /\ DOMAIN s.rows \subseteq 1..s.nr - 1 /\ s.nr \in 1..Len(Ships[s.release])
      /\ DOMAIN s.rows \cap DOMAIN shelf = {}
    BY <1>1, <1>2, ShipsFacts DEF Good, Counted, Placing
<1>4. /\ DOMAIN Rows(p) = DOMAIN shelf \cup DOMAIN s.rows
      /\ s.nr \in DOMAIN shelf => Rows(p)[s.nr] = shelf[s.nr]
    BY <1>0 DEF Rows
<1>5. s.nr \notin DOMAIN s.rows
    BY <1>3, <1>2
<1>A. CASE s.nr \notin DOMAIN shelf
    <2>0. PICK rec : rec = [s EXCEPT !.at = "add version"]
        OBVIOUS
    <2>1. rec \in Starter
        BY <2>0 DEF Starter, Placing
    <2>2. /\ rec.at = "add version" /\ rec.release = s.release /\ rec.nr = s.nr
          /\ rec.orgs = s.orgs /\ rec.prompts = s.prompts /\ rec.template = s.template
          /\ rec.rows = s.rows /\ rec.met = s.met
        BY <2>0 DEF Starter
    <2>3. Ordered(rec) /\ Apart(rec) /\ Surprised(rec)
        BY <1>1, <2>2, <1>2, <1>5, <1>A DEF Good, Ordered, Early, Placing, Apart, Surprised
    <2>4. Counted(rec)
        <3>1. \A nr \in 1..s.nr - 1 : Placed(s, nr) => Placed(rec, nr)
            BY <2>2 DEF Placed
        <3> QED BY <1>1, <2>2, <1>2, <3>1 DEF Good, Counted, Placing
    <2>5. InLine(rec)
        BY <1>1, <2>2 DEF Good, InLine
    <2>6. \A q \in Starters \ {p} : Separate(rec, starters[q])
        BY <1>1, <2>2, <1>2 DEF Separate, Begun
    <2>7. starters' = [starters EXCEPT ![p] = rec]
        BY <1>0, <1>4, <1>5, <1>A, <2>0 DEF LookVersion, Proceed
    <2> QED BY <2>1, <2>3, <2>4, <2>5, <2>6, <2>7, OwnStep DEF Good, NothingStored, LookVersion
<1>B. CASE s.nr \in DOMAIN shelf /\ Unchanged(shelf[s.nr], Ships[s.release][s.nr])
    <2>1. PICK rows \in Shelves : rows = s.rows
        BY <1>2
    <2>2. [s EXCEPT !.rows = rows] = s
        BY <2>1 DEF Starter
    <2>3. Proceed(p, NextFile(p, [s EXCEPT !.rows = rows])) /\ NothingStored
        BY <1>0, <1>4, <1>B, <2>2 DEF LookVersion, Shipped
    <2>4. DOMAIN rows \subseteq 1..s.nr
        BY <2>1, <1>3, <1>2
    <2>5. builtin \/ s.template
        BY <1>1, <1>2 DEF Good, Ordered
    <2>6. \A q \in Starters \ {p} : DOMAIN rows \cap DOMAIN starters[q].rows = {}
        BY <1>1, <2>1 DEF Separate
    <2>7. cloned = {} => /\ \E k \in Nat : DOMAIN shelf \cup DOMAIN rows = 1..k
                         /\ \A nr \in DOMAIN rows : rows[nr].born = nr
        BY <1>1, <2>1 DEF Good, InLine
    <2>8. Adds(p, s, rows)
        BY <1>2, <1>3, <1>B, <2>1, <2>3, <2>4, <2>5, <2>6, <2>7 DEF Adds
    <2> QED BY <1>0, <2>8, NextFileKeeps
<1>C. CASE s.nr \in DOMAIN shelf /\ ~Unchanged(shelf[s.nr], Ships[s.release][s.nr])
    <2>1. Fails(p) /\ NothingStored
        BY <1>0, <1>4, <1>C DEF LookVersion, Shipped
    <2>2. shelf[s.nr] \in Row
        BY <1>C, ShelfFacts DEF SeedInvariant, SeedTyped
    <2>3. shelf[s.nr].status = "draft" => shelf[s.nr].print = "clone"
        BY <1>C DEF SeedInvariant, ShelfSound
    <2>4. shelf[s.nr].print # Ships[s.release][s.nr]
        BY <2>2, <2>3, <1>C, <1>2, <1>3, ShipsFacts DEF Unchanged, Row
    <2>5. Otherwise(starters[p], s.nr) /\ s.nr \in 1..Len(Ships[starters[p].release])
        BY <2>4, <1>0, <1>C, <1>3 DEF Otherwise
    <2> QED BY <2>1, <2>5, <1>0, <1>2, Failing DEF Begun
<1> QED BY <1>A, <1>B, <1>C

LEMMA InsertVersionKeeps ==
    ASSUME SeedInvariant, NEW p \in Starters, InsertVersion(p)
    PROVE  SeedInvariant'
<1>0. PICK s \in Starter : s = starters[p]
    BY DEF SeedInvariant, SeedTyped
<1>1. Good(s) /\ \A q \in Starters \ {p} : Separate(s, starters[q])
    BY <1>0 DEF SeedInvariant
<1>2. /\ s.at = "add version" /\ s.release \in Releases /\ s.nr \in Nat \ {0}
      /\ s.rows \in Shelves /\ shelf \in Shelves
    BY <1>0, <1>1, StarterFacts DEF InsertVersion, Good, Ordered, SeedInvariant, SeedTyped
<1>7. /\ DOMAIN s.rows \subseteq 1..s.nr - 1 /\ s.nr <= Len(Ships[s.release])
      /\ DOMAIN s.rows \cap DOMAIN shelf = {}
    BY <1>1, <1>2 DEF Good, Counted, Placing
<1>8. Len(Ships[s.release]) \in Nat
    BY <1>2, ShipsFacts
<1>6. /\ DOMAIN s.rows \subseteq 1..s.nr - 1 /\ s.nr \in 1..Len(Ships[s.release])
      /\ DOMAIN s.rows \cap DOMAIN shelf = {}
    <2>1. \A a \in Nat \ {0}, b \in Nat : a <= b => a \in 1..b
        OBVIOUS
    <2>2. s.nr \in 1..Len(Ships[s.release])
        BY <2>1, <1>2, <1>7, <1>8
    <2> QED BY <2>2, <1>7
<1>3. /\ DOMAIN s.rows \subseteq 1..s.nr - 1 /\ s.nr \in 1..Len(Ships[s.release])
      /\ DOMAIN s.rows \cap DOMAIN shelf = {} /\ s.nr \notin DOMAIN s.rows
      /\ s.nr \in DOMAIN shelf => s.met \/ Otherwise(s, s.nr)
    BY <1>1, <1>2, <1>6 DEF Good, Surprised
<1>4. DOMAIN Rows(p) = DOMAIN shelf \cup DOMAIN s.rows
    BY <1>0 DEF Rows
<1>5. NothingStored /\ \A q \in Starters \ {p} : s.nr \notin DOMAIN starters[q].rows
    BY <1>0 DEF InsertVersion, Inserts
<1>A. CASE s.nr \in DOMAIN shelf
    <2>1. Fails(p)
        BY <1>0, <1>A DEF InsertVersion, Inserts
    <2> QED BY <2>1, <1>0, <1>2, <1>3, <1>5, <1>A, Failing DEF Begun
<1>B. CASE s.nr \notin DOMAIN shelf
    <2>0. PICK row : row = [status |-> "published", print |-> Ships[s.release][s.nr],
                            born |-> 1 + Cardinality(DOMAIN Rows(p))]
        OBVIOUS
    <2>1. PICK rows : rows = [n \in DOMAIN s.rows \cup {s.nr} |->
                                IF n = s.nr THEN row ELSE s.rows[n]]
        OBVIOUS
    <2>2. Proceed(p, NextFile(p, [s EXCEPT !.rows = rows]))
        BY <1>0, <1>B, <2>0, <2>1 DEF InsertVersion, Inserts, Shipped
    <2>3. /\ DOMAIN s.rows \subseteq Nat \ {0} /\ IsFiniteSet(DOMAIN s.rows)
          /\ s.rows \in [DOMAIN s.rows -> Row] /\ IsFiniteSet(DOMAIN shelf)
        BY <1>2, ShelfFacts
    <2>4. Cardinality(DOMAIN Rows(p)) \in Nat
        <3>1. IsFiniteSet(DOMAIN Rows(p))
            BY <1>4, <2>3, FS_Union
        <3> QED BY <3>1, FS_CardinalityType
    <2>5. row \in Row
        <3>1. Ships[s.release][s.nr] \in Prints
            BY <1>2, <1>6, ShipsFacts
        <3>2. PICK k \in Nat : k = Cardinality(DOMAIN Rows(p))
            BY <2>4
        <3>3. 1 + k \in Nat
            OBVIOUS
        <3> QED BY <2>0, <3>1, <3>2, <3>3 DEF Row
    <2>6. /\ DOMAIN rows = DOMAIN s.rows \cup {s.nr} /\ rows[s.nr] = row
          /\ \A nr \in DOMAIN s.rows : rows[nr] = s.rows[nr]
        BY <2>1, <1>3
    <2>7. rows \in Shelves
        <3>1. rows \in [DOMAIN s.rows \cup {s.nr} -> Row]
            BY <2>1, <2>3, <2>5
        <3>2. IsFiniteSet(DOMAIN s.rows \cup {s.nr})
            BY <2>3, FS_AddElement
        <3> QED BY <3>1, <3>2, <2>3, <1>2, ShelfIn
    <2>8. DOMAIN rows \subseteq 1..s.nr
        <3>1. PICK n \in Nat \ {0} : n = s.nr
            BY <1>2
        <3>2. n \in 1..n /\ \A k \in 1..n - 1 : k \in 1..n
            OBVIOUS
        <3> QED BY <2>6, <1>3, <3>1, <3>2
    <2>9. builtin \/ s.template
        BY <1>1, <1>2 DEF Good, Ordered
    <2>10. \A q \in Starters \ {p} : DOMAIN rows \cap DOMAIN starters[q].rows = {}
        BY <1>1, <1>5, <2>6 DEF Separate
    <2>11. Unchanged(rows[s.nr], Ships[s.release][s.nr])
        BY <2>0, <2>6 DEF Unchanged
    <2>12. ASSUME cloned = {}
           PROVE  /\ \E k \in Nat : DOMAIN shelf \cup DOMAIN rows = 1..k
                  /\ \A nr \in DOMAIN rows : rows[nr].born = nr
        <3>1. PICK k \in Nat : DOMAIN shelf \cup DOMAIN s.rows = 1..k
            BY <1>1, <2>12 DEF Good, InLine
        <3>2. \A nr \in 1..s.nr - 1 : nr \in DOMAIN shelf \cup DOMAIN s.rows
            BY <1>1, <1>2 DEF Good, Counted, Placing, Placed
        <3>3. s.nr \notin 1..k /\ \A nr \in 1..s.nr - 1 : nr \in 1..k
            BY <3>1, <3>2, <1>3, <1>B
        <3>4. PICK n \in Nat \ {0} : n = s.nr
            BY <1>2
        <3>5. n \notin 1..k /\ \A nr \in 1..n - 1 : nr \in 1..k
            BY <3>3, <3>4
        <3>6. \A a \in Nat \ {0}, b \in Nat :
                 a \notin 1..b /\ (\A c \in 1..a - 1 : c \in 1..b) => a = b + 1
            <4> SUFFICES ASSUME NEW a \in Nat \ {0}, NEW b \in Nat, a \notin 1..b,
                                \A c \in 1..a - 1 : c \in 1..b
                         PROVE  a = b + 1
                OBVIOUS
            <4>1. a > b
                OBVIOUS
            <4>2. CASE a > b + 1
                <5>1. a - 1 \in 1..a - 1
                    BY <4>2
                <5> QED BY <5>1, <4>2
            <4> QED BY <4>1, <4>2
        <3>7. n = k + 1
            BY <3>5, <3>6
        <3>8. DOMAIN shelf \cup DOMAIN rows = 1..n
            <4>1. DOMAIN shelf \cup DOMAIN rows = (1..k) \cup {n}
                BY <3>1, <2>6, <3>4
            <4>2. (1..k) \cup {n} = 1..n
                BY <3>7
            <4> QED BY <4>1, <4>2
        <3>9. Cardinality(DOMAIN Rows(p)) = k
            <4>1. Cardinality(1..k) = k
                BY FS_Interval
            <4> QED BY <4>1, <3>1, <1>4
        <3>10. row.born = n
            BY <2>0, <3>9, <3>7
        <3>11. \A nr \in DOMAIN s.rows : s.rows[nr].born = nr
            BY <1>1, <2>12 DEF Good, InLine
        <3> QED BY <3>4, <3>8, <3>10, <3>11, <2>6
    <2>13. DOMAIN rows \cap DOMAIN shelf = {} /\ DOMAIN s.rows \subseteq DOMAIN rows
        BY <2>6, <1>3, <1>B
    <2>14. Adds(p, s, rows)
        BY <1>2, <1>5, <2>2, <2>6, <2>8, <2>9, <2>10, <2>11, <2>12, <2>13 DEF Adds
    <2> QED BY <1>0, <2>7, <2>14, NextFileKeeps
<1> QED BY <1>A, <1>B

LEMMA StopKeeps ==
    ASSUME SeedInvariant, NEW p \in Starters, Stop(p)
    PROVE  SeedInvariant'
<1>1. /\ Stopped.at = "down" /\ Stopped.nr = 1 /\ Stopped.orgs = 0 /\ Stopped.prompts = {}
      /\ Stopped.template = FALSE /\ DOMAIN Stopped.rows = {} /\ Stopped.met = FALSE
    BY EmptyShelf DEF Stopped
<1>2. Stopped \in Starter
    BY EmptyShelf DEF Stopped, Starter
<1>3. Ordered(Stopped) /\ Apart(Stopped)
    BY <1>1 DEF Ordered, Early, Placing, Apart
<1>4. Counted(Stopped) /\ Surprised(Stopped)
    BY <1>1 DEF Counted, Placing, Surprised
<1>5. InLine(Stopped)
    BY <1>1 DEF InLine, SeedInvariant, ShelfSound
<1>6. \A q \in Starters \ {p} : Separate(Stopped, starters[q])
    BY <1>1 DEF Separate, Begun
<1> QED BY <1>2, <1>3, <1>4, <1>5, <1>6, OwnStep DEF Good, Stop

\* What the steps that store do to a start that does not take them: what it
\* found stays as it is, and what it did not find is stored by a start it met.
Grows(s) ==
    /\ legacy => legacy'
    /\ registry # {} => registry' # {}
    /\ builtin => builtin'
    /\ owned \subseteq owned' /\ (crossed => crossed')
    /\ DOMAIN shelf \subseteq DOMAIN shelf'
    /\ \A nr \in DOMAIN shelf :
         /\ shelf'[nr].print = shelf[nr].print
         /\ shelf[nr].status \in {"published", "deprecated"}
              => shelf'[nr].status \in {"published", "deprecated"}
    /\ s.prompts # {} => registry' = registry
    /\ legacy' = legacy \/ s.at # "add organization" \/ s.met
    /\ registry' = registry \/ s.at # "add prompts" \/ s.met
    /\ builtin' = builtin \/ s.at # "add template" \/ s.met
    /\ \A nr \in DOMAIN shelf' \ DOMAIN shelf :
         /\ nr \notin DOMAIN s.rows
         /\ \/ s.met \/ s.at # "add version" \/ nr # s.nr
            \/ shelf'[nr].print # Ships[s.release][nr]
    /\ owned' # owned /\ (s.template \/ s.at = "add template") => crossed'

LEMMA Grown ==
    ASSUME NEW s \in Starter, Good(s), Grows(s), InLine(s)'
    PROVE  Good(s)'
<1>1. Ordered(s)'
    BY DEF Good, Ordered, Grows
<1>2. \A nr : Placed(s, nr) => Placed(s, nr)'
    BY DEF Placed, Unchanged, Grows
<1>3. Counted(s)'
    <2>1. DOMAIN s.rows \cap DOMAIN shelf' = {}
        BY DEF Good, Counted, Grows
    <2> QED BY <1>2, <2>1 DEF Good, Counted
<1>4. Surprised(s)'
    BY DEF Good, Surprised, Otherwise, Grows
<1>5. Apart(s)'
    BY DEF Good, Apart, Grows
<1> QED BY <1>1, <1>3, <1>4, <1>5 DEF Good

\* A step of p that stores something: everybody else's record stays, and what is
\* stored has grown.
LEMMA StoreStep ==
    ASSUME SeedInvariant, NEW p \in Starters, NEW rec \in Starter,
           starters' = [starters EXCEPT ![p] = rec], shelf' \in Shelves,
           legacy' \in BOOLEAN, builtin' \in BOOLEAN, crossed' \in BOOLEAN,
           ShelfSound', Good(rec)', \A q \in Starters \ {p} : Separate(rec, starters[q]),
           \A q \in Starters \ {p} : Grows(starters[q]),
           \A q \in Starters \ {p} : \A s : s = starters[q] => InLine(s)'
    PROVE  SeedInvariant'
<1>1. SeedTyped'
    BY DEF SeedInvariant, SeedTyped
<1>2. starters'[p] = rec /\ \A q \in Starters \ {p} : starters'[q] = starters[q]
    BY DEF SeedInvariant, SeedTyped
<1>5. ASSUME NEW q \in Starters PROVE Good(starters[q])'
    <2>1. CASE q = p
        BY <2>1, <1>2, GoodSame
    <2>2. CASE q # p
        <3>1. PICK s \in Starter : s = starters[q]
            BY DEF SeedInvariant, SeedTyped
        <3>2. Good(s) /\ Grows(s)
            BY <3>1, <2>2 DEF SeedInvariant
        <3>3. InLine(s)'
            BY <3>1, <2>2
        <3>4. Good(s)'
            BY <3>2, <3>3, Grown
        <3> QED BY <3>1, <3>4, <2>2, <1>2, GoodSame
    <2> QED BY <2>1, <2>2
<1>6. ASSUME NEW q \in Starters, NEW r \in Starters, q # r
      PROVE  Separate(starters[q], starters[r])'
    <2>1. Separate(starters'[q], starters'[r])
        <3>1. CASE q = p
            BY <3>1, <1>2, <1>6
        <3>2. CASE r = p
            <4>1. Separate(rec, starters[q])
                BY <3>2, <1>6
            <4> QED BY <4>1, <3>2, <1>2, <1>6 DEF Separate
        <3>3. CASE q # p /\ r # p
            BY <3>3, <1>2, <1>6 DEF SeedInvariant
        <3> QED BY <3>1, <3>2, <3>3
    <2> QED BY <2>1 DEF Separate, Begun
<1> QED BY <1>1, <1>5, <1>6 DEF SeedInvariant

LEMMA SameLine ==
    ASSUME NEW s, InLine(s), shelf' = shelf, cloned' = cloned
    PROVE  InLine(s)'
BY DEF InLine

LEMMA CommitOrganizationKeeps ==
    ASSUME SeedInvariant, NEW p \in Starters, CommitOrganization(p)
    PROVE  SeedInvariant'
<1>0. PICK s \in Starter : s = starters[p]
    BY DEF SeedInvariant, SeedTyped
<1>1. Good(s) /\ \A q \in Starters \ {p} : Separate(s, starters[q])
    BY <1>0 DEF SeedInvariant
<1>2. s.at = "add organization" /\ s.orgs = 1
    BY <1>0, <1>1 DEF CommitOrganization, Good, Ordered
<1>3. PICK rec : rec = [s EXCEPT !.at = "prompts", !.orgs = 0]
    OBVIOUS
<1>4. rec \in Starter
    BY <1>3 DEF Starter, Early
<1>5. /\ rec.at = "prompts" /\ rec.release = s.release /\ rec.nr = s.nr /\ rec.orgs = 0
      /\ rec.prompts = s.prompts /\ rec.template = s.template /\ rec.rows = s.rows
      /\ rec.met = s.met
    BY <1>3 DEF Starter
<1>6. /\ legacy' = TRUE
      /\ registry' = registry /\ builtin' = builtin /\ shelf' = shelf /\ owned' = owned
      /\ crossed' = crossed /\ cloned' = cloned
    BY DEF CommitOrganization
<1>7. Ordered(rec)' /\ Apart(rec)' /\ Surprised(rec)'
    <2>1. /\ ~s.template /\ DOMAIN s.rows = {} /\ s.prompts = {} /\ s.nr = 1
          /\ s.release \in Releases
        BY <1>1, <1>2 DEF Good, Ordered, Placing, Early
    <2>2. /\ legacy' /\ DOMAIN rec.rows = {} /\ ~rec.template /\ rec.orgs # 1 /\ rec.nr = 1
          /\ rec.prompts = {} /\ rec.release \in Releases
        BY <2>1, <1>5, <1>6
    <2>3. Ordered(rec)'
        BY <2>2, <1>5 DEF Ordered, Early, Placing
    <2>4. Apart(rec)' /\ Surprised(rec)'
        BY <2>2, <1>5 DEF Apart, Surprised
    <2> QED BY <2>3, <2>4
<1>8. Counted(rec)' /\ InLine(rec)'
    BY <1>1, <1>2, <1>5, <1>6 DEF Good, Counted, InLine, Placing
<1>9. \A q \in Starters \ {p} : Separate(rec, starters[q])
    BY <1>1, <1>2, <1>5 DEF Separate, Begun
<1>10. ASSUME NEW q \in Starters \ {p} PROVE Grows(starters[q])
    <2>1. starters[q].at = "add organization" => starters[q].met
        BY <1>1, <1>2 DEF Separate, Begun
    <2> QED BY <2>1, <1>6 DEF Grows
<1>11. ASSUME NEW q \in Starters \ {p}, NEW t, t = starters[q] PROVE InLine(t)'
    BY <1>11, <1>6, SameLine DEF SeedInvariant, Good
<1>12. ShelfSound'
    BY <1>6 DEF SeedInvariant, ShelfSound
<1>13. starters' = [starters EXCEPT ![p] = rec]
    BY <1>0, <1>3 DEF CommitOrganization, Proceed
<1>14. shelf' \in Shelves /\ legacy' \in BOOLEAN /\ builtin' \in BOOLEAN /\ crossed' \in BOOLEAN
    BY <1>6 DEF SeedInvariant, SeedTyped
<1> QED BY <1>4, <1>7, <1>8, <1>9, <1>10, <1>11, <1>12, <1>13, <1>14, StoreStep DEF Good

LEMMA CommitPromptsKeeps ==
    ASSUME SeedInvariant, NEW p \in Starters, CommitPrompts(p)
    PROVE  SeedInvariant'
<1>0. PICK s \in Starter : s = starters[p]
    BY DEF SeedInvariant, SeedTyped
<1>1. Good(s) /\ \A q \in Starters \ {p} : Separate(s, starters[q])
    BY <1>0 DEF SeedInvariant
<1>2. /\ s.at = "add prompts" /\ s.prompts = PromptsOf[s.release] /\ s.release \in Releases
      /\ s.prompts # {} /\ registry = {}
    BY <1>0, <1>1 DEF CommitPrompts, Good, Ordered
<1>3. PICK rec : rec = [s EXCEPT !.at = "template", !.prompts = {}]
    OBVIOUS
<1>4. rec \in Starter
    BY <1>3 DEF Starter, Placing
<1>5. /\ rec.at = "template" /\ rec.release = s.release /\ rec.nr = s.nr /\ rec.orgs = s.orgs
      /\ rec.prompts = {} /\ rec.template = s.template /\ rec.rows = s.rows
      /\ rec.met = s.met
    BY <1>3 DEF Starter
<1>6. /\ legacy' = legacy /\ registry' = PromptsOf[s.release]
      /\ builtin' = builtin /\ shelf' = shelf /\ owned' = owned
      /\ crossed' = crossed /\ cloned' = cloned
    BY <1>0, <1>2 DEF CommitPrompts
<1>7. Ordered(rec)' /\ Apart(rec)' /\ Surprised(rec)'
    <2>1. legacy /\ ~s.template /\ DOMAIN s.rows = {} /\ s.orgs # 1
        BY <1>1, <1>2 DEF Good, Ordered, Placing
    <2>2. legacy' /\ registry' # {} /\ DOMAIN rec.rows = {} /\ ~rec.template /\ rec.orgs # 1
        BY <2>1, <1>2, <1>5, <1>6
    <2>3. Ordered(rec)'
        BY <2>2, <1>2, <1>5 DEF Ordered, Early, Placing
    <2>4. Apart(rec)' /\ Surprised(rec)'
        BY <2>2, <1>5 DEF Apart, Surprised
    <2> QED BY <2>3, <2>4
<1>8. Counted(rec)'
    <2>1. s.nr = 1 /\ DOMAIN s.rows = {} /\ Len(Ships[s.release]) \in Nat \ {0}
        BY <1>1, <1>2, ShipsFacts DEF Good, Ordered, Early, Placing
    <2>2. rec.nr = 1 /\ DOMAIN rec.rows = {} /\ rec.release = s.release
        BY <2>1, <1>5
    <2>3. 1..rec.nr - 1 = {}
        BY <2>2
    <2>4. 1 <= Len(Ships[rec.release]) /\ 1 <= Len(Ships[rec.release]) + 1
        BY <2>1, <2>2
    <2> QED BY <2>2, <2>3, <2>4, <1>5 DEF Counted
<1>15. InLine(rec)'
    BY <1>1, <1>5, <1>6 DEF Good, InLine
<1>9. \A q \in Starters \ {p} : Separate(rec, starters[q])
    BY <1>1, <1>2, <1>5 DEF Separate, Begun
<1>10. ASSUME NEW q \in Starters \ {p} PROVE Grows(starters[q])
    <2>1. starters[q].prompts = {} /\ (starters[q].at = "add prompts" => starters[q].met)
        BY <1>1, <1>2 DEF Separate, Begun
    <2> QED BY <2>1, <1>2, <1>6 DEF Grows
<1>11. ASSUME NEW q \in Starters \ {p}, NEW t, t = starters[q] PROVE InLine(t)'
    BY <1>11, <1>6, SameLine DEF SeedInvariant, Good
<1>12. ShelfSound'
    BY <1>2, <1>6 DEF SeedInvariant, ShelfSound
<1>13. starters' = [starters EXCEPT ![p] = rec]
    BY <1>0, <1>3 DEF CommitPrompts, Proceed
<1>14. shelf' \in Shelves /\ legacy' \in BOOLEAN /\ builtin' \in BOOLEAN /\ crossed' \in BOOLEAN
    BY <1>6 DEF SeedInvariant, SeedTyped
<1> QED BY <1>4, <1>7, <1>8, <1>9, <1>10, <1>11, <1>12, <1>13, <1>14, <1>15, StoreStep DEF Good

\* Without clones one start at a time holds versions: the next in line.
LEMMA OneHolds ==
    ASSUME NEW s \in Starter, NEW t \in Starter, cloned = {}, ShelfSound, InLine(s), InLine(t),
           DOMAIN s.rows \cap DOMAIN shelf = {}, DOMAIN t.rows \cap DOMAIN shelf = {},
           DOMAIN s.rows \cap DOMAIN t.rows = {}
    PROVE  DOMAIN s.rows = {} \/ DOMAIN t.rows = {}
<1>1. PICK k \in Nat : DOMAIN shelf = 1..k
    BY DEF ShelfSound
<1>2. PICK a \in Nat : DOMAIN shelf \cup DOMAIN s.rows = 1..a
    BY DEF InLine
<1>3. PICK b \in Nat : DOMAIN shelf \cup DOMAIN t.rows = 1..b
    BY DEF InLine
<1>4. DOMAIN s.rows = (1..a) \ (1..k) /\ DOMAIN t.rows = (1..b) \ (1..k)
    BY <1>1, <1>2, <1>3
<1>5. \A c \in Nat : k < c => k + 1 \in (1..c) \ (1..k)
    OBVIOUS
<1>6. \A c \in Nat : ~(k < c) => (1..c) \ (1..k) = {}
    OBVIOUS
<1> QED BY <1>4, <1>5, <1>6

LEMMA CommitTemplatesKeeps ==
    ASSUME SeedInvariant, NEW p \in Starters, CommitTemplates(p)
    PROVE  SeedInvariant'
<1>0. PICK s \in Starter : s = starters[p]
    BY DEF SeedInvariant, SeedTyped
<1>1. Good(s) /\ \A q \in Starters \ {p} : Separate(s, starters[q])
    BY <1>0 DEF SeedInvariant
<1>2. /\ s.at = "commit" /\ s.release \in Releases /\ s.rows \in Shelves /\ shelf \in Shelves
      /\ s.template \in BOOLEAN /\ builtin \in BOOLEAN
    BY <1>0, <1>1, StarterFacts DEF CommitTemplates, Good, Ordered, SeedInvariant, SeedTyped
<1>3. PICK rec : rec = [s EXCEPT !.at = "serving", !.template = FALSE, !.rows = [n \in {} |-> 0]]
    OBVIOUS
<1>4. rec \in Starter
    BY <1>3, EmptyShelf DEF Starter
<1>5. /\ rec.at = "serving" /\ rec.release = s.release /\ rec.nr = s.nr /\ rec.orgs = s.orgs
      /\ rec.prompts = s.prompts /\ rec.template = FALSE /\ DOMAIN rec.rows = {}
      /\ rec.met = s.met
    BY <1>3, EmptyShelf DEF Starter
<1>6. /\ legacy' = legacy /\ registry' = registry /\ builtin' = (builtin \/ s.template)
      /\ shelf' = Rows(p) /\ owned' = owned /\ crossed' = crossed /\ cloned' = cloned
    BY <1>0 DEF CommitTemplates
<1>7. /\ DOMAIN shelf' = DOMAIN shelf \cup DOMAIN s.rows
      /\ \A nr \in DOMAIN shelf : shelf'[nr] = shelf[nr]
      /\ \A nr \in DOMAIN s.rows : shelf'[nr] = s.rows[nr]
      /\ DOMAIN s.rows \cap DOMAIN shelf = {}
    BY <1>0, <1>1, <1>6 DEF Rows, Good, Counted
<1>8. shelf' \in Shelves
    <2>1. /\ DOMAIN s.rows \subseteq Nat \ {0} /\ IsFiniteSet(DOMAIN s.rows)
          /\ s.rows \in [DOMAIN s.rows -> Row]
          /\ DOMAIN shelf \subseteq Nat \ {0} /\ IsFiniteSet(DOMAIN shelf)
          /\ shelf \in [DOMAIN shelf -> Row]
        BY <1>2, ShelfFacts
    <2>2. Rows(p) \in [DOMAIN shelf \cup DOMAIN s.rows -> Row]
        BY <2>1, <1>0 DEF Rows
    <2>3. IsFiniteSet(DOMAIN shelf \cup DOMAIN s.rows)
        BY <2>1, FS_Union
    <2> QED BY <2>1, <2>2, <2>3, <1>6, ShelfIn
<1>9. \A nr \in DOMAIN s.rows : s.rows[nr].status # "draft"
    <2>1. ASSUME NEW nr \in DOMAIN s.rows PROVE s.rows[nr].status # "draft"
        <3>1. nr \in 1..s.nr - 1 /\ nr \notin DOMAIN shelf
            BY <1>1, <1>2, <1>7 DEF Good, Counted, Placing
        <3>2. Placed(s, nr)
            BY <3>1, <1>1, <1>2 DEF Good, Counted, Placing
        <3> QED BY <3>1, <3>2 DEF Placed, Unchanged
    <2> QED BY <2>1
<1>10. ShelfSound'
    <2>1. builtin' /\ owned' # {} => crossed'
        BY <1>1, <1>6 DEF SeedInvariant, ShelfSound, Good, Apart
    <2>2. registry' \in {{}} \cup {PromptsOf[r] : r \in Releases}
        BY <1>6 DEF SeedInvariant, ShelfSound
    <2>3. \A nr \in DOMAIN shelf' : shelf'[nr].status = "draft" => shelf'[nr].print = "clone"
        BY <1>7, <1>9 DEF SeedInvariant, ShelfSound
    <2>4. ASSUME cloned' = {}
          PROVE  /\ \E k \in Nat : DOMAIN shelf' = 1..k
                 /\ \A nr \in DOMAIN shelf' : shelf'[nr].born = nr
        BY <2>4, <1>1, <1>6, <1>7 DEF Good, InLine, SeedInvariant, ShelfSound
    <2> QED BY <2>1, <2>2, <2>3, <2>4 DEF ShelfSound
<1>11. Ordered(rec)' /\ Apart(rec)' /\ Surprised(rec)'
    <2>1. legacy /\ registry # {} /\ (builtin \/ s.template) /\ s.orgs # 1 /\ s.prompts = {}
        BY <1>1, <1>2 DEF Good, Ordered, Placing
    <2>2. /\ legacy' /\ registry' # {} /\ builtin' /\ rec.orgs # 1 /\ rec.prompts = {}
          /\ rec.release \in Releases
        BY <2>1, <1>2, <1>5, <1>6
    <2>3. Ordered(rec)'
        BY <2>2, <1>5 DEF Ordered, Early, Placing
    <2>4. Apart(rec)' /\ Surprised(rec)'
        BY <1>5 DEF Apart, Surprised
    <2> QED BY <2>3, <2>4
<1>12. Counted(rec)'
    <2>1. \A nr : Placed(s, nr) => Placed(rec, nr)'
        BY <1>5, <1>7 DEF Placed
    <2>2. PICK len \in Nat : len = Len(Ships[s.release])
        BY <1>2, ShipsFacts
    <2>3. s.nr = len + 1 /\ \A nr \in 1..s.nr - 1 : Placed(s, nr)
        BY <1>1, <1>2, <2>2 DEF Good, Counted, Placing
    <2>4. (len + 1) - 1 = len
        OBVIOUS
    <2>5. \A nr \in 1..len : Placed(rec, nr)'
        BY <2>1, <2>3, <2>4
    <2> QED BY <2>2, <2>5, <1>5 DEF Counted, Placing
<1>13. InLine(rec)'
    BY <1>10, <1>5 DEF InLine, ShelfSound
<1>14. \A q \in Starters \ {p} : Separate(rec, starters[q])
    BY <1>1, <1>5 DEF Separate, Begun, Good, Ordered
<1>15. ASSUME NEW q \in Starters \ {p} PROVE Grows(starters[q])
    <2>1. Begun(starters[q]) => starters[q].met
        BY <1>1, <1>2 DEF Separate, Begun
    <2>2. DOMAIN s.rows \cap DOMAIN starters[q].rows = {}
        BY <1>1 DEF Separate
    <2>3. starters[q].at \in {"add template", "add version"} => starters[q].met
        BY <2>1 DEF Begun
    <2> QED BY <2>2, <2>3, <1>6, <1>7 DEF Grows
<1>16. ASSUME NEW q \in Starters \ {p}, NEW t, t = starters[q] PROVE InLine(t)'
    <2>1. t \in Starter /\ Good(t) /\ Separate(s, t)
        BY <1>16, <1>1 DEF SeedInvariant, SeedTyped
    <2>2. CASE cloned = {}
        <3>1. DOMAIN s.rows = {} \/ DOMAIN t.rows = {}
            BY <2>1, <2>2, <1>1, OneHolds DEF SeedInvariant, Good, Counted, Separate
        <3>2. CASE DOMAIN s.rows = {}
            BY <3>2, <2>1, <1>6, <1>7 DEF Good, InLine
        <3>3. CASE DOMAIN t.rows = {}
            BY <3>3, <1>10 DEF InLine, ShelfSound
        <3> QED BY <3>1, <3>2, <3>3
    <2>3. CASE cloned # {}
        BY <2>3, <1>6 DEF InLine
    <2> QED BY <2>2, <2>3
<1>17. starters' = [starters EXCEPT ![p] = rec]
    BY <1>0, <1>3 DEF CommitTemplates, Proceed
<1>18. legacy' \in BOOLEAN /\ builtin' \in BOOLEAN /\ crossed' \in BOOLEAN
    BY <1>2, <1>6 DEF SeedInvariant, SeedTyped
<1> QED BY <1>4, <1>8, <1>10, <1>11, <1>12, <1>13, <1>14, <1>15, <1>16, <1>17, <1>18, StoreStep
    DEF Good

\* To have met somebody is all that a start learns from another's beginning.
LEMMA MetStaysGood ==
    ASSUME NEW s \in Starter, Good(s), NEW t, t.at = s.at, t.release = s.release, t.nr = s.nr,
           t.orgs = s.orgs, t.prompts = s.prompts, t.template = s.template, t.rows = s.rows,
           s.met => t.met
    PROVE  Good(t)
<1>1. Ordered(t) /\ Apart(t) /\ InLine(t)
    BY DEF Good, Ordered, Apart, InLine
<1>2. \A nr : Placed(s, nr) => Placed(t, nr)
    BY DEF Placed
<1>3. Counted(t)
    BY <1>2 DEF Good, Counted
<1>4. Surprised(t)
    BY DEF Good, Surprised, Otherwise
<1> QED BY <1>1, <1>3, <1>4 DEF Good

LEMMA ReleaseStartKeeps ==
    ASSUME SeedInvariant, NEW p \in Starters, NEW r \in Releases, Start(p, r)
    PROVE  SeedInvariant'
<1>1. /\ legacy' = legacy /\ registry' = registry /\ builtin' = builtin /\ shelf' = shelf
      /\ owned' = owned /\ crossed' = crossed /\ cloned' = cloned
    BY DEF Start
<1>2. PICK met \in BOOLEAN : met = \E o \in Starters : Starting(o)
    OBVIOUS
<1>3. PICK rec : rec = [Stopped EXCEPT !.at = "organization", !.release = r, !.met = met]
    OBVIOUS
<1>4. rec \in Starter
    <2>1. Stopped \in Starter
        BY EmptyShelf DEF Stopped, Starter
    <2> QED BY <2>1, <1>3 DEF Starter, Early
<1>5. /\ rec.at = "organization" /\ rec.release = r /\ rec.nr = 1 /\ rec.orgs = 0
      /\ rec.prompts = {} /\ rec.template = FALSE /\ DOMAIN rec.rows = {} /\ rec.met = met
    BY <1>3, EmptyShelf DEF Stopped
<1>6. /\ starters' \in [Starters -> Starter] /\ starters'[p] = rec
      /\ \A q \in Starters \ {p} :
            starters'[q] = [starters[q] EXCEPT !.met = @ \/ Starting(q)]
    <2>1. starters' = [q \in Starters |->
              IF q = p THEN rec ELSE [starters[q] EXCEPT !.met = @ \/ Starting(q)]]
        BY <1>2, <1>3 DEF Start
    <2>2. \A q \in Starters : starters[q] \in Starter
        BY DEF SeedInvariant, SeedTyped
    <2>3. ASSUME NEW q \in Starters
          PROVE  [starters[q] EXCEPT !.met = @ \/ Starting(q)] \in Starter
        <3>1. PICK s \in Starter : s = starters[q]
            BY <2>2
        <3>2. (s.met \/ Starting(q)) \in BOOLEAN
            OBVIOUS
        <3>3. [s EXCEPT !.met = s.met \/ Starting(q)] \in Starter
            BY <3>2 DEF Starter
        <3> QED BY <3>1, <3>3
    <2> QED BY <2>1, <2>3, <1>4
<1>7. ASSUME NEW q \in Starters \ {p}, NEW s \in Starter, s = starters[q], NEW t, t = starters'[q]
      PROVE  /\ t.at = s.at /\ t.release = s.release /\ t.nr = s.nr
             /\ t.orgs = s.orgs /\ t.prompts = s.prompts /\ t.template = s.template
             /\ t.rows = s.rows /\ (t.met <=> s.met \/ Begun(s))
    <2>1. t = [s EXCEPT !.met = s.met \/ Starting(q)]
        BY <1>6, <1>7
    <2>2. Starting(q) <=> Begun(s)
        BY <1>7 DEF Starting, Begun
    <2> QED BY <2>1, <2>2 DEF Starter
<1>8. SeedTyped'
    BY <1>1, <1>6 DEF SeedInvariant, SeedTyped
<1>9. ShelfSound'
    BY <1>1 DEF SeedInvariant, ShelfSound
<1>10. ASSUME NEW s, Good(s) PROVE Good(s)'
    BY <1>10, <1>1 DEF Good, Ordered, Counted, Placed, Surprised, Otherwise, Apart, InLine
<1>11. Good(rec)
    <2>1. Ordered(rec) /\ Apart(rec) /\ Surprised(rec)
        BY <1>5 DEF Ordered, Early, Placing, Apart, Surprised
    <2>2. Counted(rec)
        BY <1>5 DEF Counted, Placing
    <2>3. InLine(rec)
        BY <1>5 DEF InLine, SeedInvariant, ShelfSound
    <2> QED BY <2>1, <2>2, <2>3 DEF Good
<1>12. ASSUME NEW q \in Starters PROVE Good(starters[q])'
    <2>1. PICK t : t = starters'[q]
        OBVIOUS
    <2>2. Good(t)
        <3>1. CASE q = p
            BY <3>1, <2>1, <1>6, <1>11
        <3>2. CASE q # p
            <4>1. PICK s \in Starter : s = starters[q]
                BY DEF SeedInvariant, SeedTyped
            <4>2. Good(s)
                BY <4>1 DEF SeedInvariant
            <4> QED BY <4>1, <4>2, <2>1, <3>2, <1>7, MetStaysGood
        <3> QED BY <3>1, <3>2
    <2>3. Good(t)'
        BY <2>2, <1>10
    <2> QED BY <2>1, <2>3, GoodSame
<1>13. ASSUME NEW q \in Starters \ {p} PROVE Separate(rec, starters'[q])
    <2>1. PICK s \in Starter : s = starters[q]
        BY DEF SeedInvariant, SeedTyped
    <2>2. Begun(s) => met
        BY <2>1, <1>2 DEF Begun, Starting
    <2>3. PICK t : t = starters'[q]
        OBVIOUS
    <2>4. t.at = s.at /\ (t.met <=> s.met \/ Begun(s))
        BY <2>1, <2>3, <1>7
    <2>5. Begun(t) => Begun(s)
        BY <2>4 DEF Begun
    <2>6. Separate(rec, t)
        BY <2>2, <2>4, <2>5, <1>5 DEF Separate
    <2> QED BY <2>3, <2>6
<1>14. ASSUME NEW q \in Starters \ {p}, NEW o \in Starters \ {p}, q # o
       PROVE  Separate(starters'[q], starters'[o])
    <2>1. PICK s \in Starter : s = starters[q]
        BY DEF SeedInvariant, SeedTyped
    <2>2. PICK u \in Starter : u = starters[o]
        BY DEF SeedInvariant, SeedTyped
    <2>3. Separate(s, u)
        BY <2>1, <2>2, <1>14 DEF SeedInvariant
    <2>4. PICK t : t = starters'[q]
        OBVIOUS
    <2>5. PICK v : v = starters'[o]
        OBVIOUS
    <2>6. t.at = s.at /\ t.prompts = s.prompts /\ t.rows = s.rows /\ (s.met => t.met)
        BY <2>1, <2>4, <1>7
    <2>7. v.at = u.at /\ v.prompts = u.prompts /\ v.rows = u.rows /\ (u.met => v.met)
        BY <2>2, <2>5, <1>7
    <2>8. Separate(t, v)
        BY <2>3, <2>6, <2>7 DEF Separate, Begun
    <2> QED BY <2>4, <2>5, <2>8
<1>15. ASSUME NEW q \in Starters, NEW o \in Starters, q # o
       PROVE  Separate(starters[q], starters[o])'
    <2>1. Separate(starters'[q], starters'[o])
        <3>1. CASE q = p
            BY <3>1, <1>6, <1>13, <1>15
        <3>2. CASE o = p
            <4>1. Separate(rec, starters'[q])
                BY <3>2, <1>13, <1>15
            <4> QED BY <4>1, <3>2, <1>6 DEF Separate
        <3>3. CASE q # p /\ o # p
            BY <3>3, <1>14, <1>15
        <3> QED BY <3>1, <3>2, <3>3
    <2> QED BY <2>1 DEF Separate, Begun
<1> QED BY <1>8, <1>9, <1>12, <1>15 DEF SeedInvariant

\* A step of an organization, which changes no start.
LEMMA OtherStep ==
    ASSUME SeedInvariant, starters' = starters, shelf' \in Shelves,
           legacy' \in BOOLEAN, builtin' \in BOOLEAN, crossed' \in BOOLEAN, ShelfSound',
           \A q \in Starters : Grows(starters[q]),
           \A q \in Starters : \A s : s = starters[q] => InLine(s)'
    PROVE  SeedInvariant'
<1>1. SeedTyped'
    BY DEF SeedInvariant, SeedTyped
<1>2. ASSUME NEW q \in Starters PROVE Good(starters[q])'
    <2>1. PICK s \in Starter : s = starters[q]
        BY DEF SeedInvariant, SeedTyped
    <2>2. Good(s) /\ Grows(s)
        BY <2>1 DEF SeedInvariant
    <2>3. InLine(s)'
        BY <2>1
    <2>4. Good(s)'
        BY <2>2, <2>3, Grown
    <2> QED BY <2>1, <2>4, GoodSame
<1>3. ASSUME NEW q \in Starters, NEW o \in Starters, q # o
      PROVE  Separate(starters[q], starters[o])'
    BY <1>3 DEF SeedInvariant, Separate, Begun
<1> QED BY <1>1, <1>2, <1>3 DEF SeedInvariant

LEMMA WriteTemplateKeeps ==
    ASSUME SeedInvariant, NEW o \in Writers, WriteTemplate(o)
    PROVE  SeedInvariant'
<1>1. /\ legacy' = legacy /\ registry' = registry /\ builtin' = builtin /\ shelf' = shelf
      /\ starters' = starters /\ cloned' = cloned
    BY DEF WriteTemplate
<1>2. /\ owned \subseteq owned' /\ crossed' \in BOOLEAN
      /\ crossed => crossed'
      /\ builtin => crossed'
      /\ \A p \in Starters : starters[p].template \/ starters[p].at = "add template" => crossed'
    BY DEF WriteTemplate
<1>3. ShelfSound'
    BY <1>1, <1>2 DEF SeedInvariant, ShelfSound
<1>4. ASSUME NEW q \in Starters PROVE Grows(starters[q])
    BY <1>1, <1>2 DEF Grows
<1>5. ASSUME NEW q \in Starters, NEW s, s = starters[q] PROVE InLine(s)'
    BY <1>5, <1>1, SameLine DEF SeedInvariant, Good
<1>6. shelf' \in Shelves /\ legacy' \in BOOLEAN /\ builtin' \in BOOLEAN
    BY <1>1 DEF SeedInvariant, SeedTyped
<1> QED BY <1>1, <1>2, <1>3, <1>4, <1>5, <1>6, OtherStep

LEMMA CloneVersionKeeps ==
    ASSUME SeedInvariant, NEW nr \in Nat \ {0}, CloneVersion(nr)
    PROVE  SeedInvariant'
<1>1. /\ legacy' = legacy /\ registry' = registry /\ builtin' = builtin /\ owned' = owned
      /\ starters' = starters /\ crossed' = crossed /\ cloned' # {}
      /\ nr \notin DOMAIN shelf
      /\ \A p \in Starters : nr \notin DOMAIN starters[p].rows
    BY DEF CloneVersion
<1>2. PICK row : row = [status |-> "draft", print |-> "clone",
                        born |-> 1 + Cardinality(DOMAIN shelf)]
    OBVIOUS
<1>3. shelf' = [n \in DOMAIN shelf \cup {nr} |-> IF n = nr THEN row ELSE shelf[n]]
    BY <1>2 DEF CloneVersion
<1>4. /\ DOMAIN shelf \subseteq Nat \ {0} /\ IsFiniteSet(DOMAIN shelf)
      /\ shelf \in [DOMAIN shelf -> Row]
    BY ShelfFacts DEF SeedInvariant, SeedTyped
<1>5. row \in Row
    <2>1. PICK k \in Nat : k = Cardinality(DOMAIN shelf)
        BY <1>4, FS_CardinalityType
    <2>2. 1 + k \in Nat
        OBVIOUS
    <2> QED BY <1>2, <2>1, <2>2 DEF Row
<1>6. shelf' \in Shelves
    <2>1. shelf' \in [DOMAIN shelf \cup {nr} -> Row]
        BY <1>3, <1>4, <1>5
    <2>2. IsFiniteSet(DOMAIN shelf \cup {nr})
        BY <1>4, FS_AddElement
    <2> QED BY <2>1, <2>2, <1>4, ShelfIn
<1>7. /\ DOMAIN shelf' = DOMAIN shelf \cup {nr} /\ shelf'[nr].print = "clone"
      /\ \A n \in DOMAIN shelf : shelf'[n] = shelf[n]
    BY <1>1, <1>2, <1>3
<1>8. ShelfSound'
    BY <1>1, <1>7 DEF SeedInvariant, ShelfSound
<1>9. ASSUME NEW q \in Starters PROVE Grows(starters[q])
    <2>1. PICK s \in Starter : s = starters[q]
        BY DEF SeedInvariant, SeedTyped
    <2>2. s.at = "add version" /\ nr = s.nr => Ships[s.release][nr] # "clone"
        <3>1. SUFFICES ASSUME s.at = "add version", nr = s.nr PROVE Ships[s.release][nr] # "clone"
            OBVIOUS
        <3>2. s.release \in Releases /\ s.nr <= Len(Ships[s.release])
            BY <2>1, <3>1 DEF SeedInvariant, Good, Ordered, Counted, Placing
        <3>3. PICK len \in Nat : len = Len(Ships[s.release])
            BY <3>2, ShipsFacts
        <3>5. nr <= len
            BY <3>1, <3>2, <3>3
        <3>6. \A a \in Nat \ {0}, b \in Nat : a <= b => a \in 1..b
            OBVIOUS
        <3>4. nr \in 1..len
            BY <3>5, <3>6
        <3> QED BY <3>2, <3>3, <3>4, ShipsFacts
    <2>3. Grows(s)
        BY <2>1, <2>2, <1>1, <1>7 DEF Grows
    <2> QED BY <2>1, <2>3
<1>10. ASSUME NEW q \in Starters, NEW s, s = starters[q] PROVE InLine(s)'
    BY <1>1 DEF InLine
<1>11. legacy' \in BOOLEAN /\ builtin' \in BOOLEAN /\ crossed' \in BOOLEAN
    BY <1>1 DEF SeedInvariant, SeedTyped
<1> QED BY <1>1, <1>6, <1>8, <1>9, <1>10, <1>11, OtherStep

LEMMA TransitionKeeps ==
    ASSUME SeedInvariant, NEW nr \in Nat, Transition(nr)
    PROVE  SeedInvariant'
<1>1. /\ legacy' = legacy /\ registry' = registry /\ builtin' = builtin /\ owned' = owned
      /\ starters' = starters /\ crossed' = crossed /\ cloned' = cloned
      /\ nr \in DOMAIN shelf
    BY DEF Transition
<1>2. PICK status \in {"published", "deprecated"} : shelf' = [shelf EXCEPT ![nr].status = status]
    BY DEF Transition
<1>3. PICK row : row = [shelf[nr] EXCEPT !.status = status]
    OBVIOUS
<1>4. /\ DOMAIN shelf \subseteq Nat \ {0} /\ IsFiniteSet(DOMAIN shelf)
      /\ shelf \in [DOMAIN shelf -> Row]
    BY ShelfFacts DEF SeedInvariant, SeedTyped
<1>5. /\ row \in Row /\ row.status = status /\ row.print = shelf[nr].print
      /\ row.born = shelf[nr].born
    BY <1>1, <1>3, <1>4 DEF Row
<1>6. shelf' = [shelf EXCEPT ![nr] = row]
    BY <1>2, <1>3
<1>7. /\ DOMAIN shelf' = DOMAIN shelf /\ shelf'[nr] = row
      /\ \A n \in DOMAIN shelf \ {nr} : shelf'[n] = shelf[n]
      /\ shelf' \in [DOMAIN shelf -> Row]
    BY <1>1, <1>4, <1>5, <1>6
<1>8. shelf' \in Shelves
    BY <1>4, <1>7, ShelfIn
<1>9. /\ \A n \in DOMAIN shelf : shelf'[n].print = shelf[n].print /\ shelf'[n].born = shelf[n].born
      /\ \A n \in DOMAIN shelf : shelf'[n].status = shelf[n].status \/ n = nr
    BY <1>5, <1>7
<1>10. ShelfSound'
    BY <1>1, <1>5, <1>7, <1>9 DEF SeedInvariant, ShelfSound
<1>11. ASSUME NEW q \in Starters PROVE Grows(starters[q])
    BY <1>1, <1>5, <1>7, <1>9 DEF Grows
<1>12. ASSUME NEW q \in Starters, NEW s, s = starters[q] PROVE InLine(s)'
    BY <1>12, <1>1, <1>7 DEF SeedInvariant, Good, InLine
<1>13. legacy' \in BOOLEAN /\ builtin' \in BOOLEAN /\ crossed' \in BOOLEAN
    BY <1>1 DEF SeedInvariant, SeedTyped
<1> QED BY <1>1, <1>8, <1>10, <1>11, <1>12, <1>13, OtherStep

LEMMA SeedBegins == InitSeeding => SeedInvariant
<1> SUFFICES ASSUME InitSeeding PROVE SeedInvariant
    OBVIOUS
<1>1. /\ Stopped.at = "down" /\ Stopped.nr = 1 /\ Stopped.orgs = 0 /\ Stopped.prompts = {}
      /\ Stopped.template = FALSE /\ DOMAIN Stopped.rows = {} /\ Stopped.met = FALSE
    BY EmptyShelf DEF Stopped
<1>2. Stopped \in Starter
    BY EmptyShelf DEF Stopped, Starter
<1>3. DOMAIN shelf = {} /\ shelf \in Shelves
    BY EmptyShelf DEF InitSeeding
<1>4. 1..0 = {} /\ 0 \in Nat
    OBVIOUS
<1>5. ShelfSound
    BY <1>3, <1>4 DEF ShelfSound, InitSeeding
<1>6. Ordered(Stopped) /\ Apart(Stopped) /\ Counted(Stopped) /\ Surprised(Stopped)
    BY <1>1 DEF Ordered, Early, Placing, Apart, Counted, Surprised
<1>7. InLine(Stopped)
    BY <1>1, <1>5 DEF InLine, ShelfSound
<1>8. \A p \in Starters : starters[p] = Stopped
    BY DEF InitSeeding
<1>9. Separate(Stopped, Stopped)
    BY <1>1 DEF Separate, Begun
<1>10. SeedTyped
    BY <1>2, <1>3 DEF SeedTyped, InitSeeding
<1> QED BY <1>5, <1>6, <1>7, <1>8, <1>9, <1>10 DEF SeedInvariant, Good

LEMMA SeedStutters ==
    ASSUME SeedInvariant, UNCHANGED seedVars
    PROVE  SeedInvariant'
<1>1. /\ legacy' = legacy /\ registry' = registry /\ builtin' = builtin /\ shelf' = shelf
      /\ owned' = owned /\ crossed' = crossed /\ cloned' = cloned /\ starters' = starters
    BY DEF seedVars
<1>2. ShelfSound'
    BY <1>1 DEF SeedInvariant, ShelfSound
<1>3. ASSUME NEW q \in Starters PROVE Grows(starters[q])
    BY <1>1 DEF Grows
<1>4. ASSUME NEW q \in Starters, NEW s, s = starters[q] PROVE InLine(s)'
    BY <1>4, <1>1, SameLine DEF SeedInvariant, Good
<1>5. shelf' \in Shelves /\ legacy' \in BOOLEAN /\ builtin' \in BOOLEAN /\ crossed' \in BOOLEAN
    BY <1>1 DEF SeedInvariant, SeedTyped
<1> QED BY <1>1, <1>2, <1>3, <1>4, <1>5, OtherStep

LEMMA SeedSteps ==
    ASSUME SeedInvariant, [NextSeeding]_seedVars
    PROVE  SeedInvariant'
<1>1. CASE UNCHANGED seedVars
    BY <1>1, SeedStutters
<1>2. ASSUME NEW p \in Starters, NEW r \in Releases, Start(p, r) PROVE SeedInvariant'
    BY <1>2, ReleaseStartKeeps
<1>3. ASSUME NEW p \in Starters, Stop(p) \/ LookOrganization(p) \/ InsertOrganization(p)
                                   \/ CommitOrganization(p)
      PROVE  SeedInvariant'
    BY <1>3, StopKeeps, LookOrganizationKeeps, InsertOrganizationKeeps, CommitOrganizationKeeps
<1>4. ASSUME NEW p \in Starters, LookPrompts(p) \/ InsertPrompts(p) \/ CommitPrompts(p)
      PROVE  SeedInvariant'
    BY <1>4, LookPromptsKeeps, InsertPromptsKeeps, CommitPromptsKeeps
<1>5. ASSUME NEW p \in Starters, LookTemplate(p) \/ InsertTemplate(p) \/ LookVersion(p)
                                   \/ InsertVersion(p) \/ CommitTemplates(p)
      PROVE  SeedInvariant'
    BY <1>5, LookTemplateKeeps, InsertTemplateKeeps, LookVersionKeeps, InsertVersionKeeps,
       CommitTemplatesKeeps
<1>6. ASSUME NEW o \in Writers, AskTemplate(o) PROVE SeedInvariant'
    <2>1. /\ legacy' = legacy /\ registry' = registry /\ builtin' = builtin /\ shelf' = shelf
          /\ owned' = owned /\ crossed' = crossed /\ cloned' = cloned /\ starters' = starters
        BY <1>6 DEF AskTemplate
    <2>2. ShelfSound'
        BY <2>1 DEF SeedInvariant, ShelfSound
    <2>3. ASSUME NEW q \in Starters PROVE Grows(starters[q])
        BY <2>1 DEF Grows
    <2>4. ASSUME NEW q \in Starters, NEW s, s = starters[q] PROVE InLine(s)'
        BY <2>4, <2>1, SameLine DEF SeedInvariant, Good
    <2>5. shelf' \in Shelves /\ legacy' \in BOOLEAN /\ builtin' \in BOOLEAN /\ crossed' \in BOOLEAN
        BY <2>1 DEF SeedInvariant, SeedTyped
    <2> QED BY <2>1, <2>2, <2>3, <2>4, <2>5, OtherStep
<1>7. ASSUME NEW o \in Writers, WriteTemplate(o) PROVE SeedInvariant'
    BY <1>7, WriteTemplateKeeps
<1>8. ASSUME NEW nr \in Nrs, CloneVersion(nr) \/ Transition(nr) PROVE SeedInvariant'
    <2>1. \A k : \A n \in 1..k : n \in Nat \ {0}
        OBVIOUS
    <2>2. nr \in Nat \ {0}
        BY <2>1 DEF Nrs
    <2> QED BY <1>8, <2>2, CloneVersionKeeps, TransitionKeeps
<1> QED BY <1>1, <1>2, <1>3, <1>4, <1>5, <1>6, <1>7, <1>8 DEF NextSeeding

LEMMA SeedSoundByInvariant == SeedInvariant => SeedingSound
<1> SUFFICES ASSUME SeedInvariant PROVE SeedingSound
    OBVIOUS
<1>1. SeededWhole
    <2> SUFFICES ASSUME NEW p \in Starters, starters[p].at = "serving"
                 PROVE  legacy /\ registry # {} /\ builtin /\ Issues(Shipped(p)) = {}
        BY DEF SeededWhole
    <2>1. PICK s \in Starter : s = starters[p]
        BY DEF SeedInvariant, SeedTyped
    <2>2. Good(s) /\ s.at = "serving"
        BY <2>1 DEF SeedInvariant
    <2>3. /\ legacy /\ registry # {} /\ builtin /\ s.release \in Releases
          /\ DOMAIN s.rows = {}
          /\ \A nr \in 1..Len(Ships[s.release]) : Placed(s, nr)
        BY <2>2 DEF Good, Ordered, Counted, Placing
    <2>4. DOMAIN Ships[s.release] = 1..Len(Ships[s.release])
        BY <2>3, ShipsFacts
    <2>5. Issues(Ships[s.release]) = {}
        BY <2>3, <2>4 DEF Issues, Placed, Unchanged
    <2> QED BY <2>1, <2>3, <2>5 DEF Shipped
<1>2. OneRegistry /\ SlugsApart
    BY DEF SeedInvariant, ShelfSound, OneRegistry, SlugsApart
<1>3. FailsDuly
    <2> SUFFICES ASSUME NEW p \in Starters, starters[p].at = "failed"
                 PROVE  \/ owned # {}
                        \/ \E nr \in DOMAIN Shipped(p) \cap DOMAIN shelf :
                              shelf[nr].print # Shipped(p)[nr]
                        \/ starters[p].met
        BY DEF FailsDuly
    <2>1. PICK s \in Starter : s = starters[p]
        BY DEF SeedInvariant, SeedTyped
    <2>2. /\ s.release \in Releases
          /\ owned # {} \/ s.met \/ \E nr \in 1..Len(Ships[s.release]) : Otherwise(s, nr)
        BY <2>1 DEF SeedInvariant, Good, Ordered, Surprised
    <2>3. DOMAIN Ships[s.release] = 1..Len(Ships[s.release])
        BY <2>2, ShipsFacts
    <2> QED BY <2>1, <2>2, <2>3 DEF Otherwise, Shipped
<1>4. NewestOffered
    BY DEF SeedInvariant, ShelfSound, NewestOffered, Offered
<1> QED BY <1>1, <1>2, <1>3, <1>4 DEF SeedingSound

\* What every start of every release stores, alone or beside others, is whole,
\* stored once and as it was shipped, whatever is lost on the way
\* (templates.py:468-565, models.py:362-394).
THEOREM SeedingIsSound == SeedingSpec => []SeedingSound
<1>1. InitSeeding => SeedInvariant
    BY SeedBegins
<1>2. SeedInvariant /\ [NextSeeding]_seedVars => SeedInvariant'
    BY SeedSteps
<1>3. SeedInvariant => SeedingSound
    BY SeedSoundByInvariant
<1> QED BY <1>1, <1>2, <1>3, PTL DEF SeedingSpec
=============================================================================
