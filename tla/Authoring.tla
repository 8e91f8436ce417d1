----------------------------- MODULE Authoring -----------------------------
(***************************************************************************)
(* How a project's material becomes what examinations run on: versions of  *)
(* a prompt are added and activated, datasets and blueprints are generated *)
(* by model calls and numbered, pages are analyzed one by one, datasets    *)
(* are frozen and benchmarked, and sessions are created on a blueprint     *)
(* whose knowledge graph the first of them builds.                         *)
(*                                                                         *)
(* Generation runs in a request or in a job.  A job keeps what JobLease    *)
(* promises: when its attempt fails or its worker is lost, also after the  *)
(* handler's own commit, the handler starts again from a budget of tries.  *)
(***************************************************************************)
EXTENDS Integers, Sequences, SequencesExt, FiniteSets, FiniteSetsExt

CONSTANTS
    Tasks,        \* requests and job deliveries in progress
    MaxPrompts,   \* bound: versions of the prompt
    MaxItems,     \* bound: datasets, and blueprints
    MaxTries,     \* attempts of a job
    Templates,    \* published versions of scenario templates
    Pages,        \* page assets of the document
    Profiles,     \* model profiles compared by a benchmark, in the order asked for
    Measures      \* [quality, cost, latency] a profile may reach

ASSUME AuthoringAssumption ==
    /\ MaxPrompts \in Nat /\ MaxItems \in Nat /\ MaxTries \in Nat \ {0}
    /\ Templates \cap {"none"} = {}
    /\ Profiles \in Seq(STRING) /\ Profiles # <<>> /\ IsInjective(Profiles)
    /\ Measures \subseteq [quality : Int, cost : Int, latency : Int]

VARIABLES
    prompts,     \* status of each version of the organization's prompt
    datasets,    \* golden_datasets in the order of their commits
    blueprints,  \* blueprints in the order of their commits
    analyses,    \* how many visual analyses each page has
    graphs,      \* blueprints whose knowledge graph is committed
    builders,    \* tasks with an uncommitted graph: task -> blueprint
    interviews,  \* sessions created: blueprint and template
    rankings,    \* benchmark_runs in the order of their commits
    tasks,       \* what each task is doing
    activated,   \* the version activated last
    coincided    \* an activation committed after another one had, since its UPDATE began

authoringVars == <<prompts, datasets, blueprints, analyses, graphs, builders, interviews,
                   rankings, tasks, activated, coincided>>

Free == [op |-> "none"]
Numbers == 1..MaxPrompts

InitAuthoring ==
    /\ prompts = [v \in Numbers |-> "absent"]
    /\ datasets = <<>> /\ blueprints = <<>>
    /\ analyses = [p \in Pages |-> 0]
    /\ graphs = {} /\ builders = [t \in {} |-> 0] /\ interviews = {} /\ rankings = <<>>
    /\ tasks = [t \in Tasks |-> Free]
    /\ activated = 0 /\ coincided = FALSE

Active == {v \in Numbers : prompts[v] = "active"}
Existing == {v \in Numbers : prompts[v] # "absent"}

\* prompt_contents, prompt_manifest: the newest active version of the
\* organization's own; 0 is the global default.
Effective == Max(Active \cup {0})

\* A record or function with fields changed or added.
Onto(change, old) ==
    [field \in DOMAIN change \cup DOMAIN old |->
        IF field \in DOMAIN change THEN change[field] ELSE old[field]]

Do(t, change) == tasks' = [tasks EXCEPT ![t] = Onto(change, @)]
EndTask(t) == tasks' = [tasks EXCEPT ![t] = Free]

----------------------------------------------------------------------------
(* Prompt versions: create_prompt_version, activate_prompt *)

AskPrompt(t) ==
    /\ tasks[t] = Free
    /\ \/ \E activate \in BOOLEAN :
            LET v == Max(Existing \cup {0}) + 1 IN
            /\ v \in Numbers
            /\ Do(t, [op |-> "add", at |-> IF activate THEN "update" ELSE "write",
                      version |-> v, status |-> IF activate THEN "active" ELSE "draft",
                      matched |-> {}, demoted |-> {}, overtaken |-> FALSE])
       \/ \E v \in Existing :
            Do(t, [op |-> "activate", at |-> "update", version |-> v, status |-> "active",
                   matched |-> {}, demoted |-> {}, overtaken |-> FALSE])
    /\ UNCHANGED <<prompts, datasets, blueprints, analyses, graphs, builders, interviews,
                   rankings, activated, coincided>>

Locked(t) ==
    UNION {tasks[u].demoted : u \in {x \in Tasks \ {t} : tasks[x].op \in {"add", "activate"}}}

\* The UPDATE finds the rows that are active when it starts ...
MatchActive(t) ==
    /\ tasks[t].op \in {"add", "activate"} /\ tasks[t].at = "update"
    /\ Do(t, [at |-> "locks", matched |-> Active])
    /\ UNCHANGED <<prompts, datasets, blueprints, analyses, graphs, builders, interviews,
                   rankings, activated, coincided>>

\* Variant of DemoteActive: committed by itself, before the new version is.
DemoteActiveAtOnce(t) ==
    /\ tasks[t].op \in {"add", "activate"} /\ tasks[t].at = "locks"
    /\ tasks[t].matched \cap Locked(t) = {}
    /\ prompts' = [v \in Numbers |-> IF v \in tasks[t].matched \cap Active THEN "candidate"
                                     ELSE prompts[v]]
    /\ Do(t, [at |-> "write"])
    /\ UNCHANGED <<datasets, blueprints, analyses, graphs, builders, interviews, rankings,
                   activated, coincided>>

\* ... waits for their locks, and skips those that no longer are.
DemoteActive(t) ==
    /\ tasks[t].op \in {"add", "activate"} /\ tasks[t].at = "locks"
    /\ tasks[t].matched \cap Locked(t) = {}
    /\ Do(t, [at |-> "write", demoted |-> tasks[t].matched \cap Active])
    /\ UNCHANGED <<prompts, datasets, blueprints, analyses, graphs, builders, interviews,
                   rankings, activated, coincided>>

Promoted(t) ==
    [v \in Numbers |-> IF v = tasks[t].version THEN tasks[t].status
                       ELSE IF v \in tasks[t].demoted THEN "candidate" ELSE prompts[v]]

\* A version another request has added meanwhile is refused by the unique key.
CommitPrompt(t) ==
    /\ tasks[t].op \in {"add", "activate"} /\ tasks[t].at = "write"
    /\ tasks[t].version \notin Locked(t)
    /\ IF tasks[t].op = "add" /\ tasks[t].version \in Existing
       THEN UNCHANGED <<prompts, activated, coincided>> /\ EndTask(t)
       ELSE /\ prompts' = Promoted(t)
            /\ IF tasks[t].status = "active"
               THEN /\ activated' = tasks[t].version
                    /\ coincided' = (coincided \/ tasks[t].overtaken)
               ELSE UNCHANGED <<activated, coincided>>
            /\ tasks' = [u \in Tasks |->
                  IF u = t THEN Free
                  ELSE IF tasks[u].op \in {"dataset", "benchmark"} /\ tasks[u].used # {}
                  THEN [tasks[u] EXCEPT !.shifted = TRUE]
                  ELSE IF tasks[t].status = "active" /\ tasks[u].op \in {"add", "activate"}
                          /\ tasks[u].at # "update"
                  THEN [tasks[u] EXCEPT !.overtaken = TRUE] ELSE tasks[u]]
    /\ UNCHANGED <<datasets, blueprints, analyses, graphs, builders, interviews, rankings>>

----------------------------------------------------------------------------
(* Generation, in a request or as the handler of a job *)

Generation(kind, job, try, template) ==
    [op |-> kind, at |-> "calls", job |-> job, try |-> try, template |-> template,
     used |-> {}, shifted |-> FALSE, measured |-> <<>>, repairs |-> 0, corrected |-> FALSE, left |-> Pages]

GenerateDataset(t, job) ==
    /\ Len(datasets) < MaxItems
    /\ Do(t, Generation("dataset", job, 1, "none"))

GenerateBlueprint(t, job) ==
    /\ Len(blueprints) < MaxItems
    /\ \E template \in Templates \cup {"none"} : Do(t, Generation("blueprint", job, 1, template))

RunBenchmark(t, job) ==
    /\ datasets # <<>> /\ Len(rankings) < MaxItems
    /\ Do(t, Generation("benchmark", job, 1, "none"))

AnalyzeVisuals(t, job) ==
    /\ \A p \in Pages : analyses[p] = 0
    /\ Do(t, Generation("visual", job, 1, "none"))

Generate(t) ==
    /\ tasks[t] = Free
    /\ \E job \in BOOLEAN :
        \/ GenerateDataset(t, job) \/ GenerateBlueprint(t, job)
        \/ RunBenchmark(t, job) \/ AnalyzeVisuals(t, job)
    /\ UNCHANGED <<prompts, datasets, blueprints, analyses, graphs, builders, interviews,
                   rankings, activated, coincided>>

Generating(t) == tasks[t].op \in {"dataset", "blueprint", "visual", "benchmark"}

\* The attempt is over without a result: a request answers an error, a job runs
\* again or is dead-lettered.
Abandoned(t) ==
    tasks' = [tasks EXCEPT ![t] =
        IF @.job /\ @.try < MaxTries THEN Generation(@.op, TRUE, @.try + 1, @.template) ELSE Free]

\* A call raises, the budget is used up, a lease or a process is lost.
GenerationFails(t) ==
    /\ Generating(t)
    /\ Abandoned(t)
    /\ UNCHANGED <<prompts, datasets, blueprints, analyses, graphs, builders, interviews,
                   rankings, activated, coincided>>

\* Annotators, critics, consensus and answers each read the active prompts.
CallAgents(t) ==
    /\ tasks[t].op = "dataset" /\ tasks[t].at = "calls"
    /\ Do(t, [used |-> tasks[t].used \cup {Effective}])
    /\ UNCHANGED <<prompts, datasets, blueprints, analyses, graphs, builders, interviews,
                   rankings, activated, coincided>>

\* validate_dataset: released only if there are four cases or more, each of them
\* grounded, complete and clean.
ReleaseReady(cases, sound) == cases >= 4 /\ sound = cases

\* The manifest is read, and the project's datasets counted, after the calls.
Assemble(t) ==
    /\ tasks[t].op = "dataset" /\ tasks[t].at = "calls" /\ tasks[t].used # {}
    /\ \E cases \in {3, 4}, sound \in {3, 4} :
          Do(t, [at |-> "store", manifest |-> Effective, number |-> Len(datasets) + 1,
                 ready |-> ReleaseReady(cases, sound)])
    /\ UNCHANGED <<prompts, datasets, blueprints, analyses, graphs, builders, interviews,
                   rankings, activated, coincided>>

Stored(t) == IF tasks[t].job THEN Do(t, [at |-> "stored"]) ELSE EndTask(t)

StoreDataset(t) ==
    /\ tasks[t].op = "dataset" /\ tasks[t].at = "store"
    /\ datasets' = Append(datasets,
          [number |-> tasks[t].number, ready |-> tasks[t].ready,
           status |-> IF tasks[t].ready THEN "ready" ELSE "needs_review",
           used |-> tasks[t].used, manifest |-> tasks[t].manifest,
           shifted |-> tasks[t].shifted, recounted |-> Len(datasets) + 1 # tasks[t].number])
    /\ Stored(t)
    /\ UNCHANGED <<prompts, blueprints, analyses, graphs, builders, interviews, rankings,
                   activated, coincided>>

\* complete_job: the job is over, with what its last attempt has stored.
CompleteGeneration(t) ==
    /\ Generating(t) /\ tasks[t].at = "stored"
    /\ EndTask(t)
    /\ UNCHANGED <<prompts, datasets, blueprints, analyses, graphs, builders, interviews,
                   rankings, activated, coincided>>

\* Variant of Acceptable: the last repair is taken as it is.
AcceptableAtLast(t, answer) ==
    answer = "fitting" \/ tasks[t].repairs = 3 \/ tasks[t].template = "none"

Acceptable(t, answer) == answer = "fitting" \/ tasks[t].template = "none"

\* SessionPlanner.plan: one correction of the language, three repairs of what
\* violates the template's contract, and none of either once repairs began.
Propose(t) ==
    /\ tasks[t].op = "blueprint" /\ tasks[t].at = "calls"
    /\ \E answer \in {"fitting", "violating", "foreign", "empty"} :
          IF answer = "foreign"
          THEN IF tasks[t].corrected \/ tasks[t].repairs > 0 THEN Abandoned(t)
               ELSE Do(t, [corrected |-> TRUE])
          ELSE IF answer = "empty" THEN Abandoned(t)
          ELSE IF Acceptable(t, answer) THEN Do(t, [at |-> "planned", fits |-> answer = "fitting"])
          ELSE IF tasks[t].repairs < 3 THEN Do(t, [repairs |-> tasks[t].repairs + 1])
          ELSE Abandoned(t)
    /\ UNCHANGED <<prompts, datasets, blueprints, analyses, graphs, builders, interviews,
                   rankings, activated, coincided>>

CountBlueprints(t) ==
    /\ tasks[t].op = "blueprint" /\ tasks[t].at = "planned"
    /\ Do(t, [at |-> "store", number |-> Len(blueprints) + 1])
    /\ UNCHANGED <<prompts, datasets, blueprints, analyses, graphs, builders, interviews,
                   rankings, activated, coincided>>

StoreBlueprint(t) ==
    /\ tasks[t].op = "blueprint" /\ tasks[t].at = "store"
    /\ blueprints' = Append(blueprints,
          [number |-> tasks[t].number, template |-> tasks[t].template, fits |-> tasks[t].fits,
           recounted |-> Len(blueprints) + 1 # tasks[t].number])
    /\ Stored(t)
    /\ UNCHANGED <<prompts, datasets, analyses, graphs, builders, interviews, rankings,
                   activated, coincided>>

\* Every page is analyzed and committed before the next one.
AnalyzePage(t) ==
    /\ tasks[t].op = "visual" /\ tasks[t].at = "calls"
    /\ \E p \in tasks[t].left :
        /\ analyses' = [analyses EXCEPT ![p] = @ + 1]
        /\ IF tasks[t].left = {p} THEN Stored(t) ELSE Do(t, [left |-> tasks[t].left \ {p}])
    /\ UNCHANGED <<prompts, datasets, blueprints, graphs, builders, interviews, rankings,
                   activated, coincided>>

\* BenchmarkService.run: the planner and the analyzer of a profile are built with
\* the prompts active when its turn comes, and measured before the next profile.
MeasureProfile(t) ==
    /\ tasks[t].op = "benchmark" /\ tasks[t].at = "calls"
    /\ Len(tasks[t].measured) < Len(Profiles)
    /\ \E result \in Measures :
          Do(t, [measured |-> Append(tasks[t].measured,
                                     Onto([profile |-> Profiles[Len(tasks[t].measured) + 1]], result)),
                 used |-> tasks[t].used \cup {Effective}])
    /\ UNCHANGED <<prompts, datasets, blueprints, analyses, graphs, builders, interviews,
                   rankings, activated, coincided>>

\* quality descending, then cost ascending, then latency ascending
Before(a, b) ==
    \/ a.quality > b.quality
    \/ a.quality = b.quality /\ a.cost < b.cost
    \/ a.quality = b.quality /\ a.cost = b.cost /\ a.latency < b.latency

\* The sort is stable: everyone comes after those that did better, and after
\* those that did as well and were asked for earlier.
Ahead(list, i, j) ==
    Before(list[i], list[j]) \/ (~Before(list[j], list[i]) /\ i < j)
Place(list, i) == 1 + Cardinality({j \in DOMAIN list : Ahead(list, j, i)})
Ranked(list) ==
    [place \in DOMAIN list |-> list[CHOOSE i \in DOMAIN list : Place(list, i) = place]]

\* The stored configuration does not name the prompts.
StoreRanking(t) ==
    /\ tasks[t].op = "benchmark" /\ Len(tasks[t].measured) = Len(Profiles)
    /\ tasks[t].at = "calls"
    /\ rankings' = Append(rankings, [ranked  |-> Ranked(tasks[t].measured),
                                     used    |-> tasks[t].used,
                                     shifted |-> tasks[t].shifted])
    /\ Stored(t)
    /\ UNCHANGED <<prompts, datasets, blueprints, analyses, graphs, builders, interviews,
                   activated, coincided>>

----------------------------------------------------------------------------
(* What is done with datasets *)

\* Variant of Releasable: a dataset that needs review is frozen all the same.
ReleasableAnyway(dataset) == dataset.status # "deprecated"

Releasable(dataset) == dataset.ready

SetDatasetStatus(i, status) ==
    /\ i \in DOMAIN datasets
    /\ status = "frozen" => Releasable(datasets[i])
    /\ datasets' = [datasets EXCEPT ![i].status = status]
    /\ UNCHANGED <<prompts, blueprints, analyses, graphs, builders, interviews, rankings,
                   tasks, activated, coincided>>

----------------------------------------------------------------------------
(* Sessions on a blueprint: _create_exam_session up to the session's commit *)

\* validate_blueprint_template_compatibility
Compatible(b, template) == blueprints[b].template \in {"none", template} \/ template = "none"

\* ensure_blueprint_graph reads what exists; a policy benchmark builds the graph
\* to measure it and commits nothing.
OpenBlueprint(t, b) ==
    /\ tasks[t] = Free /\ b \in DOMAIN blueprints
    /\ \E template \in Templates \cup {"none", "benchmark"} :
        /\ template # "benchmark" => Compatible(b, template)
        /\ Do(t, [op |-> "session", at |-> IF b \in graphs THEN "create" ELSE "insert",
                  blueprint |-> b, template |-> template])
    /\ UNCHANGED <<prompts, datasets, blueprints, analyses, graphs, builders, interviews,
                   rankings, activated, coincided>>

\* Variant of Insertable: a row another transaction inserts counts as inserted.
InsertableAtOnce(b) == TRUE

\* The unique key makes the second insert wait for the first transaction's end.
Insertable(b) == \A u \in DOMAIN builders : builders[u] # b

InsertGraph(t) ==
    LET b == tasks[t].blueprint IN
    /\ tasks[t].op = "session" /\ tasks[t].at = "insert" /\ Insertable(b)
    /\ IF b \in graphs \/ \E u \in DOMAIN builders : builders[u] = b
       THEN UNCHANGED builders /\ Do(t, [at |-> "create"])     \* IntegrityError
       ELSE builders' = Onto([u \in {t} |-> b], builders) /\ Do(t, [at |-> "built"])
    /\ UNCHANGED <<prompts, datasets, blueprints, analyses, graphs, interviews, rankings,
                   activated, coincided>>

Others(t) == [u \in DOMAIN builders \ {t} |-> builders[u]]

CommitGraph(t) ==
    /\ tasks[t].op = "session" /\ tasks[t].at = "built" /\ tasks[t].template # "benchmark"
    /\ graphs' = graphs \cup {tasks[t].blueprint}
    /\ builders' = Others(t)
    /\ Do(t, [at |-> "create"])
    /\ UNCHANGED <<prompts, datasets, blueprints, analyses, interviews, rankings, activated,
                   coincided>>

CreateInterview(t) ==
    /\ tasks[t].op = "session" /\ tasks[t].at = "create" /\ tasks[t].template # "benchmark"
    /\ interviews' = interviews \cup {[blueprint |-> tasks[t].blueprint,
                                       template |-> tasks[t].template]}
    /\ EndTask(t)
    /\ UNCHANGED <<prompts, datasets, blueprints, analyses, graphs, builders, rankings,
                   activated, coincided>>

\* A request ends without a commit: the benchmark always, any other when it fails.
RollBack(t) ==
    /\ tasks[t].op \in {"add", "activate", "session"}
    /\ builders' = Others(t)
    /\ EndTask(t)
    /\ UNCHANGED <<prompts, datasets, blueprints, analyses, graphs, interviews, rankings,
                   activated, coincided>>

NextAuthoring ==
    \/ \E t \in Tasks :
        \/ AskPrompt(t) \/ MatchActive(t) \/ DemoteActive(t) \/ CommitPrompt(t)
        \/ Generate(t) \/ GenerationFails(t) \/ CallAgents(t) \/ Assemble(t) \/ StoreDataset(t)
        \/ Propose(t) \/ CountBlueprints(t) \/ StoreBlueprint(t) \/ AnalyzePage(t)
        \/ MeasureProfile(t) \/ StoreRanking(t) \/ CompleteGeneration(t)
        \/ \E b \in 1..MaxItems : OpenBlueprint(t, b)
        \/ InsertGraph(t) \/ CommitGraph(t) \/ CreateInterview(t) \/ RollBack(t)
    \/ \E i \in 1..MaxItems :
        \E status \in {"candidate", "frozen", "deprecated"} : SetDatasetStatus(i, status)

SpecAuthoring == InitAuthoring /\ [][NextAuthoring]_authoringVars

----------------------------------------------------------------------------
(* Properties *)

AuthoringTypeOK ==
    /\ prompts \in [Numbers -> {"absent", "draft", "candidate", "active"}]
    /\ graphs \subseteq DOMAIN blueprints
    /\ \A t \in DOMAIN builders : tasks[t].op = "session" /\ tasks[t].at = "built"
    /\ activated \in 0..MaxPrompts

\* An organization that has activated a prompt never falls back to the global
\* default, however activations race; and the agents read the version activated
\* last, unless two activations overlapped (prompts.py:135-194).
PromptStays ==
    activated # 0 => /\ Active # {}
                     /\ coincided \/ Active = {activated}

\* A dataset is frozen only with its release gates passed, and names the prompts
\* its calls were made with unless one was activated in between; a plan made for
\* a template fits its contract, whatever repairs it took; and the numbers of
\* datasets and blueprints are their order unless two were generated at once
\* (golden.py:389-438, datasets.py:12-20, planner.py:146-184, blueprints.py:85-111).
VersionsHonest ==
    /\ \A i \in DOMAIN datasets :
        LET d == datasets[i] IN
        /\ d.status = "frozen" => d.ready
        /\ d.shifted \/ d.used = {d.manifest}
        /\ d.recounted \/ d.number = i
    /\ \A b \in DOMAIN blueprints :
        /\ blueprints[b].template # "none" => blueprints[b].fits
        /\ blueprints[b].recounted \/ blueprints[b].number = b

\* A benchmark ranks every profile once, none before one that did better, and
\* has measured them all with the same prompts unless one was activated in
\* between (benchmark.py:317-407).
RankedFairly ==
    \A r \in ToSet(rankings) :
        /\ {p.profile : p \in ToSet(r.ranked)} = ToSet(Profiles) /\ IsInjective(r.ranked)
        /\ \A i, j \in DOMAIN r.ranked : i < j => ~Before(r.ranked[j], r.ranked[i])
        /\ r.shifted \/ Cardinality(r.used) = 1

\* A session finds the knowledge graph of its blueprint, also when several
\* requests build it at once and some of them roll back (main.py:2233-2239,
\* cognitive.py:79-147), and runs by the template the blueprint was planned for
\* (main.py:444-472).
SessionsGrounded ==
    \A s \in interviews :
        LET template == blueprints[s.blueprint].template IN
        /\ s.blueprint \in graphs
        /\ s.template # "none" => template \in {"none", s.template}

\* What is generated says truly how it was, and sessions run on it whole.
AuthoredSound ==
    AuthoringTypeOK /\ PromptStays /\ VersionsHonest /\ RankedFairly /\ SessionsGrounded
=============================================================================
