--------------------------- MODULE MCExamination ---------------------------
(***************************************************************************)
(* Examinations, the material they run on and the page of a learner,       *)
(* checked in one run.  They share no state, so every behaviour takes the  *)
(* steps of one of them; those of the material and of the page are split   *)
(* by the operations that meet.                                            *)
(***************************************************************************)
EXTENDS Examination, Authoring, ExamClient, TLC

VARIABLE part  \* the part whose steps a behaviour takes

examinationVars == <<part, vars, authoringVars, clientVars>>

MCProfiles == <<"x", "y">>

\* A learner who writes the same answer twice.
MCText == <<"a", "a", "b">>

Set(mode, hints, contract, strategy) ==
    [mode |-> mode, hints |-> hints, contract |-> contract, strategy |-> strategy]
Edit(status, key, opens, closes) ==
    [status |-> status, needsKey |-> key, opens |-> opens, closes |-> closes]

\* Without a template, with one that cannot follow up, and an exam by a
\* template that helps.
MCSettings == {Set("practice", TRUE, {}, "adaptive"),
               Set("practice", FALSE, {"GIVE_HINT", "MOVE_ON", "END"}, "fixed"),
               Set("exam", FALSE, Actions, "fixed")}
MCEdits == {Edit("published", FALSE, Never, 2), Edit("closed", TRUE, Never, Never)}
MCMeasures == {[quality |-> 1, cost |-> 1, latency |-> 1],
               [quality |-> 2, cost |-> 2, latency |-> 1]}

InitAll ==
    /\ part \in {"examination",
                 "prompting", "quoting", "planning", "opening", "releasing",
                 "comparing", "looking", "entering", "answering"}
    /\ Init /\ InitAuthoring /\ InitClient
    /\ part # "examination" => assignment.mode = "exam"
    /\ part \notin {"entering", "answering"} => storing

Doing(ops) == \A t \in Tasks : tasks'[t].op \in ops \cup {"none"}
AtOnce == \A t \in Tasks : tasks'[t].op \in {"dataset", "blueprint", "benchmark"} =>
              ~tasks'[t].job /\ tasks'[t].repairs = 0 /\ ~tasks'[t].corrected

\* Activating prompts while a dataset is made from them.
Quoting ==
    /\ Doing({"add", "activate", "dataset"}) /\ AtOnce
    /\ \A i \in DOMAIN datasets' : datasets'[i].status = "ready"
    /\ \A t \in Tasks : tasks'[t].op = "add" => tasks'[t].status = "active"

\* Activating prompts while a benchmark runs on a dataset made before.
Comparing ==
    /\ Doing({"activate", "add", "dataset", "benchmark"}) /\ AtOnce
    /\ \A t, u \in Tasks :
          /\ tasks'[t].op = "dataset" => u = t \/ tasks'[u].op = "none"
          /\ tasks'[t].op = "dataset" => Existing' = {}
          /\ tasks'[t].op = "add" => tasks'[t].status = "active"
          /\ tasks'[t].op = "benchmark" => u = t \/ tasks'[u].op # "benchmark"
    /\ \A i \in DOMAIN datasets' : datasets'[i].status = "ready"

\* Sessions on blueprints that several requests plan.
Opening == Doing({"blueprint", "session"}) /\ AtOnce

\* Handlers that overlap while no request fails, and one at a time.
Overlapping == written' <= 1 /\ failed' = 0
OneHandler == Cardinality({h \in Handlers : flows'[h].at # "idle"}) <= 1

\* Time goes by for an assignment with an end only: no other looks at the clock.
ClosedInTime == assignment'.closes = Never => now' = 1

NextAll ==
    /\ part' = part
    /\ \/ part = "examination" /\ Next /\ ClosedInTime /\ UNCHANGED <<authoringVars, clientVars>>
       \/ /\ NextAuthoring
          /\ CASE part = "prompting" -> Doing({"add", "activate"})
               [] part = "quoting"   -> Quoting
               [] part = "planning"  -> Doing({"blueprint"})
               [] part = "opening"   -> Opening
               [] part = "releasing" -> Doing({"dataset"})
               [] part = "comparing" -> Comparing
               [] part = "looking"   -> Doing({"visual"})
               [] OTHER              -> FALSE
          /\ UNCHANGED <<vars, clientVars>>
       \/ /\ NextClient
          /\ CASE part = "entering"  -> Overlapping
               [] part = "answering" -> OneHandler
               [] OTHER              -> FALSE
          /\ UNCHANGED <<vars, authoringVars>>

SpecAll == InitAll /\ [][NextAll]_examinationVars

\* Requests are interchangeable.  Calls, tasks and handlers are the same values:
\* no behaviour has two of them.
CallSymmetry == Permutations(Calls)
=============================================================================
