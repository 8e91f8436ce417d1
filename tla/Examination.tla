---------------------------- MODULE Examination ----------------------------
(***************************************************************************)
(* Oral examinations by text: an assignment published by a teacher, the    *)
(* attempts of its learners, the session each attempt owns, and the        *)
(* requests of main.py that create, start and answer them.                 *)
(*                                                                         *)
(* A request loads rows, may wait for a slot of ModelCallGate, calls the   *)
(* model, and commits.  Sessions keep loaded rows across commits           *)
(* (expire_on_commit=False) and nothing locks them, so what a request      *)
(* decides on is what it loaded, however long it waited.  The statements   *)
(* after the model call are one step.                                      *)
(***************************************************************************)
EXTENDS Integers, Sequences, FiniteSets, SequencesExt

CONSTANTS
    Learners,      \* who may join, by principal or learner key
    Anonymous,     \* a learner with neither: joins without being counted
    Calls,         \* API requests in progress
    Surfaces,      \* a subset of {"learner", "workbench"}
    NQuestions,    \* questions of the blueprint, in its order
    QuestionLimit, \* question_limit of the session
    Followups,     \* max_followups_per_question
    Settings,      \* settings an assignment may be created with: mode, hints, the
                   \* actions its template allows ({}: no template), strategy
    Edits,         \* what a teacher may save: status, needsKey, opens, closes
    MaxAttempts,   \* max_attempts of the assignment
    Capacity,      \* learner_model_concurrency
    MaxSessions,   \* bound: sessions ever created
    MaxTurns,      \* bound: turns of all sessions while an answer is still sent
    MaxTime        \* bound: clock

Actions == {"ASK_FOLLOWUP", "GIVE_HINT", "CORRECT", "MOVE_ON", "END"}

\* The validator of templates refuses a contract without END
\* (template_engine/validator.py:182).
ASSUME ExaminationAssumption ==
    /\ NQuestions \in Nat \ {0} /\ QuestionLimit \in Nat \ {0}
    /\ Followups \in Nat /\ MaxAttempts \in Nat \ {0} /\ Capacity \in Nat \ {0}
    /\ MaxSessions \in Nat \ {0} /\ MaxTurns \in Nat /\ MaxTime \in Nat \ {0}
    /\ Surfaces \subseteq {"learner", "workbench"}
    /\ IsFiniteSet(Calls)
    /\ \A set \in Settings :
         /\ set.contract \subseteq Actions
         /\ set.contract # {} => "END" \in set.contract

VARIABLES
    assignment,  \* the assignment row
    now,         \* the clock
    attempts,    \* assignment_attempts rows, in order of insertion
    sessions,    \* exam_sessions rows
    turns,       \* the turns of each session, in order
    calls,       \* requests in progress
    slots,       \* free slots of the process's ModelCallGate
    overtaken,   \* sessions a request committed to on a row that had changed
    miscounted   \* learners an attempt was added for on a count that had changed

vars == <<assignment, now, attempts, sessions, turns, calls, slots,
          overtaken, miscounted>>

Sessions == 1..MaxSessions
Questions == 1..NQuestions
Limit == IF QuestionLimit < NQuestions THEN QuestionLimit ELSE NQuestions
Never == 0   \* a NULL opens_at or closes_at

----------------------------------------------------------------------------
(* Assignments *)

\* The row, of the settings it was created with and of what was last saved.
Assignment(set, edit) ==
    [mode |-> set.mode, hints |-> set.hints, contract |-> set.contract,
     strategy |-> set.strategy, status |-> edit.status, needsKey |-> edit.needsKey,
     opens |-> edit.opens, closes |-> edit.closes]

WindowState(a, time) ==
    IF a.status # "published" THEN "closed"
    ELSE IF a.opens # Never /\ time < a.opens THEN "scheduled"
    ELSE IF a.closes # Never /\ time >= a.closes THEN "ended"
    ELSE "open"

WindowOpen == WindowState(assignment, now) = "open"

ValidWindow(a) == a.opens # Never /\ a.closes # Never => a.opens < a.closes

\* What the policy of a session allows: the template's contract, or the
\* defaults with the settings of the request; an exam locks it.
DefaultContract == {"ASK_FOLLOWUP", "GIVE_HINT", "MOVE_ON", "END"}

EffectivePolicy(contract, hints) ==
    [allowed |-> IF contract = {} THEN DefaultContract ELSE contract,
     hints   |-> IF contract = {} THEN hints ELSE "GIVE_HINT" \in contract]

LockPolicy(policy) ==
    [allowed |-> (policy.allowed \ {"GIVE_HINT", "CORRECT"}) \cup {"END"},
     hints   |-> FALSE]

SessionPolicy(a) ==
    LET policy == EffectivePolicy(a.contract, a.hints) IN
    IF a.mode = "exam" THEN LockPolicy(policy) ELSE policy

\* freeze_session_settings refuses hints for an exam.
Freezable(set) == set.mode = "exam" => ~set.hints

Countable(l) == l # Anonymous
AttemptsOf(l) == {i \in DOMAIN attempts : attempts[i].learner = l}
PriorAttempts(l) == IF Countable(l) THEN Cardinality(AttemptsOf(l)) ELSE 0

\* Variant of AttemptAllowed: off by one.
AttemptAllowedOneMore(l, prior) ==
    /\ WindowOpen
    /\ assignment.needsKey => Countable(l)
    /\ prior <= MaxAttempts

AttemptAllowed(l, prior) ==
    /\ WindowOpen
    /\ assignment.needsKey => Countable(l)
    /\ prior < MaxAttempts

----------------------------------------------------------------------------
(* The policy controller *)

\* What the analysis of an answer says: was it an answer, and is it weak
\* (coverage under 0.72, or errors).
Analyses == {a \in [answered : BOOLEAN, weak : BOOLEAN] : ~a.answered => a.weak}

RequestedAction(policy, analysis, tries, last) ==
    IF ~analysis.answered /\ policy.hints /\ tries = 0 THEN "GIVE_HINT"
    ELSE IF analysis.weak /\ tries < Followups THEN "ASK_FOLLOWUP"
    ELSE IF last THEN "END"
    ELSE "MOVE_ON"

Authorize(requested, policy, tries, last) ==
    IF requested \in policy.allowed THEN requested
    ELSE IF last /\ "END" \in policy.allowed THEN "END"
    ELSE IF /\ requested = "GIVE_HINT" /\ "ASK_FOLLOWUP" \in policy.allowed
            /\ tries < Followups
         THEN "ASK_FOLLOWUP"
    ELSE IF "MOVE_ON" \in policy.allowed THEN "MOVE_ON"
    ELSE "END"

Decide(policy, analysis, tries, last) ==
    Authorize(RequestedAction(policy, analysis, tries, last), policy, tries, last)

----------------------------------------------------------------------------
(* Rows *)

NoSession == [status |-> "none", index |-> 1, tries |-> 0, asked |-> <<>>, graded |-> {}]
NewSession == [NoSession EXCEPT !.status = "created"]

Turn(role, question, note) == [role |-> role, question |-> question, note |-> note]

Idle == [pc |-> "idle", learner |-> Anonymous, number |-> 0, session |-> 0,
         gated |-> FALSE, seen |-> NoSession, read |-> 0, refusals |-> 0]

\* Variant of Save: the grades are changed in place, which is not noticed.
SaveInPlace(current, seen, new) ==
    [column \in DOMAIN new |->
        IF column = "graded" \/ new[column] = seen[column]
        THEN current[column] ELSE new[column]]

\* A commit writes the columns whose value differs from the loaded one; the
\* grades are a JSON document assigned as a whole.
Save(current, seen, new) ==
    [column \in DOMAIN new |->
        IF column # "graded" /\ new[column] = seen[column]
        THEN current[column] ELSE new[column]]

Stale(c) ==
    LET s == calls[c].session IN
    sessions[s] # calls[c].seen \/ Len(turns[s]) # calls[c].read

Init ==
    /\ \E set \in Settings, edit \in Edits :
          /\ Freezable(set) /\ ValidWindow(edit) /\ edit.status = "published"
          /\ assignment = Assignment(set, edit)
    /\ now = 1
    /\ attempts = <<>>
    /\ sessions = [s \in Sessions |-> NoSession]
    /\ turns = [s \in Sessions |-> <<>>]
    /\ calls = [c \in Calls |-> Idle]
    /\ slots = Capacity
    /\ overtaken = {} /\ miscounted = {}

----------------------------------------------------------------------------
(* Joining: create_assignment_attempt *)

\* The count of prior attempts decides, long before the attempt is inserted.
JoinCheck(c, l) ==
    /\ calls[c] = Idle
    /\ "learner" \in Surfaces
    /\ AttemptAllowed(l, PriorAttempts(l))
    /\ calls' = [calls EXCEPT ![c] =
            [Idle EXCEPT !.pc = "joining", !.learner = l, !.number = PriorAttempts(l) + 1]]
    /\ UNCHANGED <<assignment, now, attempts, sessions, turns, slots,
                   overtaken, miscounted>>

\* _create_exam_session commits the session on its own.
CreateSession(c) ==
    /\ calls[c].pc = "joining"
    /\ \E s \in Sessions :
        /\ \A other \in Sessions : (sessions[other].status = "none") <=> (other >= s)
        /\ sessions' = [sessions EXCEPT ![s] = NewSession]
        /\ calls' = [calls EXCEPT ![c].pc = "joined", ![c].session = s]
    /\ UNCHANGED <<assignment, now, attempts, turns, slots, overtaken, miscounted>>

CreateAttempt(c) ==
    LET l == calls[c].learner IN
    /\ calls[c].pc = "joined"
    /\ attempts' = Append(attempts, [learner |-> l, session |-> calls[c].session,
                                     number |-> calls[c].number])
    /\ miscounted' = IF calls[c].number # PriorAttempts(l) + 1
                     THEN miscounted \cup {l} ELSE miscounted
    /\ calls' = [calls EXCEPT ![c] = Idle]
    /\ UNCHANGED <<assignment, now, sessions, turns, slots, overtaken>>

----------------------------------------------------------------------------
(* Starting: start_assignment_attempt, start_session *)

\* A learner reaches the session through an attempt of theirs and in the
\* window only, an examiner with session.conduct directly.
Reachable(surface, s) ==
    /\ surface \in Surfaces
    /\ sessions[s].status # "none"
    /\ surface = "learner" =>
        /\ \E i \in DOMAIN attempts : attempts[i].session = s
        /\ WindowOpen

StartRead(c, surface, s) ==
    /\ calls[c] = Idle
    /\ Reachable(surface, s)
    /\ sessions[s].status = "created"
    /\ calls' = [calls EXCEPT ![c] =
            [Idle EXCEPT !.pc = "starting", !.session = s,
                         !.seen = sessions[s], !.read = Len(turns[s])]]
    /\ UNCHANGED <<assignment, now, attempts, sessions, turns, slots,
                   overtaken, miscounted>>

\* Variant of NextQuestions: the selector does not leave out what was asked.
NextQuestionsAgain(asked, index) ==
    IF assignment.strategy = "adaptive" THEN Questions
    ELSE {index + 1} \cap (IF Len(asked) < Limit THEN Questions ELSE {})

\* The questions an adaptive session may take next (AdaptiveQuestionSelector
\* never takes one twice; which one it prefers depends on the answers), or the
\* next one in the blueprint's order.
NextQuestions(asked, index) ==
    IF assignment.strategy = "adaptive" THEN Questions \ ToSet(asked)
    ELSE {index + 1} \cap (IF Len(asked) < Limit THEN Questions ELSE {})

Commit(c, new, added) ==
    LET s == calls[c].session IN
    /\ sessions' = [sessions EXCEPT ![s] = Save(@, calls[c].seen, new)]
    /\ turns' = [turns EXCEPT ![s] = @ \o added]
    /\ overtaken' = IF Stale(c) THEN overtaken \cup {s} ELSE overtaken

StartWrite(c) ==
    /\ calls[c].pc = "starting"
    /\ \E first \in (IF assignment.strategy = "adaptive" THEN Questions ELSE {1}) :
        Commit(c,
               [calls[c].seen EXCEPT !.status = "active", !.index = first, !.tries = 0,
                                     !.asked = <<first>>],
               <<Turn("assistant", first, "ASK_NEW")>>)
    /\ calls' = [calls EXCEPT ![c] = Idle]
    /\ UNCHANGED <<assignment, now, attempts, slots, miscounted>>

----------------------------------------------------------------------------
(* Answering: submit_assignment_answer, submit_answer *)

\* The window is checked here, before the wait, and the row is loaded here.
AnswerRead(c, surface, s) ==
    /\ calls[c] = Idle
    /\ Reachable(surface, s)
    /\ MapThenFoldSet(+, 0, LAMBDA x : Len(turns[x]), LAMBDA X : CHOOSE x \in X : TRUE,
                      Sessions) < MaxTurns
    /\ calls' = [calls EXCEPT ![c] =
            [Idle EXCEPT !.pc = IF surface = "learner" THEN "queued" ELSE "asking",
                         !.session = s, !.seen = sessions[s]]]
    /\ UNCHANGED <<assignment, now, attempts, sessions, turns, slots,
                   overtaken, miscounted>>

TakeSlot(c) ==
    /\ calls[c].pc = "queued"
    /\ slots > 0
    /\ slots' = slots - 1
    /\ calls' = [calls EXCEPT ![c].pc = "asking", ![c].gated = TRUE]
    /\ UNCHANGED <<assignment, now, attempts, sessions, turns,
                   overtaken, miscounted>>

QueueTimeout(c) ==
    /\ calls[c].pc = "queued"
    /\ calls' = [calls EXCEPT ![c] = Idle]
    /\ UNCHANGED <<assignment, now, attempts, sessions, turns, slots,
                   overtaken, miscounted>>

\* Variant of Return: a slot is released whether or not one was taken.
ReturnAlwaysReleases(c) ==
    /\ calls' = [calls EXCEPT ![c] = Idle]
    /\ slots' = slots + 1

\* The end of a request that may hold a slot: _submit_learner_answer's finally.
Return(c) ==
    /\ calls' = [calls EXCEPT ![c] = Idle]
    /\ slots' = IF calls[c].gated THEN slots + 1 ELSE slots

\* Variant of Ask: the status is not checked.
AskUnchecked(c) ==
    /\ calls[c].pc = "asking"
    /\ calls' = [calls EXCEPT ![c].pc = "model", ![c].read = Len(turns[calls[c].session])]
    /\ UNCHANGED <<assignment, now, attempts, sessions, turns, slots,
                   overtaken, miscounted>>

\* submit_answer checks the loaded status and loads the turns.
Ask(c) ==
    /\ calls[c].pc = "asking"
    /\ calls[c].seen.status = "active"
    /\ calls' = [calls EXCEPT ![c].pc = "model", ![c].read = Len(turns[calls[c].session])]
    /\ UNCHANGED <<assignment, now, attempts, sessions, turns, slots,
                   overtaken, miscounted>>

NotActive(c) ==
    /\ calls[c].pc = "asking"
    /\ calls[c].seen.status # "active"
    /\ Return(c)
    /\ UNCHANGED <<assignment, now, attempts, sessions, turns,
                   overtaken, miscounted>>

\* Model governance refuses the call.  For a learner the session is rolled
\* back, which makes the next access load the row again, and the call repeated
\* at most twice.
Refused(c) ==
    /\ calls[c].pc = "model"
    /\ calls[c].gated /\ calls[c].refusals < 2
    /\ calls' = [calls EXCEPT ![c].pc = "asking", ![c].refusals = @ + 1,
                              ![c].seen = sessions[calls[c].session]]
    /\ UNCHANGED <<assignment, now, attempts, sessions, turns, slots,
                   overtaken, miscounted>>

\* The third refusal, a refusal that is not retried, or a provider's error.
ModelFails(c) ==
    /\ calls[c].pc = "model"
    /\ Return(c)
    /\ UNCHANGED <<assignment, now, attempts, sessions, turns,
                   overtaken, miscounted>>

\* _assistance_level: what helped the learner to this answer, from the turns
\* that were loaded.
Assistance(s, read, tries) ==
    LET helped == {i \in 1..read : turns[s][i].note \in {"GIVE_HINT", "ASK_FOLLOWUP"}} IN
    IF tries = 0 THEN "direct"
    ELSE IF helped = {} THEN "followup"
    ELSE IF turns[s][CHOOSE i \in helped : \A j \in helped : j <= i].note = "GIVE_HINT"
         THEN "hint" ELSE "followup"

\* Everything submit_answer does after the model has answered.
Record(c, analysis) ==
    LET call     == calls[c]
        seen     == call.seen
        s        == call.session
        question == seen.index
        action   == Decide(SessionPolicy(assignment), analysis, seen.tries,
                           Len(seen.asked) >= Limit)
        graded   == [seen EXCEPT !.graded = @ \cup {question}]
        answer   == Turn("user", question, Assistance(s, call.read, seen.tries))
        next     == NextQuestions(seen.asked, question)
    IN
    /\ call.pc = "model"
    /\ \/ /\ action \in {"ASK_FOLLOWUP", "GIVE_HINT"}
          /\ Commit(c, [graded EXCEPT !.tries = @ + 1],
                    <<answer, Turn("assistant", question, action)>>)
       \/ /\ action = "MOVE_ON"
          /\ \E q \in next :
               Commit(c, [graded EXCEPT !.index = q, !.tries = 0, !.asked = Append(@, q)],
                      <<answer, Turn("assistant", q, action)>>)
       \/ /\ \/ action = "END"
             \/ action = "MOVE_ON" /\ next = {}
          /\ Commit(c, [graded EXCEPT !.status = "completed"],
                    <<answer, Turn("assistant", question, "END")>>)
    /\ Return(c)
    /\ UNCHANGED <<assignment, now, attempts, miscounted>>

----------------------------------------------------------------------------
(* Teachers, time and lost processes *)

UpdateAssignment ==
    \E edit \in Edits :
        /\ ValidWindow(edit)
        /\ assignment' = Assignment(assignment, edit)
        /\ UNCHANGED <<now, attempts, sessions, turns, calls, slots,
                       overtaken, miscounted>>

Tick ==
    /\ now < MaxTime
    /\ now' = now + 1
    /\ UNCHANGED <<assignment, attempts, sessions, turns, calls, slots,
                   overtaken, miscounted>>

\* The gate lives in the memory of the one application process.
Restart ==
    /\ \E c \in Calls : calls[c] # Idle
    /\ calls' = [c \in Calls |-> Idle]
    /\ slots' = Capacity
    /\ UNCHANGED <<assignment, now, attempts, sessions, turns, overtaken, miscounted>>

----------------------------------------------------------------------------

Advance(c) ==
    \/ CreateSession(c) \/ CreateAttempt(c) \/ StartWrite(c)
    \/ TakeSlot(c) \/ QueueTimeout(c) \/ Ask(c) \/ NotActive(c)
    \/ Refused(c) \/ ModelFails(c)
    \/ \E analysis \in Analyses : Record(c, analysis)

Next ==
    \/ \E c \in Calls :
        \/ \E l \in Learners : JoinCheck(c, l)
        \/ \E surface \in Surfaces, s \in Sessions :
             StartRead(c, surface, s) \/ AnswerRead(c, surface, s)
        \/ Advance(c)
    \/ UpdateAssignment \/ Tick \/ Restart

Spec == Init /\ [][Next]_vars

----------------------------------------------------------------------------
(* Properties *)

Roles == {"user", "assistant"}
Notes == {"ASK_NEW", "direct", "followup", "hint"} \cup Actions
Row == [status : {"none", "created", "active", "completed"}, index : Questions,
        tries : Nat, asked : Seq(Questions), graded : SUBSET Questions]

\* Every variable stays in its set: rows, turns, attempts, requests in progress
\* and the free slots of the gate.
TypeOK ==
    /\ \E set \in Settings, edit \in Edits : assignment = Assignment(set, edit)
    /\ now \in 1..MaxTime
    /\ \A i \in DOMAIN attempts :
         attempts[i].learner \in Learners /\ attempts[i].session \in Sessions
    /\ \A s \in Sessions :
         /\ sessions[s] \in Row
         /\ turns[s] \in Seq([role : Roles, question : Questions, note : Notes])
    /\ \A c \in Calls : calls[c].pc \in
         {"idle", "joining", "joined", "starting", "queued", "asking", "model"}
    /\ slots \in 0..Capacity
    /\ overtaken \subseteq Sessions /\ miscounted \subseteq Learners

\* The gate never loses a slot and never admits more than its capacity: what is
\* not free is held by a request that will release it (rate_limit.py:65-89,
\* main.py:3159-3190), through refusals, timeouts and failures.
GateAccounted ==
    slots + Cardinality({c \in Calls : calls[c].gated}) = Capacity

\* No question is asked twice in a session and never more than the limit, even
\* when requests overtake each other on rows loaded earlier
\* (agents/orchestrator.py:243-289); and a question is followed up at most
\* max_followups_per_question times, whatever the answers are
\* (agents/policy.py:12-60), in a session no request wrote on a stale row.
InterviewWithinPlan ==
    \A s \in Sessions :
        /\ IsInjective(sessions[s].asked)
        /\ Len(sessions[s].asked) <= Limit
        /\ s \notin overtaken => \A q \in Questions :
             Cardinality({i \in DOMAIN turns[s] : /\ turns[s][i].question = q
                                                 /\ turns[s][i].note = "ASK_FOLLOWUP"})
             <= Followups

\* Nothing in an exam helps the learner: no hint and no correction is ever
\* given, and no answer is recorded as given after a hint
\* (assignments.py:110-127), even by a template that allows them.  Elsewhere the
\* answer that follows a hint is recorded as hinted, so that the learner model
\* discounts it (agents/orchestrator.py:476-485), in a session no request wrote
\* on a stale row.
AssistanceHonest ==
    \A s \in Sessions : \A i \in DOMAIN turns[s] :
        /\ assignment.mode = "exam" => turns[s][i].note \notin {"GIVE_HINT", "CORRECT", "hint"}
        /\ s \notin overtaken /\ i > 1 /\ turns[s][i].role = "user" /\ turns[s][i-1].note = "GIVE_HINT"
             => turns[s][i].note = "hint"

\* The transcript and the row agree: grades exist for exactly the questions
\* answered, and every question asked was put in a turn
\* (agents/orchestrator.py:190-289), in a session no request wrote on a stale row.
TranscriptAgrees ==
    \A s \in Sessions \ overtaken :
        LET Put == {i \in DOMAIN turns[s] : turns[s][i].role = "assistant"}
            Given == DOMAIN turns[s] \ Put
        IN /\ sessions[s].graded = {turns[s][i].question : i \in Given}
           /\ ToSet(sessions[s].asked) = {turns[s][i].question : i \in Put}
           /\ sessions[s].status = "active" =>
                /\ sessions[s].index = Last(sessions[s].asked)
                /\ Last(turns[s]).question = sessions[s].index

\* What a session's transcript claims, of help and of grades, is what happened
\* (agents/orchestrator.py:190-289, 476-485).
TranscriptSound == AssistanceHonest /\ TranscriptAgrees

\* A learner with a key never gets more attempts than max_attempts, and their
\* attempts are numbered 1, 2, ... (main.py:2988-3068), unless a request added
\* one on a count that had changed.
AttemptLimit ==
    \A l \in Learners \ (miscounted \cup {Anonymous}) :
        /\ Cardinality(AttemptsOf(l)) <= MaxAttempts
        /\ {attempts[i].number : i \in AttemptsOf(l)} = 1..Cardinality(AttemptsOf(l))

\* Slots and attempts are counted right: every slot of the gate is free or held
\* by one call, and no learner with a key gets an attempt too many
\* (rate_limit.py:65-89, main.py:2988-3068 and 3159-3190).
ExaminationSound == TypeOK /\ GateAccounted /\ AttemptLimit

\* A completed session takes no more turns and is never reopened, by any
\* request that did not commit on a stale row (agents/orchestrator.py:164-166).
CompletedIsFinal ==
    [][\A s \in Sessions :
        sessions[s].status = "completed" /\ s \notin overtaken' =>
            sessions'[s] = sessions[s] /\ turns'[s] = turns[s]]_vars
=============================================================================
