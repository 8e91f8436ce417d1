--------------------------- MODULE KnowledgeState ---------------------------
(***************************************************************************)
(* What an examination session knows of one knowledge unit: each answer    *)
(* adds an evidence event and folds it into the running state, a rebuild   *)
(* folds the events again, and a subject's summary is read off the events  *)
(* alone.  An answer folds the state it read, then waits for the           *)
(* interviewer's model, then commits both.                                 *)
(*                                                                         *)
(* Observations are hundredths, weights are twentieths; the mastery of the *)
(* code is mass / weight.                                                  *)
(***************************************************************************)
EXTENDS Integers, Sequences, FiniteSets, Functions

CONSTANTS
    Answers,         \* answers being processed
    Qualities,       \* assessment_quality of an answer, in hundredths
    Weights,         \* mapping weight times analyzer confidence, in twentieths
    Misconceptions,  \* errors the analyzer can report
    MaxEvidence      \* bound: evidence events of the session, those in progress included

ASSUME KnowledgeAssumption ==
    /\ Qualities \subseteq 0..100 /\ Weights \subseteq 0..20 /\ MaxEvidence \in Nat

VARIABLES
    evidence,   \* knowledge_evidence_events of the session and the unit, in order
    knowledge,  \* knowledge_states row
    answers,    \* answers being processed: the event, the state they read
    contended   \* an answer was folded into a state that changed before its commit

knowledgeVars == <<evidence, knowledge, answers, contended>>

Unknown == [mass |-> 0, weight |-> 0, count |-> 0, correct |-> 0,
            notions |-> [m \in Misconceptions |-> "none"]]
NoAnswer == [read |-> Unknown]

InitKnowledge ==
    /\ evidence = <<>> /\ knowledge = Unknown
    /\ answers = [a \in Answers |-> NoAnswer]
    /\ contended = FALSE

----------------------------------------------------------------------------
(* One observation *)

Penalty == [direct |-> 0, followup |-> 10, hint |-> 20, correction |-> 30]

\* Variant of Observation: assistance counts for the learner.
ObservationHelped(quality, assistance) == quality + Penalty[assistance]

Observation(quality, assistance) ==
    IF quality < Penalty[assistance] THEN 0 ELSE quality - Penalty[assistance]
EvidenceWeight(weight) == IF weight < 1 THEN 1 ELSE weight

\* Variant of Clears: an answer with another error clears the old ones.
ClearsAnyway(state, observation, errors) == observation >= 80 /\ state.count + 1 >= 2

\* A clean, good answer that is not the first one clears what was active.
Clears(state, observation, errors) ==
    errors = {} /\ observation >= 80 /\ state.count + 1 >= 2

\* _update_misconceptions
Notions(state, observation, errors) ==
    [m \in Misconceptions |->
        IF Clears(state, observation, errors) /\ (state.notions[m] = "active" \/ m \in errors)
        THEN "resolved"
        ELSE IF m \in errors THEN "active" ELSE state.notions[m]]

Resolved(state, observation, errors) ==
    {m \in Misconceptions : state.notions[m] = "active" /\ Clears(state, observation, errors)}

CappedFirst(observation) == IF observation > 85 THEN 85 ELSE observation

\* _apply_observation: a first observation shows 0.85 at most.
Mass(state, observation, weight) ==
    IF state.count = 0 THEN CappedFirst(observation) * weight
                       ELSE state.mass + observation * weight

Applied(state, event) ==
    [mass |-> Mass(state, event.observation, event.weight),
     weight |-> state.weight + event.weight,
     count |-> state.count + 1,
     correct |-> state.correct + (IF event.observation >= 70 THEN 1 ELSE 0),
     notions |-> Notions(state, event.observation, event.errors)]

----------------------------------------------------------------------------

\* record_answer, after the analyzer and the evaluator answered.
Analyzed(a) ==
    \E quality \in Qualities, assistance \in DOMAIN Penalty, weight \in Weights,
       errors \in SUBSET Misconceptions :
        LET observation == Observation(quality, assistance) IN
        /\ answers[a] = NoAnswer
        /\ Len(evidence) + Cardinality({b \in Answers : answers[b] # NoAnswer}) < MaxEvidence
        /\ answers' = [answers EXCEPT ![a] =
              [read |-> knowledge,
               event |-> [observation |-> observation, weight |-> EvidenceWeight(weight),
                          errors |-> errors, resolved |-> Resolved(knowledge, observation, errors)]]]
        /\ UNCHANGED <<evidence, knowledge, contended>>

\* submit_answer commits; the row of a state is inserted once
\* (uq_session_knowledge_state).
Committed(a) ==
    LET answer == answers[a] IN
    /\ answer # NoAnswer /\ (answer.read = Unknown => knowledge = Unknown)
    /\ evidence' = Append(evidence, answer.event)
    /\ knowledge' = Applied(answer.read, answer.event)
    /\ contended' = (contended \/ answer.read # knowledge)
    /\ answers' = [answers EXCEPT ![a] = NoAnswer]

\* The model or the insert fails, and the request with it.
AnswerLost(a) ==
    /\ answers[a] # NoAnswer
    /\ answers' = [answers EXCEPT ![a] = NoAnswer]
    /\ UNCHANGED <<evidence, knowledge, contended>>

\* The state after each number of events.
Folded ==
    LET state[n \in 0..Len(evidence)] ==
          IF n = 0 THEN Unknown ELSE Applied(state[n - 1], evidence[n])
    IN state

\* rebuild deletes the state and folds the events again.
RebuildKnowledge ==
    /\ evidence # <<>>
    /\ knowledge' = Folded[Len(evidence)]
    /\ UNCHANGED <<evidence, answers, contended>>

NextKnowledge ==
    \/ \E a \in Answers : Analyzed(a) \/ Committed(a) \/ AnswerLost(a)
    \/ RebuildKnowledge

SpecKnowledge == InitKnowledge /\ [][NextKnowledge]_knowledgeVars

----------------------------------------------------------------------------
(* Properties *)

KnowledgeTypeOK ==
    /\ knowledge.mass \in 0..(100 * knowledge.weight)
    /\ knowledge.count <= Len(evidence)
    /\ \A m \in Misconceptions : knowledge.notions[m] \in {"none", "active", "resolved"}

Clean(k) == evidence[k].errors = {} /\ evidence[k].observation >= 80

\* _subject_aggregates: what the events say, without the state.
Summarized(m) ==
    LET Seen == {k \in DOMAIN evidence : m \in evidence[k].errors}
        Cleared == {k \in DOMAIN evidence : m \in evidence[k].resolved} IN
    IF Seen = {} THEN "none"
    ELSE IF \E k \in Cleared : \A j \in Seen : j < k THEN "resolved" ELSE "active"

\* The running state is what the whole session's evidence amounts to: the
\* weighted sum of its observations, the first of them capped; a misconception
\* is active exactly when no clean answer of 0.80 or more followed its last
\* error, and the subject's summary, which reads the events only, says the
\* same.  Answers that overlapped may lose it (cognitive.py:253-338, 411-500).
StateMatchesEvidence ==
    /\ KnowledgeTypeOK
    /\ ~contended =>
        /\ knowledge.count = Len(evidence)
        /\ knowledge.weight = SumFunction([k \in DOMAIN evidence |-> evidence[k].weight])
        /\ knowledge.mass = SumFunction([k \in DOMAIN evidence |-> evidence[k].weight *
              (IF k = 1 THEN CappedFirst(evidence[k].observation) ELSE evidence[k].observation)])
        /\ knowledge.correct = Cardinality({k \in DOMAIN evidence : evidence[k].observation >= 70})
        /\ \A m \in Misconceptions :
             LET Erred == {k \in DOMAIN evidence : m \in evidence[k].errors}
                 Mended == \E j \in DOMAIN evidence : Clean(j) /\ \A k \in Erred : k < j IN
             /\ knowledge.notions[m] = IF Erred = {} THEN "none"
                                       ELSE IF Mended THEN "resolved" ELSE "active"
             /\ Summarized(m) = knowledge.notions[m]
=============================================================================
