-------------------------- MODULE AnswerAssessment --------------------------
(***************************************************************************)
(* How an answer of an interview is judged and what the report makes of    *)
(* the judgements.  The analyzer's model says of each expected point how   *)
(* far it is covered; the code reconciles that with what else the model    *)
(* says, lets a second call of the model adjudicate open questions, lowers *)
(* an answer that misses the question or repeats another one, and weighs   *)
(* the rest into a score.  The report tells a first answer from what hints *)
(* and follow-ups made of it.                                              *)
(*                                                                         *)
(* Judgements are hundredths, scores ten-thousandths of a point of the     *)
(* default scale of five.  Averages are rounded to hundredths of a point;  *)
(* halves, which floats round either way, go up.                           *)
(***************************************************************************)
EXTENDS Integers, Sequences, FiniteSets, Functions

CONSTANTS
    Criteria,    \* expected points of a question; a follow-up has one of its own
    Topics,      \* questions of the interview
    OpenTopics,  \* those of a type in OPEN_QUESTION_TYPES
    Sourced,     \* those with an excerpt of the document
    Wordings,    \* answers of 40 characters or more; two of a kind are similar
    Findings,    \* what the analyzer says of a point
    Labels,      \* correctness labels the analyzer gives
    Relevances,  \* question_relevance, in hundredths
    Marks,       \* grounding, reasoning and boundary awareness, in hundredths
    Aims,        \* objectives of the template: [weight, topics, required]
    Blends,      \* values of assisted_performance
    MaxAnswers   \* bound: answers of the session

PointStatuses == {"covered", "partial", "missing", "contradicted"}
Finding == [status : PointStatuses, match : {"equivalent", "partial", "none"},
            alternative : BOOLEAN, functional : BOOLEAN, conflict : BOOLEAN, issue : BOOLEAN]

CorrectnessValue == [supported |-> 100, partially_supported |-> 65,
                     unsupported |-> 25, insufficient |-> 10]

ASSUME AssessmentAssumption ==
    /\ Criteria # {} /\ IsFiniteSet(Criteria)
    /\ OpenTopics \subseteq Topics /\ Sourced \subseteq Topics
    /\ Findings \subseteq Finding /\ Labels \subseteq DOMAIN CorrectnessValue
    /\ Relevances \subseteq 0..100 /\ Marks \subseteq 0..100
    /\ Blends \subseteq {"ignore", "report_separately", "blend_with_independent"}
    /\ IsFiniteSet(Aims) /\ \A aim \in Aims : aim.weight \in Nat
    /\ MaxAnswers \in Nat

VARIABLES
    blend,   \* assisted_performance of the session's template
    turns,   \* the learner's turns with their evaluations, in order
    judged   \* the answer being judged

assessmentVars == <<blend, turns, judged>>

NoAnswerYet == [at |-> "none"]

InitAssessment ==
    /\ blend \in Blends
    /\ turns = <<>>
    /\ judged = NoAnswerYet

-----------------------------------------------------------------------------
(* Judging an answer *)

PointStatusValue == [covered |-> 100, partial |-> 50, missing |-> 0, contradicted |-> 0]

\* point_coverage, of points of equal weight.
Coverage(points) ==
    SumFunction([p \in DOMAIN points |-> PointStatusValue[points[p]]])
        \div Cardinality(DOMAIN points)

\* _normalize: the model said elsewhere that the criterion is met.
Credited(finding) ==
    /\ finding.status # "contradicted" /\ ~finding.conflict
    /\ \/ finding.match = "equivalent"
       \/ finding.alternative
       \/ finding.functional /\ finding.issue

Reconciled(finding) == IF Credited(finding) THEN "covered" ELSE finding.status

\* Full coverage without an error is correct, whatever the model called it.
Raised(label, points, errors) ==
    IF Coverage(points) = 100 /\ ~errors THEN "supported" ELSE label

\* expected_point_records
PointsOf(context) ==
    IF context = "followup" THEN {CHOOSE p \in Criteria : TRUE} ELSE Criteria

\* _analysis_question: the first answer to a question is to its own text, a later
\* one to a follow-up's if that was asked last, after a hint to its own again.
Contexts(topic) ==
    IF \E i \in DOMAIN turns : turns[i].topic = topic THEN {"main", "followup"} ELSE {"main"}

\* submit_answer, up to the analyzer's call.
Answering(topic, wording) ==
    /\ judged = NoAnswerYet /\ Len(turns) < MaxAnswers
    /\ \E context \in Contexts(topic) :
         judged' = [at |-> "analyzing", topic |-> topic, wording |-> wording, context |-> context]
    /\ UNCHANGED <<blend, turns>>

\* The reply breaks the contract: it is asked for once more.
Misjudged ==
    /\ judged.at = "analyzing"
    /\ judged' = [judged EXCEPT !.at = "correcting"]
    /\ UNCHANGED <<blend, turns>>

\* _normalize of a reply.
Normalized ==
    /\ judged.at \in {"analyzing", "correcting"}
    /\ \E findings \in [PointsOf(judged.context) -> Findings], label \in Labels, errors \in BOOLEAN,
          relevance \in Relevances, direct \in BOOLEAN,
          marks \in [{"grounding", "reasoning", "boundary"} -> Marks] :
         LET points == [p \in DOMAIN findings |-> Reconciled(findings[p])]
             open == judged.topic \in OpenTopics
                     /\ \E p \in DOMAIN points : points[p] \in {"partial", "missing"}
                                                 /\ ~findings[p].conflict
         IN judged' = [at |-> IF open THEN "adjudicating" ELSE "judged",
                       topic |-> judged.topic, wording |-> judged.wording,
                       context |-> judged.context, points |-> points,
                       label |-> Raised(label, points, errors), errors |-> errors,
                       relevance |-> relevance, direct |-> direct, marks |-> marks]
    /\ UNCHANGED <<blend, turns>>

\* _adjudicate_open_answer: decisions are looked up for every point, those that
\* were not asked about included; without an answer all stays as it is.
Adjudicated ==
    /\ judged.at = "adjudicating"
    /\ \E granted \in SUBSET DOMAIN judged.points :
         LET points == [p \in DOMAIN judged.points |->
                           IF p \in granted THEN "covered" ELSE judged.points[p]]
         IN judged' = [judged EXCEPT !.at = "judged", !.points = points,
                                     !.label = Raised(@, points, judged.errors)]
    /\ UNCHANGED <<blend, turns>>

-----------------------------------------------------------------------------
(* _apply_relevance_guard and the score *)

\* The history is the last six turns of both sides.
Recent == {i \in DOMAIN turns : i > Len(turns) - 3}

\* Texts shorter than 40 characters are never taken for a repetition.
Repeats(answer) ==
    /\ answer.wording \in Wordings
    /\ \E i \in Recent : turns[i].topic # answer.topic /\ turns[i].wording = answer.wording

Relevance(answer) ==
    IF Repeats(answer) /\ answer.relevance > 35 THEN 35 ELSE answer.relevance
Direct(answer) == answer.direct /\ ~Repeats(answer)

NoCap == 100

\* The normalized score cap.
Cap(answer) ==
    IF Relevance(answer) < 20 THEN 25
    ELSE IF Relevance(answer) < 40 \/ ~Direct(answer) THEN 45
    ELSE IF Relevance(answer) < 60 THEN 65 ELSE NoCap

\* A capped answer covers nothing fully and is not fully correct.
Guarded(answer) ==
    IF Cap(answer) = NoCap THEN answer
    ELSE [answer EXCEPT
            !.points = [p \in DOMAIN @ |-> IF @[p] = "covered" THEN "partial" ELSE @[p]],
            !.label = IF @ = "supported" THEN "partially_supported" ELSE @]

\* assessment_components
Component(id, answer) ==
    CASE id = "correctness" -> CorrectnessValue[answer.label]
      [] id = "coverage"    -> Coverage(answer.points)
      [] OTHER              -> answer.marks[id]

\* ASSESSMENT_WEIGHTS, and assessment_quality, which the evidence of the
\* knowledge state is made from.
ComponentWeight == [correctness |-> 35, coverage |-> 25, grounding |-> 15, reasoning |-> 15,
                    boundary |-> 10]
Quality(answer) ==
    SumFunction([id \in DOMAIN ComponentWeight |-> ComponentWeight[id] * Component(id, answer)])

\* default_assessment_policy, and the components of its dimensions.
DimensionWeight == [correctness |-> 35, completeness |-> 25, evidence_reasoning |-> 30,
                    boundary_awareness |-> 10]
ComponentsOf == [correctness |-> {"correctness"}, completeness |-> {"coverage"},
                 evidence_reasoning |-> {"grounding", "reasoning"},
                 boundary_awareness |-> {"boundary"}]

\* _dimension_value, in two-hundredths: a dimension is the mean of its components.
Dimension(id, answer) ==
    (2 * SumFunction([c \in ComponentsOf[id] |-> Component(c, answer)]))
        \div Cardinality(ComponentsOf[id])

Weighed(answer) ==
    SumFunction([id \in DOMAIN DimensionWeight |-> DimensionWeight[id] * Dimension(id, answer)])

\* evaluate_with_policy: the weighted dimensions on the scale of five, below the cap.
Score(answer, cap) ==
    LET raw == (5 * Weighed(answer)) \div 2 IN IF raw > 500 * cap THEN 500 * cap ELSE raw

\* The guard, the evaluation, and the turn with it.
Evaluated ==
    LET answer == Guarded(judged)
        cap == Cap(judged) IN
    /\ judged.at = "judged"
    /\ turns' = Append(turns, [topic |-> answer.topic, context |-> answer.context,
                               wording |-> answer.wording, cap |-> cap,
                               score |-> Score(answer, cap)])
    /\ judged' = NoAnswerYet
    /\ UNCHANGED blend

\* A model call fails, or a corrected reply breaks the contract again.
JudgingFails ==
    /\ judged.at \in {"analyzing", "correcting"}
    /\ judged' = NoAnswerYet
    /\ UNCHANGED <<blend, turns>>

NextAssessment ==
    \/ \E topic \in Topics, wording \in Wordings \cup {"brief"} : Answering(topic, wording)
    \/ Misjudged \/ Normalized \/ Adjudicated \/ Evaluated \/ JudgingFails

SpecAssessment == InitAssessment /\ [][NextAssessment]_assessmentVars

-----------------------------------------------------------------------------
(* The report of a transcript: ReportGenerator.generate *)

Minimum(set) == CHOOSE i \in set : \A j \in set : i <= j
Maximum(set) == CHOOSE i \in set : \A j \in set : i >= j

Answered(list) == {list[i].topic : i \in DOMAIN list}
AnswersTo(list, topic) == {i \in DOMAIN list : list[i].topic = topic}
Mains(list, topic) == {i \in AnswersTo(list, topic) : list[i].context = "main"}

\* Variant of Independent: the newest answer to the question itself.
IndependentNewest(list, topic) ==
    IF Mains(list, topic) = {} THEN Minimum(AnswersTo(list, topic))
                               ELSE Maximum(Mains(list, topic))

\* _trajectory
Independent(list, topic) ==
    IF Mains(list, topic) = {} THEN Minimum(AnswersTo(list, topic))
                               ELSE Minimum(Mains(list, topic))
Final(list, topic) == Maximum(AnswersTo(list, topic))

\* round(sum / count, 2) in points
Hundredths(sum, count) == 100 * ((2 * sum + 100 * count) \div (200 * count))

IndependentScore(list, topic) == Hundredths(list[Independent(list, topic)].score, 1)
AssistedScore(list, topic) == Hundredths(list[Final(list, topic)].score, 1)

\* _attempt_score, with ASSISTED_BLEND.
AttemptScore(list, topic) ==
    IF blend = "blend_with_independent"
    THEN (7 * IndependentScore(list, topic) + 3 * AssistedScore(list, topic)) \div 10
    ELSE IndependentScore(list, topic)

Average(list, topics) ==
    IF topics = {} THEN 0
    ELSE Hundredths(SumFunction([t \in topics |-> AttemptScore(list, t)]), Cardinality(topics))

\* Answers count for an objective when the evidence it requires is there.
Eligible(list, aim) ==
    {t \in Answered(list) \cap aim.topics :
        aim.required \in {"document", "document_and_answer"} => t \in Sourced}
Assessed(list) == {aim \in Aims : Eligible(list, aim) # {}}

\* computed_overall: objectives by their weight, or the questions' average.
Overall(list) ==
    LET weight == SumFunction([aim \in Assessed(list) |-> aim.weight])
        sum == SumFunction([aim \in Assessed(list) |->
                               aim.weight * Average(list, Eligible(list, aim))])
    IN IF Assessed(list) = {} THEN Average(list, Answered(list))
       ELSE IF weight = 0 THEN 0 ELSE (2 * sum + weight) \div (2 * weight)

\* Questions a strength is quoted from.
Strengths(list) == {t \in Answered(list) : AssistedScore(list, t) >= 38000}

-----------------------------------------------------------------------------
(* Properties *)

TopScore == 50000

AssessmentTypeOK ==
    /\ blend \in Blends
    /\ \A i \in DOMAIN turns : turns[i].topic \in Topics /\ turns[i].score \in 0..TopScore
    /\ judged.at \in {"none", "analyzing", "correcting", "adjudicating", "judged"}

\* What is recorded of an answer: one that misses the question, or repeats what
\* was said to another one, has no point fully covered and is not fully correct,
\* although the adjudication may just have granted all of it; a contradiction is
\* never credited by reconciling; and the score, which the evaluator weighs, is
\* what the knowledge state takes for the answer's quality, up to the cap
\* (analyzer.py:240-330, 385-425, assessment.py:200-226,
\* template_assessment.py:130-230).
AnswerJudged ==
    judged.at = "judged" =>
        LET answer == Guarded(judged)
            score == Score(answer, Cap(judged)) IN
        /\ Repeats(judged) \/ judged.relevance < 40 \/ ~judged.direct =>
             /\ \A p \in DOMAIN answer.points : answer.points[p] # "covered"
             /\ answer.label # "supported" /\ score <= 22500
        /\ Coverage(judged.points) = 100 /\ ~judged.errors => judged.label = "supported"
        /\ score <= 5 * Quality(answer)
        /\ score # 5 * Quality(answer) => score = 500 * Cap(judged)

\* Without its hints and follow-ups.
FirstAnswers(list) ==
    Restrict(list, {i \in DOMAIN list : \A j \in 1..i - 1 : list[j].topic # list[i].topic})

\* What assistance made of an answer never counts as the learner's own: the
\* overall score is that of the first answers alone, or, where the template
\* blends, within three tenths of the scale of it; an answer that repeats one
\* given to another question within the history is worth 45 in a hundred at
\* most, and no strength is quoted from it (reporter.py:36-100, 225-475).
AssistanceApart ==
    judged = NoAnswerYet =>
      /\ blend # "blend_with_independent" => Overall(turns) = Overall(FirstAnswers(turns))
      /\ blend = "blend_with_independent" =>
           /\ Overall(turns) <= Overall(FirstAnswers(turns)) + 15100
           /\ Overall(turns) >= Overall(FirstAnswers(turns)) - 15100
      /\ \A i \in DOMAIN turns :
           /\ (\E j \in DOMAIN turns : /\ j < i /\ i <= j + 3 /\ turns[j].topic # turns[i].topic
                                       /\ turns[j].wording = turns[i].wording
                                       /\ turns[i].wording \in Wordings)
                => turns[i].score <= 22500
           /\ turns[i].cap # NoCap /\ i = Final(turns, turns[i].topic)
                => turns[i].topic \notin Strengths(turns)

AssessmentSound == AssessmentTypeOK /\ AnswerJudged /\ AssistanceApart
=============================================================================
