--------------------------- MODULE SessionAnswers ---------------------------
(***************************************************************************)
(* The answers of a session: what it knows of a unit from them, and how    *)
(* they are judged and reported.                                           *)
(***************************************************************************)
EXTENDS KnowledgeState, AnswerAssessment

\* What the answers of a session amount to, for its knowledge state and its
\* report (cognitive.py:253-500, analyzer.py, reporter.py).
AnswersWeighed == StateMatchesEvidence /\ AssessmentSound
=============================================================================
