---------------------------- MODULE MCLifecycle ----------------------------
(***************************************************************************)
(* Reviewed deletions and review cases, checked in one run: every          *)
(* behaviour takes the steps of one of them.                               *)
(***************************************************************************)
EXTENDS DataSubjectRequests, ReviewCases, TLC

VARIABLE part  \* the part whose steps a behaviour takes

lifecycleVars == <<part, vars, reviewVars>>

InitAll ==
    /\ part \in {"deletion", "reviews"}
    /\ Init /\ InitReviews
    /\ part = "reviews" => ~held

NextAll ==
    /\ part' = part
    /\ \/ part = "deletion" /\ Next /\ UNCHANGED reviewVars
       \/ part = "reviews" /\ NextReviews /\ UNCHANGED vars

SpecAll == InitAll /\ [][NextAll]_lifecycleVars

\* Workers, keys and reviewers are interchangeable.  Calls on a case are the
\* same values as workers: no behaviour has both.
Interchangeable == Permutations(Workers) \cup Permutations(Keys) \cup Permutations(Reviewers)
=============================================================================
