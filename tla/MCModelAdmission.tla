-------------------------- MODULE MCModelAdmission --------------------------
EXTENDS ModelAdmission, TLC

Symmetry == Permutations(Processes) \union Permutations(Threads)
              \union Permutations(Editors)

\* A behaviour has an edit of the policy or a lost process, not both: the calls
\* that a lost process leaves behind are settled by nobody, whatever the policy.
OneTrouble == lost' > 0 => policy'.version = 1 /\ \A e \in Editors : edits'[e] = NoPolicy

FaultSpec == Init /\ [][Next /\ OneTrouble]_vars /\ \A c \in Callers : WF_vars(Working(c))
=============================================================================
