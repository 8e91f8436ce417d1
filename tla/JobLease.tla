------------------------------ MODULE JobLease ------------------------------
(***************************************************************************)
(* What job delivery promises about one job, whatever the broker, the      *)
(* workers and the operators do: attempts are numbered and drawn from a    *)
(* budget that only an operator retry refills; the newest attempt is the   *)
(* only one that can hold the job; a result is stored by the holder alone, *)
(* and never once a cancellation is pending.                               *)
(***************************************************************************)
EXTENDS Naturals

CONSTANT MaxAttempts

VARIABLES
    claims,     \* attempts started
    holder,     \* the attempt that holds the job, 0 for none
    left,       \* attempts left in the budget
    withdrawn,  \* a cancellation is pending
    result,     \* the attempt whose result is stored, 0 for none
    resets      \* operator retries

vars == <<claims, holder, left, withdrawn, result, resets>>

Init ==
    /\ claims = 0 /\ holder = 0 /\ result = 0 /\ resets = 0
    /\ left = MaxAttempts
    /\ withdrawn = FALSE

\* A new attempt; it takes the job from a holder that stopped renewing.
Claim ==
    /\ left > 0 /\ ~withdrawn
    /\ claims' = claims + 1
    /\ holder' = claims + 1
    /\ left' = left - 1
    /\ UNCHANGED <<withdrawn, result, resets>>

Complete ==
    /\ holder = claims /\ holder # 0 /\ ~withdrawn
    /\ result' = holder
    /\ holder' = 0
    /\ UNCHANGED <<claims, left, withdrawn, resets>>

\* The attempt failed, or its lease was taken away.
Release ==
    /\ holder' = 0
    /\ UNCHANGED <<claims, left, withdrawn, result, resets>>

Withdraw ==
    /\ withdrawn' = TRUE
    /\ UNCHANGED <<claims, holder, left, result, resets>>

\* A retry racing another request may find some of it already done.
Reset ==
    /\ resets' = resets + 1
    /\ left' \in {left, MaxAttempts}
    /\ holder' \in {holder, 0}
    /\ withdrawn' \in {withdrawn, FALSE}
    /\ UNCHANGED <<claims, result>>

Next == Claim \/ Complete \/ Release \/ Withdraw \/ Reset

Spec == Init /\ [][Next]_vars

\* At most MaxAttempts attempts per operator retry, however messages are
\* duplicated or redelivered and whoever loses its lease.
AttemptBudget == claims + left <= MaxAttempts * (resets + 1)
=============================================================================
