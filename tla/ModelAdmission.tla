--------------------------- MODULE ModelAdmission ---------------------------
(***************************************************************************)
(* Admission of model calls of one organization: the policy row, the usage *)
(* ledger, the concurrency leases of the rate limiter, and the calls that  *)
(* API and worker processes make through GovernedModelProvider.            *)
(*                                                                         *)
(* The database runs at READ COMMITTED.  A reservation locks the policy    *)
(* row, sums the settled costs and then the reserved ones in two SELECTs,  *)
(* and commits; settling a call takes no lock.                             *)
(***************************************************************************)
EXTENDS Integers, Sequences, FiniteSets, FiniteSetsExt

CONSTANTS
    Processes,     \* API and worker processes
    Threads,       \* threads of one process
    Editors,       \* administrators who may edit the policy at the same time
    Budgets,       \* monthly budgets an administrator sets; 0 is no budget
    Costs,         \* estimated and settled costs of a call
    MaxConcurrent, \* policy.max_concurrent_calls
    FailClosed,    \* MODEL_RATE_LIMIT_REQUIRED
    RedisFails,    \* a Redis call may raise, before or after it took effect
    CommitFails,   \* the commit that settles a call may raise
    MaxCalls,      \* bound: calls
    MaxEdits,      \* bound: policy edits
    MaxLost        \* bound: lost processes

ASSUME MaxConcurrentAssumption == MaxConcurrent \in Nat \ {0}
ASSUME CostAssumption == Budgets \subseteq Nat /\ Costs \subseteq Nat
ASSUME FlagAssumption == {FailClosed, RedisFails, CommitFails} \subseteq BOOLEAN
ASSUME BoundAssumption == {MaxCalls, MaxEdits, MaxLost} \subseteq Nat

VARIABLES
    policy,   \* the organization's row of organization_model_policies
    edits,    \* [Editors -> loaded policy or NoPolicy]
    ledger,   \* model_usage_ledger, in the order of insertion
    callers,  \* [Processes \X Threads -> Caller]
    shared,   \* ledger ids with a concurrency lease in Redis
    local,    \* [Processes -> ledger ids with a lease in the process's memory]
    lapsed,   \* ledger ids whose lease ran out
    asked,    \* calls so far
    lost      \* lost processes so far

vars == <<policy, edits, ledger, callers, shared, local, lapsed, asked, lost>>

-----------------------------------------------------------------------------
Profiles == {"requested", "fallback"}
Policy == [version: Nat, budget: Nat, hard: BOOLEAN, allowed: SUBSET Profiles]
NoPolicy == [version |-> 0, budget |-> 0, hard |-> FALSE, allowed |-> {}]

Entry == [status: {"reserved", "completed", "failed", "denied"},
          cost: Nat, spent: Nat, version: Nat]

Ids == 1..Len(ledger)
Reserved == {i \in Ids : ledger[i].status = "reserved"}
Settled == {i \in Ids : ledger[i].status \in {"completed", "failed"}}
ReservedCost == MapThenSumSet(LAMBDA i : ledger[i].cost, Reserved)
SettledCost == MapThenSumSet(LAMBDA i : ledger[i].spent, Settled)

Callers == Processes \X Threads
Home(c) == c[1]

\* Program points: in the process's quota lock, of those with the policy row
\* locked; with a reservation; with a concurrency lease to release.
RowPoints == {"summing", "summed"}
QuotaPoints == {"locking", "admitting", "denying"} \union RowPoints
LeasePoints == {"calling", "settling", "failing", "release", "releaseFailed"}
OwnerPoints == {"admitting", "denying", "calling", "settling", "failing"}
Points == {"idle", "candidate"} \union QuotaPoints \union LeasePoints

\* plan: the candidate profiles still to try; sum: the settled cost the
\* reservation read; limiter: where the lease was taken.
Caller == [pc: Points, plan: Seq(Profiles), sum: Nat, id: Nat, spent: Nat,
           limiter: {"none", "redis", "memory"}]
NoCall == [pc |-> "idle", plan |-> <<>>, sum |-> 0, id |-> 0, spent |-> 0,
           limiter |-> "none"]

Step(c, record) == callers' = [callers EXCEPT ![c] = record]
GoTo(c, point) == Step(c, [callers[c] EXCEPT !.pc = point])
Finish(c) == Step(c, NoCall)         \* the result is returned, or an error raised

Own(c) == ledger[callers[c].id]
Settle(c, status, spent) ==
    ledger' = [ledger EXCEPT ![callers[c].id] =
                 [@ EXCEPT !.status = status, !.spent = spent]]

TypeOK ==
    /\ policy \in Policy
    /\ edits \in [Editors -> Policy]
    /\ ledger \in Seq(Entry)
    /\ callers \in [Callers -> Caller]
    /\ \A c \in Callers : callers[c].id \in 0..Len(ledger)
    /\ shared \subseteq Ids /\ lapsed \subseteq Ids
    /\ local \in [Processes -> SUBSET Ids]
    /\ asked \in Nat /\ lost \in Nat

Init ==
    /\ policy \in {[version |-> 1, budget |-> b, hard |-> TRUE, allowed |-> Profiles] :
                     b \in Budgets}
    /\ edits = [e \in Editors |-> NoPolicy]
    /\ ledger = <<>>
    /\ callers = [c \in Callers |-> NoCall]
    /\ shared = {} /\ lapsed = {}
    /\ local = [p \in Processes |-> {}]
    /\ asked = 0 /\ lost = 0

-----------------------------------------------------------------------------
(* Reserving.                                                                *)

Entered(status, cost) ==
    ledger' = Append(ledger, [status |-> status, cost |-> cost, spent |-> 0,
                              version |-> policy.version])

\* GovernedModelProvider._call and candidates: the profiles the policy allows,
\* the requested one first; otherwise the denial is recorded.
Ask(c) ==
    /\ callers[c].pc = "idle" /\ asked < MaxCalls
    /\ asked' = asked + 1
    /\ IF "requested" \in policy.allowed
       THEN /\ \E ordered \in BOOLEAN :
                 Step(c, [NoCall EXCEPT !.pc = "candidate",
                            !.plan = IF ordered /\ "fallback" \in policy.allowed
                                     THEN <<"requested", "fallback">>
                                     ELSE <<"requested">>])
            /\ UNCHANGED ledger
       ELSE Entered("denied", 0) /\ UNCHANGED callers
    /\ UNCHANGED <<policy, edits, shared, local, lapsed, lost>>

\* reserve: the process's lock for the organization.
EnterProcess(c) ==
    /\ callers[c].pc = "candidate"
    /\ \A d \in Callers : Home(d) = Home(c) => callers[d].pc \notin QuotaPoints
    /\ GoTo(c, "locking")
    /\ UNCHANGED <<policy, edits, ledger, shared, local, lapsed, asked, lost>>

RowLocked == \E d \in Callers : callers[d].pc \in RowPoints

\* Variants: the policy row is read without FOR UPDATE, and a call waits for a
\* policy that allows its profile.
LockPolicyUnlocked(c) ==
    /\ callers[c].pc = "locking"
    /\ IF Head(callers[c].plan) \in policy.allowed
       THEN Step(c, [callers[c] EXCEPT !.pc = "summing", !.sum = SettledCost])
       ELSE Finish(c)
    /\ UNCHANGED <<policy, edits, ledger, shared, local, lapsed, asked, lost>>

LockPolicyWaiting(c) ==
    /\ callers[c].pc = "locking" /\ ~RowLocked
    /\ Head(callers[c].plan) \in policy.allowed
    /\ Step(c, [callers[c] EXCEPT !.pc = "summing", !.sum = SettledCost])
    /\ UNCHANGED <<policy, edits, ledger, shared, local, lapsed, asked, lost>>

\* SELECT ... FOR UPDATE, the policy checked again, and the first SELECT sum.
LockPolicy(c) ==
    /\ callers[c].pc = "locking" /\ ~RowLocked
    /\ IF Head(callers[c].plan) \in policy.allowed
       THEN Step(c, [callers[c] EXCEPT !.pc = "summing", !.sum = SettledCost])
       ELSE Finish(c)
    /\ UNCHANGED <<policy, edits, ledger, shared, local, lapsed, asked, lost>>

\* The second SELECT sum.
SumReserved(c) ==
    /\ callers[c].pc = "summing"
    /\ Step(c, [callers[c] EXCEPT !.pc = "summed", !.sum = @ + ReservedCost])
    /\ UNCHANGED <<policy, edits, ledger, shared, local, lapsed, asked, lost>>

OverBudget(c, cost) == policy.budget # 0 /\ callers[c].sum + cost > policy.budget

\* The decision, and the commit that frees the policy row.
Reserve(c) ==
    /\ callers[c].pc = "summed"
    /\ \E cost \in Costs \ {0} :
         IF policy.hard /\ OverBudget(c, cost)
         THEN Entered("denied", cost) /\ Finish(c)
         ELSE /\ Entered("reserved", cost)
              /\ Step(c, [callers[c] EXCEPT !.pc = "admitting", !.sum = 0,
                            !.id = Len(ledger) + 1])
    /\ UNCHANGED <<policy, edits, shared, local, lapsed, asked, lost>>

-----------------------------------------------------------------------------
(* The rate limiter.  Its window counters may refuse a call at any time.     *)

Room(leases) == Cardinality(leases) < MaxConcurrent

Admit(c) ==
    /\ callers[c].pc = "admitting"
    /\ \/ /\ Room(shared)
          /\ shared' = shared \union {callers[c].id}
          /\ Step(c, [callers[c] EXCEPT !.pc = "calling", !.limiter = "redis"])
       \/ GoTo(c, "denying") /\ UNCHANGED shared
    /\ UNCHANGED <<policy, edits, ledger, local, lapsed, asked, lost>>

\* Redis raised, perhaps after the script ran: deny, or fall back to the limiter
\* in memory, whose refusal nothing catches.
AdmitRaises(c) ==
    LET p == Home(c) IN
    /\ RedisFails
    /\ callers[c].pc = "admitting"
    /\ \/ UNCHANGED shared
       \/ Room(shared) /\ shared' = shared \union {callers[c].id}
    /\ \/ FailClosed /\ GoTo(c, "denying") /\ UNCHANGED local
       \/ /\ ~FailClosed /\ Room(local[p])
          /\ local' = [local EXCEPT ![p] = @ \union {callers[c].id}]
          /\ Step(c, [callers[c] EXCEPT !.pc = "calling", !.limiter = "memory"])
       \/ ~FailClosed /\ Finish(c) /\ UNCHANGED local
    /\ UNCHANGED <<policy, edits, ledger, lapsed, asked, lost>>

\* deny_reserved, and the error is raised.
Deny(c) ==
    /\ callers[c].pc = "denying"
    /\ Settle(c, "denied", 0)
    /\ Finish(c)
    /\ UNCHANGED <<policy, edits, shared, local, lapsed, asked, lost>>

-----------------------------------------------------------------------------
(* Calling and settling.                                                     *)

\* The provider returns, at a cost that need not be the estimate, or raises.
Call(c) ==
    /\ callers[c].pc = "calling"
    /\ \/ \E spent \in Costs :
            Step(c, [callers[c] EXCEPT !.pc = "settling", !.spent = spent])
       \/ GoTo(c, "failing")
    /\ UNCHANGED <<policy, edits, ledger, shared, local, lapsed, asked, lost>>

\* settle: its commit; the lease is released whatever becomes of it.
Complete(c) ==
    /\ callers[c].pc = "settling"
    /\ \/ Settle(c, "completed", callers[c].spent)
       \/ CommitFails /\ UNCHANGED ledger
    /\ GoTo(c, "release")
    /\ UNCHANGED <<policy, edits, shared, local, lapsed, asked, lost>>

\* Variant: a failed call costs nothing.
FailForFree(c) ==
    /\ callers[c].pc = "failing"
    /\ Settle(c, "denied", 0)
    /\ GoTo(c, "releaseFailed")
    /\ UNCHANGED <<policy, edits, shared, local, lapsed, asked, lost>>

\* fail: the reservation stays accounted; after an exception of the commit no
\* fallback is tried.
Fail(c) ==
    /\ callers[c].pc = "failing"
    /\ \/ Settle(c, "failed", Own(c).cost) /\ GoTo(c, "releaseFailed")
       \/ CommitFails /\ UNCHANGED ledger /\ GoTo(c, "release")
    /\ UNCHANGED <<policy, edits, shared, local, lapsed, asked, lost>>

NextCandidate(c) ==
    IF callers[c].pc = "releaseFailed" /\ Len(callers[c].plan) > 1
    THEN Step(c, [NoCall EXCEPT !.pc = "candidate", !.plan = Tail(callers[c].plan)])
    ELSE Finish(c)

\* Variant: the key of the organization is deleted.
ReleaseAll(c) ==
    /\ callers[c].pc \in {"release", "releaseFailed"}
    /\ shared' = {}
    /\ NextCandidate(c)
    /\ UNCHANGED <<policy, edits, ledger, local, lapsed, asked, lost>>

\* The service's own limiter is asked to release the lease, also when the lease
\* was taken in memory.
Release(c) ==
    /\ callers[c].pc \in {"release", "releaseFailed"}
    /\ shared' = shared \ {callers[c].id}
    /\ NextCandidate(c)
    /\ UNCHANGED <<policy, edits, ledger, local, lapsed, asked, lost>>

\* An exception in the finally clause replaces the result, or the provider's
\* error: the call ends here.
ReleaseRaises(c) ==
    /\ RedisFails
    /\ callers[c].pc \in {"release", "releaseFailed"}
    /\ shared' \in {shared, shared \ {callers[c].id}}
    /\ Finish(c)
    /\ UNCHANGED <<policy, edits, ledger, local, lapsed, asked, lost>>

-----------------------------------------------------------------------------
(* Administrators, time and lost processes.                                  *)

\* PUT model-policy or quota: load, and later write the columns that differ.
LoadPolicy(e) ==
    /\ edits[e] = NoPolicy /\ policy.version <= MaxEdits
    /\ edits' = [edits EXCEPT ![e] = policy]
    /\ UNCHANGED <<policy, ledger, callers, shared, local, lapsed, asked, lost>>

Column(loaded, assigned, current) == IF assigned # loaded THEN assigned ELSE current

StorePolicy(e) ==
    LET old == edits[e] IN
    /\ old # NoPolicy /\ ~RowLocked
    /\ \/ \E allowed \in SUBSET Profiles :
            policy' = [policy EXCEPT !.version = old.version + 1,
                         !.allowed = Column(old.allowed, allowed, @)]
       \/ \E budget \in Budgets, hard \in BOOLEAN :
            policy' = [policy EXCEPT !.version = old.version + 1,
                         !.budget = Column(old.budget, budget, @),
                         !.hard = Column(old.hard, hard, @)]
    /\ edits' = [edits EXCEPT ![e] = NoPolicy]
    /\ UNCHANGED <<ledger, callers, shared, local, lapsed, asked, lost>>

LeaseLapses(i) ==
    /\ \/ i \in shared /\ shared' = shared \ {i} /\ UNCHANGED local
       \/ \E p \in Processes :
            i \in local[p] /\ local' = [local EXCEPT ![p] = @ \ {i}] /\ UNCHANGED shared
    /\ lapsed' = lapsed \union {i}
    /\ UNCHANGED <<policy, edits, ledger, callers, asked, lost>>

ProcessLost(p) ==
    /\ lost < MaxLost
    /\ lost' = lost + 1
    /\ callers' = [c \in Callers |-> IF Home(c) = p THEN NoCall ELSE callers[c]]
    /\ local' = [local EXCEPT ![p] = {}]
    /\ UNCHANGED <<policy, edits, ledger, shared, lapsed, asked>>

-----------------------------------------------------------------------------
Reserving(c) == EnterProcess(c) \/ LockPolicy(c) \/ SumReserved(c) \/ Reserve(c)
Admitting(c) == Admit(c) \/ AdmitRaises(c) \/ Deny(c)
Settling(c) == Call(c) \/ Complete(c) \/ Fail(c) \/ Release(c) \/ ReleaseRaises(c)
Working(c) == Reserving(c) \/ Admitting(c) \/ Settling(c)

Next ==
    \/ \E c \in Callers : Ask(c) \/ Working(c)
    \/ \E e \in Editors : LoadPolicy(e) \/ StorePolicy(e)
    \/ \E i \in Ids : LeaseLapses(i)
    \/ \E p \in Processes : ProcessLost(p)

Spec == Init /\ [][Next]_vars

\* Calls and their database and provider requests make progress; no process has
\* to be lost, and no lease has to run out before its time.
FairSpec == Spec /\ \A c \in Callers : WF_vars(Working(c))

-----------------------------------------------------------------------------
(* Properties.                                                               *)

NewReservation(i) ==
    /\ i \in DOMAIN ledger' \ DOMAIN ledger
    /\ ledger'[i].status = "reserved"

\* reserve, section 5 of the document: reservations of API and worker processes
\* cannot add up to more than a hard budget, and each one is made under the
\* policy it names, although the policy may be edited meanwhile.
ReservedUnderPolicy ==
    [][\A i \in DOMAIN ledger' : NewReservation(i) =>
         /\ ledger'[i].version = policy.version
         /\ policy.hard /\ policy.budget # 0 => ReservedCost' <= policy.budget]_vars

\* The same with what the settled calls cost.
HardBudget ==
    [][\A i \in DOMAIN ledger' : NewReservation(i) /\ policy.hard /\ policy.budget # 0
         => SettledCost' + ReservedCost' <= policy.budget]_vars

\* acquire and release: while Redis admits the calls, at most max_concurrent_calls
\* of them hold a lease, and no call loses its own to the release of another.
OwnSlot ==
    /\ Cardinality(shared) <= MaxConcurrent
    /\ \A c \in Callers :
         callers[c].pc \in LeasePoints /\ callers[c].limiter = "redis"
         => callers[c].id \in shared \union lapsed

\* reserve, deny_reserved, settle, fail: a reservation is somebody's.  What no
\* call is going to settle would consume the budget for the rest of the month.
NoStrayReservation ==
    FailClosed /\ ~CommitFails /\ lost = 0 =>
      \A i \in Reserved : \E c \in Callers :
         callers[c].id = i /\ callers[c].pc \in OwnerPoints

\* acquire, reserve, release: types, leases and reservations, each of which is
\* the property of exactly the call that will give it back.
ReservationsOwned == TypeOK /\ OwnSlot /\ NoStrayReservation

\* settle and fail: a call that reached the provider stays accounted, and at its
\* reservation when it failed, since the provider may bill it all the same.
CallsAccounted ==
    \A c \in Callers : callers[c].pc \in LeasePoints =>
      /\ Own(c).status \in {"reserved", "completed", "failed"}
      /\ Own(c).status = "failed" => Own(c).spent >= Own(c).cost

\* settle and fail, section 6 of the document: a call that has ended, and whose
\* release raised nothing, leaves no concurrency lease behind.
LeaseReleased ==
    [][\A c \in Callers : Release(c) =>
         callers[c].id \notin shared' \union local'[Home(c)]]_vars

\* The locks of processes and of the policy row never block each other for good,
\* so a call ends in a result or an error.
CallsEnd == \A c \in Callers : callers[c].pc # "idle" ~> callers[c].pc = "idle"
=============================================================================
