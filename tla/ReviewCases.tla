---------------------------- MODULE ReviewCases ----------------------------
(***************************************************************************)
(* One human review case with its append-only events, and the data-subject *)
(* request it may have been opened for.  The case is assigned, decided and *)
(* appealed through its own endpoints, and decided through the request's.  *)
(*                                                                         *)
(* Calls load rows and commit later the columns they changed.              *)
(***************************************************************************)
EXTENDS Integers, Sequences

CONSTANTS
    Reviewers,   \* principals
    Nobody,      \* NULL
    Reviews,     \* calls in progress
    MaxRecorded  \* bound: events of the case

ASSUME ReviewAssumption == Nobody \notin Reviewers

VARIABLES
    reviewCase,  \* the row of human_review_cases
    recorded,    \* its events, in the order of their commits
    wish,        \* the row of data_subject_requests
    reviews,     \* [Reviews -> call]
    crossing     \* history: a call wrote the case on another state than it loaded

reviewVars == <<reviewCase, recorded, wish, reviews, crossing>>

NoCase == [status |-> "absent", assigned |-> Nobody, decision |-> "none", by |-> Nobody]
OpenCase == [NoCase EXCEPT !.status = "open"]
NoWish == [status |-> "absent", kind |-> "export", of |-> Nobody, decision |-> "none", by |-> Nobody]
NoReview == [op |-> "none", who |-> Nobody, whom |-> Nobody, decision |-> "none",
             seen |-> NoCase, wished |-> NoWish]

Happened(kind, who, decision) == [kind |-> kind, by |-> who, decision |-> decision]

InitReviews ==
    /\ reviewCase = NoCase /\ recorded = <<>> /\ wish = NoWish
    /\ reviews = [v \in Reviews |-> NoReview] /\ crossing = FALSE

----------------------------------------------------------------------------
(* Opening a case *)

\* create_human_review_case.
OpenReview(who) ==
    /\ reviewCase = NoCase
    /\ reviewCase' = OpenCase
    /\ recorded' = <<Happened("created", who, "none")>>
    /\ UNCHANGED <<wish, reviews, crossing>>

\* create_data_subject_request: request and case in one commit; the request is
\* looked up first, and a concurrent one with its key makes the insert fail.
AskFor(who, kind) ==
    /\ reviewCase = NoCase
    /\ wish' = [NoWish EXCEPT !.status = "requested", !.kind = kind, !.of = who]
    /\ reviewCase' = OpenCase
    /\ recorded' = <<Happened("created", who, "none")>>
    /\ UNCHANGED <<reviews, crossing>>

----------------------------------------------------------------------------
(* What calls do with it *)

\* assign, decide and appeal: who may find the case in which status, and what
\* becomes of it.
Assignable == {"open", "assigned", "appealed"}
Reviewing == {"open", "assigned", "appealed"}
Appealable == {"decided", "closed"}

Assigned(row, call) == [row EXCEPT !.assigned = call.whom, !.status = "assigned"]

Decided(row, call) ==
    [row EXCEPT !.decision = call.decision, !.by = call.who, !.status = "decided"]

\* Variant: an appeal leaves the decision in place.
AppealedOnly(row, call) == [row EXCEPT !.status = "appealed"]

Appealed(row, call) == [row EXCEPT !.status = "appealed", !.decision = "none", !.by = Nobody]

\* The endpoints load the case and refuse by its status.
LoadReview(v, op, who, whom, decision) ==
    /\ reviews[v].op = "none" /\ reviewCase # NoCase
    /\ reviewCase.status \in CASE op = "assign" -> Assignable
                               [] op = "decide" -> Reviewing
                               [] op = "appeal" -> Appealable
    /\ reviews' = [reviews EXCEPT ![v] = [NoReview EXCEPT !.op = op, !.who = who, !.whom = whom,
                                            !.decision = decision, !.seen = reviewCase]]
    /\ UNCHANGED <<reviewCase, recorded, wish, crossing>>

\* Variant: deletions are decided like exports.
ReviewableByAnyone(row, who) == row.status = "requested"

\* decide of a request: the key that decided it answers what is there, and a
\* deletion is decided by another than its requester.
Reviewable(row, who) ==
    /\ row.status = "requested"
    /\ row.kind = "delete" => who # row.of

LoadWish(v, who, decision) ==
    /\ reviews[v].op = "none" /\ wish # NoWish
    /\ Reviewable(wish, who)
    /\ reviews' = [reviews EXCEPT ![v] = [NoReview EXCEPT !.op = "find", !.who = who,
                                            !.decision = decision, !.wished = wish]]
    /\ UNCHANGED <<reviewCase, recorded, wish, crossing>>

\* Then it loads the case; one that is decided refuses the request's decision.
FindCase(v) ==
    /\ reviews[v].op = "find"
    /\ reviews' = [reviews EXCEPT ![v] = IF reviewCase.status \in Reviewing
                                         THEN [@ EXCEPT !.op = "review", !.seen = reviewCase]
                                         ELSE NoReview]
    /\ UNCHANGED <<reviewCase, recorded, wish, crossing>>

LoadWithdrawal(v, who) ==
    /\ reviews[v].op = "none" /\ wish.status \in {"requested", "approved"}
    /\ who \in {wish.of, wish.by}
    /\ reviews' = [reviews EXCEPT ![v] = [NoReview EXCEPT !.op = "cancel", !.who = who,
                                            !.wished = wish]]
    /\ UNCHANGED <<reviewCase, recorded, wish, crossing>>

\* Changed columns are written over what others committed.
Overlaid(row, loaded, new) ==
    [c \in DOMAIN row |-> IF new[c] # loaded[c] THEN new[c] ELSE row[c]]

Commits(v, new, kind) ==
    LET call == reviews[v] IN
    /\ Len(recorded) < MaxRecorded
    /\ reviewCase' = Overlaid(reviewCase, call.seen, new)
    /\ recorded' = Append(recorded, Happened(kind, call.who, call.decision))
    /\ crossing' = (crossing \/ call.seen # reviewCase)
    /\ reviews' = [reviews EXCEPT ![v] = NoReview]

CommitReview(v) ==
    LET call == reviews[v] IN
    /\ \/ call.op = "assign" /\ Commits(v, Assigned(call.seen, call), "assigned")
       \/ call.op = "decide" /\ Commits(v, Decided(call.seen, call), "decision")
       \/ call.op = "appeal" /\ Commits(v, Appealed(call.seen, call), "appeal")
    /\ UNCHANGED wish

\* The decision of a request and that of its case are one commit.
CommitWish(v) ==
    LET call == reviews[v] IN
    /\ call.op = "review"
    /\ Commits(v, Decided(call.seen, call), "decision")
    /\ wish' = Overlaid(wish, call.wished,
                 [call.wished EXCEPT !.by = call.who, !.decision = call.decision,
                                     !.status = call.decision])

CommitWithdrawal(v) ==
    LET call == reviews[v] IN
    /\ call.op = "cancel"
    /\ wish' = Overlaid(wish, call.wished,
                 [call.wished EXCEPT !.status = "cancelled", !.decision = "cancelled"])
    /\ reviews' = [reviews EXCEPT ![v] = NoReview]
    /\ UNCHANGED <<reviewCase, recorded, crossing>>

NextReviews ==
    \/ \E who \in Reviewers : OpenReview(who) \/ \E kind \in {"export", "delete"} : AskFor(who, kind)
    \/ \E v \in Reviews, who \in Reviewers :
         \/ \E whom \in Reviewers : LoadReview(v, "assign", who, whom, "none")
         \/ \E decision \in {"approved", "denied"} :
              LoadReview(v, "decide", who, Nobody, decision)
              \/ \E key \in {"k1", "k2"} : LoadWish(v, who, decision)
         \/ LoadReview(v, "appeal", who, Nobody, "none")
         \/ LoadWithdrawal(v, who)
    \/ \E v \in Reviews : FindCase(v) \/ CommitReview(v) \/ CommitWish(v) \/ CommitWithdrawal(v)

ReviewsSpec == InitReviews /\ [][NextReviews]_reviewVars

----------------------------------------------------------------------------
(* Properties *)

\* The status an event leaves a case in.
StatusAfter == [created |-> "open", assigned |-> "assigned", decision |-> "decided",
                appeal |-> "appealed"]

\* The event that has not been followed by anything but assignments.
Standing(i) ==
    /\ recorded[i].kind # "assigned"
    /\ \A j \in (i + 1)..Len(recorded) : recorded[j].kind = "assigned"

\* The append-only events of a case tell its status and its decision, and who
\* made it, unless a call wrote on a case that changed after it was loaded
\* (services/data_lifecycle.py:286-426).
EventsTell ==
    ~crossing =>
        IF recorded = <<>> THEN reviewCase = NoCase
        ELSE /\ reviewCase.status = StatusAfter[recorded[Len(recorded)].kind]
             /\ \E i \in DOMAIN recorded :
                  /\ Standing(i) /\ reviewCase.decision = recorded[i].decision
                  /\ reviewCase.by = IF recorded[i].kind = "decision" THEN recorded[i].by
                                     ELSE Nobody

\* A decision that stands was made by the person it names; and the approval of a
\* deletion by another than the one who asked for it, whoever decided, appealed
\* or withdrew at the same time (services/data_lifecycle.py:771-824).
DecidedBySomeone ==
    /\ wish.status \in {"approved", "denied"} =>
         \E i \in DOMAIN recorded :
            recorded[i] = Happened("decision", wish.by, wish.status)
    /\ wish.status = "approved" /\ wish.kind = "delete" => wish.by # wish.of
    /\ reviewCase.by # Nobody =>
         \E i \in DOMAIN recorded : recorded[i].kind = "decision" /\ recorded[i].by = reviewCase.by

ReviewsSound == EventsTell /\ DecidedBySomeone

\* Not kept: a request that waits for its review can be reviewed.  Its case may
\* have been decided through the case's own endpoint, and then only an appeal
\* lets anyone decide the request.
PendingIsReviewable == wish.status = "requested" => reviewCase.status \in Reviewing

\* Not kept: a case that is decided says what was decided.
DecidedSaysWhat == reviewCase.status = "decided" => reviewCase.decision # "none"
=============================================================================
