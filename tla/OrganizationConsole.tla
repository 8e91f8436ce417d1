------------------------- MODULE OrganizationConsole -------------------------
(***************************************************************************)
(* The console of an organization's administrators, static/enterprise.js:  *)
(* one page for all the organizations of a person, whose handlers are      *)
(* chains of requests.  Switching the organization aborts the requests on  *)
(* their way and raises the epoch by which late answers are told.          *)
(***************************************************************************)
EXTENDS Integers, Sequences, FiniteSets

CONSTANTS
    Firms,        \* the organizations
    NoFirm,       \* not one of Firms
    Desks,        \* handlers of the page that run at the same time
    LastPage,     \* pages of an organization's audit trail
    MaxEpochs,    \* bound: activations of an organization
    MaxSaves,     \* bound: model policies saved
    MaxTroubles   \* bound: requests that fail

ASSUME ConsoleAssumption ==
    /\ NoFirm \notin Firms
    /\ LastPage \in Nat \ {0} /\ {MaxEpochs, MaxSaves, MaxTroubles} \subseteq Nat

VARIABLES
    console,    \* the page: organization, epoch, context, workspace and view
    shown,      \* what each part of the page shows, and of which organization
    desks,      \* [Desks -> the handler's point, its request and the answer]
    policies,   \* on the server: [Firms -> model policy]
    decided,    \* decisions posted: the case that was shown and the one decided
    saves,      \* policies posted: whose values, to whom, loaded since the switch
    doubts,     \* what went wrong: two loads of a part met, or one failed
    troubles    \* requests that failed so far

consoleVars == <<console, shown, desks, policies, decided, saves, doubts, troubles>>

Views == {"overview", "members", "governance", "audit", "lifecycle", "reviews"}
Filters == {"any", "requested"}
Cases == Firms \X {1, 2}
NoCase == <<NoFirm, 0>>
NoList == [of |-> NoFirm, filter |-> "any"]
First == 1
NoCursor == 0

\* form: the organization and the epoch its values were loaded for.
Cleared(form) == [overview |-> NoFirm, members |-> NoFirm, reviews |-> NoFirm, requests |-> NoList,
                  detail |-> NoCase, selected |-> NoCase, events |-> <<>>, cursor |-> NoCursor, form |-> form]
NoForm == [of |-> NoFirm, epoch |-> 0, value |-> 0]

AtRest == [at |-> "rest", of |-> NoFirm, epoch |-> 0, item |-> NoCase, page |-> NoCursor,
           from |-> NoCase, filter |-> "any", answer |-> "none", value |-> 0]

InitConsole ==
    /\ console = [of |-> NoFirm, epoch |-> 0, context |-> NoFirm, visible |-> FALSE,
                  view |-> "overview", filter |-> "any"]
    /\ shown = Cleared(NoForm) /\ desks = [d \in Desks |-> AtRest]
    /\ policies = [f \in Firms |-> 0]
    /\ decided = {} /\ saves = {} /\ doubts = {} /\ troubles = 0

----------------------------------------------------------------------------
(* Requests *)

\* The request captures the organization and the epoch of the page.
Request(at) == [AtRest EXCEPT !.at = at, !.of = console.of, !.epoch = console.epoch]
Sends(d, at) == desks' = [desks EXCEPT ![d] = Request(at)]
Rests(d) == desks' = [desks EXCEPT ![d] = AtRest]

Free(d) == desks[d] = AtRest
\* The confirmation is modal: answers arrive, but nothing can be clicked.
Modal == \E d \in Desks : desks[d].at \in {"confirming", "approving"}
Clicks(d) == Free(d) /\ console.visible /\ ~Modal

Busy(points) == \E d \in Desks : desks[d].at \in points
Doubted(what, if) == doubts' = IF if THEN doubts \cup {what} ELSE doubts

Underway(d) == desks[d].at \notin {"rest", "confirming", "approving"} /\ desks[d].answer = "none"

\* The server answers; a policy is written when it does.
Answers(d) ==
    /\ Underway(d)
    /\ policies' = IF desks[d].at = "saving"
                   THEN [policies EXCEPT ![desks[d].of] = desks[d].value] ELSE policies
    /\ desks' = [desks EXCEPT ![d].answer = "ok",
                   ![d].value = IF desks[d].of \in Firms THEN policies'[desks[d].of] ELSE @]
    /\ UNCHANGED <<console, shown, decided, saves, doubts, troubles>>

\* A refusal, an error or a lost connection: the handler ends with a message.
Errs(d) ==
    /\ Underway(d) /\ desks[d].at # "overviewRest"
    /\ troubles < MaxTroubles /\ troubles' = troubles + 1
    /\ policies' \in {policies} \cup
         {[policies EXCEPT ![f] = desks[d].value] : f \in {desks[d].of} \cap
            IF desks[d].at = "saving" THEN Firms ELSE {}}
    /\ doubts' = doubts \cup
         ({CASE desks[d].at = "saving" -> "policy"
             [] desks[d].at \in {"lifecycle", "approved"} -> "requests"
             [] OTHER -> desks[d].at} \cap {"policy", "requests", "detail"})
    /\ Rests(d)
    /\ UNCHANGED <<console, shown, decided, saves>>

\* 401: showLoginRequired.  The overview goes on without what was refused.
Expired(d) ==
    /\ Underway(d)
    /\ troubles < MaxTroubles /\ troubles' = troubles + 1
    /\ console' = [console EXCEPT !.of = NoFirm, !.visible = FALSE]
    /\ IF desks[d].at = "overviewRest" THEN UNCHANGED desks ELSE Rests(d)
    /\ UNCHANGED <<shown, policies, decided, saves, doubts>>

\* Variant of Fresh: the answer is told by nothing.
FreshAlways(d) == TRUE

\* api: a late answer is told by the epoch and the organization it was asked in.
Fresh(d) == desks[d].epoch = console.epoch /\ desks[d].of = console.of

Answered(d, at) == desks[d].at = at /\ desks[d].answer = "ok" /\ Fresh(d)

\* StaleOrganizationError ends the handler, except where it is caught.
Stale(d) ==
    /\ desks[d].answer \in {"ok", "aborted"} /\ desks[d].at # "overviewRest"
    /\ desks[d].answer = "ok" => ~Fresh(d)
    /\ Rests(d)
    /\ UNCHANGED <<console, shown, policies, decided, saves, doubts, troubles>>

\* An aborted request is served after all.
ServedLate(d) ==
    /\ desks[d].at = "saving" /\ desks[d].answer = "aborted"
    /\ policies' = [policies EXCEPT ![desks[d].of] = desks[d].value]
    /\ doubts' = doubts \cup {"policy"}
    /\ Rests(d)
    /\ UNCHANGED <<console, shown, decided, saves, troubles>>

----------------------------------------------------------------------------
(* Organizations and views *)

\* activateOrganization: the requests on their way are aborted.
Activate(d, firm) ==
    /\ Free(d) /\ ~Modal /\ console.epoch < MaxEpochs
    /\ console.of = NoFirm => console.epoch = 0
    /\ desks' = [c \in Desks |->
         IF c = d THEN [AtRest EXCEPT !.at = "context", !.of = firm, !.epoch = console.epoch + 1]
         ELSE IF Underway(c) THEN [desks[c] EXCEPT !.answer = "aborted"] ELSE desks[c]]
    /\ console' = [console EXCEPT !.of = firm, !.epoch = @ + 1, !.context = NoFirm,
                                  !.visible = FALSE]
    /\ shown' = Cleared(shown.form)
    /\ UNCHANGED <<policies, decided, saves, doubts, troubles>>

\* Requests whose answers list data-subject requests.
Listing == {"lifecycle", "requests"}

\* The first request of a view's loader.
LoadView(d, view) ==
    LET at == CASE view = "governance" -> "policy" [] OTHER -> view IN
    /\ desks' = [desks EXCEPT ![d] = [Request(at) EXCEPT !.page =
                   IF view = "audit" THEN First ELSE NoCursor, !.filter = console.filter]]
    /\ shown' = IF view = "audit" THEN [shown EXCEPT !.cursor = NoCursor] ELSE shown
    /\ doubts' = doubts \cup
         (IF \/ at = "policy" /\ Busy({"policy", "saving"})
             \/ at = "audit" /\ Busy({"audit"})
          THEN {at} ELSE {})
         \cup (IF at = "lifecycle" /\ Busy(Listing) THEN {"requests"} ELSE {})

ContextAnswered(d) ==
    /\ Answered(d, "context")
    /\ console' = [console EXCEPT !.context = desks[d].of, !.visible = TRUE]
    /\ LoadView(d, console.view)
    /\ UNCHANGED <<policies, decided, saves, troubles>>

ClickView(d, view) ==
    /\ Clicks(d)
    /\ console' = [console EXCEPT !.view = view]
    /\ LoadView(d, view)
    /\ UNCHANGED <<policies, decided, saves, troubles>>

----------------------------------------------------------------------------
(* loadOverview: its second requests may each fail, and be aborted.         *)

OverviewAnswered(d) ==
    /\ Answered(d, "overview")
    /\ Sends(d, "overviewRest")
    /\ UNCHANGED <<console, shown, policies, decided, saves, doubts, troubles>>

\* Variant of Captured: answers are shown when they have all come.
CapturedAny(d) == TRUE

Captured(d) == desks[d].epoch = console.epoch

OverviewShown(d) ==
    /\ desks[d].at = "overviewRest"
    /\ shown' = IF Captured(d) THEN [shown EXCEPT !.overview = desks[d].of] ELSE shown
    /\ Rests(d)
    /\ UNCHANGED <<console, policies, decided, saves, doubts, troubles>>

----------------------------------------------------------------------------
(* Members, audit events *)

MembersShown(d) ==
    /\ Answered(d, "members")
    /\ shown' = [shown EXCEPT !.members = desks[d].of]
    /\ Rests(d)
    /\ UNCHANGED <<console, policies, decided, saves, doubts, troubles>>

\* auditNext: the next page is asked for from the cursor.
ClickNext(d) ==
    /\ Clicks(d) /\ console.view = "audit" /\ shown.cursor # NoCursor
    /\ desks' = [desks EXCEPT ![d] = [Request("audit") EXCEPT !.page = shown.cursor,
                                                              !.item = <<console.of, 1>>]]
    /\ Doubted("audit", Busy({"audit"}))
    /\ UNCHANGED <<console, shown, policies, decided, saves, troubles>>

AuditShown(d) ==
    /\ Answered(d, "audit")
    /\ LET rows == [of |-> desks[d].of, page |-> desks[d].page] IN
       shown' = [shown EXCEPT !.events = IF desks[d].item = NoCase THEN <<rows>> ELSE Append(@, rows),
                              !.cursor = IF desks[d].page < LastPage THEN desks[d].page + 1
                                         ELSE NoCursor]
    /\ Rests(d)
    /\ UNCHANGED <<console, policies, decided, saves, doubts, troubles>>

----------------------------------------------------------------------------
(* The model policy *)

PolicyShown(d) ==
    /\ Answered(d, "policy")
    /\ shown' = [shown EXCEPT !.form = [of |-> desks[d].of, epoch |-> desks[d].epoch,
                                        value |-> desks[d].value]]
    /\ Rests(d)
    /\ UNCHANGED <<console, policies, decided, saves, doubts, troubles>>

\* The form is posted, with what was changed in it, then loaded again.
SavePolicy(d) ==
    LET value == 1 + Cardinality(saves) IN
    /\ Clicks(d) /\ console.view = "governance" /\ Cardinality(saves) < MaxSaves
    /\ saves' = saves \cup {[nr |-> value, of |-> shown.form.of, to |-> console.of,
                             loaded |-> shown.form.epoch = console.epoch]}
    /\ shown' = [shown EXCEPT !.form.value = value]
    /\ desks' = [desks EXCEPT ![d] = [Request("saving") EXCEPT !.value = value]]
    /\ Doubted("policy", Busy({"policy", "saving"}))
    /\ UNCHANGED <<console, policies, decided, troubles>>

PolicySaved(d) ==
    /\ Answered(d, "saving")
    /\ LET others == \E c \in Desks \ {d} : desks[c].at \in {"policy", "saving"} IN
       Doubted("policy", others)
    /\ Sends(d, "policy")
    /\ UNCHANGED <<console, shown, policies, decided, saves, troubles>>

----------------------------------------------------------------------------
(* Data-subject requests *)

\* loadLifecycle, refreshDataRequests: the list for the filter that was set when
\* it was asked for.
RequestsShown(d) ==
    /\ Answered(d, "lifecycle") \/ Answered(d, "requests")
    /\ shown' = [shown EXCEPT !.requests = [of |-> desks[d].of, filter |-> desks[d].filter]]
    /\ Rests(d)
    /\ UNCHANGED <<console, policies, decided, saves, doubts, troubles>>

\* The filter is set and the list asked for again; no switch resets it.
ChangeFilter(d, filter) ==
    /\ Clicks(d) /\ console.view = "lifecycle" /\ filter # console.filter
    /\ console' = [console EXCEPT !.filter = filter]
    /\ desks' = [desks EXCEPT ![d] = [Request("requests") EXCEPT !.filter = filter]]
    /\ Doubted("requests", Busy(Listing))
    /\ UNCHANGED <<shown, policies, decided, saves, troubles>>

\* Approve, cancel or retry one of the list, confirmed with the request's id.
ClickRequest(d) ==
    /\ Clicks(d) /\ console.view = "lifecycle" /\ shown.requests # NoList
    /\ desks' = [desks EXCEPT ![d] = [AtRest EXCEPT !.at = "approving",
                                                    !.from = <<shown.requests.of, 1>>]]
    /\ UNCHANGED <<console, shown, policies, decided, saves, doubts, troubles>>

ConfirmRequest(d) ==
    /\ desks[d].at = "approving"
    /\ \/ Rests(d) /\ UNCHANGED decided
       \/ /\ decided' = decided \cup {[shown |-> desks[d].from, case |-> desks[d].from,
                                       of |-> console.of]}
          /\ Sends(d, "approved")
    /\ UNCHANGED <<console, shown, policies, saves, doubts, troubles>>

\* Variant of Refreshed: the list is asked for with no filter.
RefreshedAll(d) == Request("requests")

Refreshed(d) == [Request("requests") EXCEPT !.filter = console.filter]

RequestApproved(d) ==
    /\ Answered(d, "approved")
    /\ desks' = [desks EXCEPT ![d] = Refreshed(d)]
    /\ Doubted("requests", \E c \in Desks \ {d} : desks[c].at \in Listing)
    /\ UNCHANGED <<console, shown, policies, decided, saves, troubles>>

----------------------------------------------------------------------------
(* Review cases *)

\* loadReviewDetail: the case is selected before it is answered.
Selects(d, case) ==
    /\ shown' = [shown EXCEPT !.selected = case]
    /\ desks' = [desks EXCEPT ![d] = [Request("detail") EXCEPT !.item = case]]
    /\ Doubted("detail", \E c \in Desks : desks[c].at = "detail" /\ desks[c].item # case)

ClickCase(d, case) ==
    /\ Clicks(d) /\ console.view = "reviews" /\ shown.reviews = case[1]
    /\ Selects(d, case)
    /\ UNCHANGED <<console, policies, decided, saves, troubles>>

\* loadReviews: the selected case is loaded again if it is in the list.
ReviewsShown(d) ==
    /\ Answered(d, "reviews")
    /\ IF shown.selected[1] = desks[d].of
       THEN /\ desks' = [desks EXCEPT ![d] = [Request("detail") EXCEPT !.item = shown.selected]]
            /\ Doubted("detail", \E c \in Desks : desks[c].at = "detail"
                                                    /\ desks[c].item # shown.selected)
       ELSE Rests(d) /\ UNCHANGED doubts
    /\ shown' = [shown EXCEPT !.reviews = desks[d].of]
    /\ UNCHANGED <<console, policies, decided, saves, troubles>>

DetailShown(d) ==
    /\ Answered(d, "detail")
    /\ shown' = [shown EXCEPT !.detail = desks[d].item]
    /\ Rests(d)
    /\ UNCHANGED <<console, policies, decided, saves, doubts, troubles>>

\* The decision of the case shown is submitted, and confirmed or not.
SubmitDecision(d) ==
    /\ Clicks(d) /\ console.view = "reviews" /\ shown.detail # NoCase
    /\ desks' = [desks EXCEPT ![d] = [AtRest EXCEPT !.at = "confirming", !.from = shown.detail]]
    /\ Doubted("detail", Busy({"detail"}))
    /\ UNCHANGED <<console, shown, policies, decided, saves, troubles>>

\* It is posted to the selected case.
Confirm(d) ==
    /\ desks[d].at = "confirming"
    /\ \/ Rests(d) /\ UNCHANGED decided
       \/ /\ decided' = decided \cup {[shown |-> desks[d].from, case |-> shown.selected,
                                       of |-> console.of]}
          /\ Sends(d, "deciding")
    /\ UNCHANGED <<console, shown, policies, saves, doubts, troubles>>

Decided(d) ==
    /\ Answered(d, "deciding")
    /\ Sends(d, "reviews")
    /\ UNCHANGED <<console, shown, policies, decided, saves, doubts, troubles>>

----------------------------------------------------------------------------
NextConsole ==
    \/ \E d \in Desks :
         \/ Answers(d) \/ Errs(d) \/ Expired(d) \/ Stale(d) \/ ServedLate(d)
         \/ \E firm \in Firms : Activate(d, firm)
         \/ ContextAnswered(d) \/ \E view \in Views : ClickView(d, view)
         \/ OverviewAnswered(d) \/ OverviewShown(d) \/ MembersShown(d)
         \/ ClickNext(d) \/ AuditShown(d)
         \/ PolicyShown(d) \/ SavePolicy(d) \/ PolicySaved(d)
         \/ RequestsShown(d) \/ \E filter \in Filters : ChangeFilter(d, filter)
         \/ ClickRequest(d) \/ ConfirmRequest(d) \/ RequestApproved(d)
         \/ \E case \in Cases : ClickCase(d, case)
         \/ ReviewsShown(d) \/ DetailShown(d)
         \/ SubmitDecision(d) \/ Confirm(d) \/ Decided(d)

ConsoleSpec == InitConsole /\ [][NextConsole]_consoleVars

----------------------------------------------------------------------------
(* Properties *)

\* activateOrganization, api, loadOverview: however requests of two organizations
\* overlap, a page one can see shows nothing of another organization, and acts
\* with the capabilities of its own.
ShownOwn ==
    /\ console.context \in {NoFirm, console.of} \/ ~console.visible
    /\ console.visible => /\ {shown.overview, shown.members, shown.reviews,
                              shown.requests.of, shown.detail[1], shown.selected[1]} \subseteq {NoFirm, console.of}
                          /\ \A i \in DOMAIN shown.events : shown.events[i].of = console.of

\* The forms keep their values over a switch: what is saved is of the
\* organization it is saved for once the form was loaded.
SavedOwn == \A save \in saves : save.loaded => save.of = save.to

\* loadGovernance: at rest the form shows the policy of the organization, unless
\* two requests for it met or one failed.
FormTold ==
    /\ \A d \in Desks : Free(d)
    /\ console.visible /\ shown.form.epoch = console.epoch /\ "policy" \notin doubts
    => shown.form.value = policies[console.of]

\* loadAudit: the events shown are the first pages of the trail, each once, unless
\* two loads met.
EventsOnce == "audit" \in doubts \/ \A i \in DOMAIN shown.events : shown.events[i].page = i

\* refreshDataRequests: at rest the list is that of the filter shown above it, unless
\* two loads of it met or one failed.
RequestsTold ==
    /\ \A d \in Desks : Free(d)
    /\ console.visible /\ shown.requests # NoList /\ "requests" \notin doubts
    => shown.requests.filter = console.filter

\* A decision is posted for the case the administrator saw, of the organization
\* unless signed out, unless one was being loaded when it was submitted, two were
\* loaded at the same time, or one could not be.
DecidedShown ==
    "detail" \in doubts \/ \A d \in decided : d.case = d.shown /\ d.of \in {d.case[1], NoFirm}

\* The console shows and changes what it says it does.
ConsoleSound == ShownOwn /\ SavedOwn /\ FormTold /\ EventsOnce /\ RequestsTold /\ DecidedShown
=============================================================================
