----------------------------- MODULE ExamClient -----------------------------
(***************************************************************************)
(* The learner's page, static/exam.js, with one entry code: how it looks   *)
(* up an assignment, begins and resumes an attempt and submits answers     *)
(* over a network that loses requests and responses.                       *)
(*                                                                         *)
(* Every handler of the page is a chain of requests; between two of them   *)
(* the learner may start another handler or reload the page.  A request    *)
(* the page gave up on may still be served, at any later time.             *)
(***************************************************************************)
EXTENDS Integers, Sequences, FiniteSets, FiniteSetsExt

CONSTANTS
    Handlers,    \* handlers the page runs at the same time
    Text,        \* Text[n]: what the learner writes as the n-th answer
    Needed,      \* answers that complete an attempt
    MaxPapers,   \* bound: attempts
    MaxFailures, \* bound: requests that fail
    MaxReloads   \* bound: reloads

ASSUME ClientAssumption ==
    /\ Text \in Seq(STRING) /\ Needed \in Nat \ {0}
    /\ {MaxPapers, MaxFailures, MaxReloads} \subseteq Nat /\ IsFiniteSet(Handlers)

VARIABLES
    papers,   \* the attempts on the server: status and answers
    page,     \* what the page shows and holds
    saved,    \* the attempt in the browser's storage, or None
    storing,  \* the browser lets the page store
    flows,    \* [Handlers -> the handler's point and its request]
    strays,   \* requests the page gave up on that may still be served
    written,  \* answers the learner has written
    cleared,  \* answers whose box the page emptied
    unsure,   \* [answer -> times the page could not know it was counted]
    failed,   \* requests that failed
    excuses,  \* what may have cost the learner an attempt
    overlaps, \* a lookup and the beginning of an attempt overlapped
    reloads   \* reloads so far

clientVars == <<papers, page, saved, storing, flows, strays, written, cleared,
                unsure, failed, excuses, overlaps, reloads>>

None == 0
Papers == DOMAIN papers
Written == 1..Len(Text)

\* Both are counted no further than makes a difference.
Excuse(n) == excuses' = Min({excuses + n, MaxPapers})
Doubt(answers) ==
    unsure' = [n \in Written |->
        IF n \in answers THEN Min({unsure[n] + 1, Needed}) ELSE unsure[n]]

\* held: state.attemptId and its token; box: the answer written; log: the
\* learner's turns shown; told: the attempt the report screen calls submitted.
NewPage == [screen |-> "code", details |-> FALSE, begins |-> FALSE,
            held |-> None, box |-> None, log |-> <<>>, told |-> None]

NoReply == [is |-> "none", status |-> "none", answers |-> <<>>, paper |-> None]
Failure(is) == [NoReply EXCEPT !.is = is]
Resting == [at |-> "idle", paper |-> None, answer |-> None, conflict |-> FALSE,
         reply |-> NoReply]

InitClient ==
    /\ papers = <<>> /\ page = NewPage
    /\ saved = None /\ storing \in BOOLEAN
    /\ flows = [h \in Handlers |-> Resting] /\ strays = {}
    /\ written = 0 /\ cleared = {} /\ unsure = [n \in Written |-> 0]
    /\ failed = 0 /\ excuses = 0 /\ overlaps = FALSE /\ reloads = 0

-----------------------------------------------------------------------------
(* The server *)

Answered(paper, n) ==
    LET answers == Append(paper.answers, n)
    IN [status |-> IF Len(answers) >= Needed THEN "submitted" ELSE "in_progress",
        answers |-> answers]

Seen(a) == [is |-> "ok", status |-> papers[a].status, answers |-> papers[a].answers,
            paper |-> a]

\* What becomes of the attempts and what is replied, by the point of the handler
\* that sent the request: 404 without an attempt, 409 when its session cannot be
\* started or answered.
Served(flow) ==
    LET a == flow.paper
        after(paper) == [papers |-> [papers EXCEPT ![a] = paper],
                         reply |-> [is |-> "ok", status |-> paper.status,
                                    answers |-> paper.answers, paper |-> a]]
        same(reply) == [papers |-> papers, reply |-> reply]
    IN CASE flow.at = "viewing" -> same([NoReply EXCEPT !.is = "ok"])
         [] flow.at = "creating" ->
              [papers |-> Append(papers, [status |-> "not_started", answers |-> <<>>]),
               reply |-> [is |-> "ok", status |-> "not_started", answers |-> <<>>,
                          paper |-> Len(papers) + 1]]
         [] flow.at \notin {"viewing", "creating"} /\ a = None -> same(Failure("failed"))
         [] flow.at \in {"starting", "restarting"} /\ a # None ->
              IF papers[a].status = "not_started"
              THEN after([papers[a] EXCEPT !.status = "in_progress"])
              ELSE same(Failure("conflict"))
         [] flow.at = "answering" /\ a # None ->
              IF papers[a].status = "in_progress"
              THEN after(Answered(papers[a], flow.answer))
              ELSE same(Failure("conflict"))
         [] OTHER -> same(Seen(a))

Waiting(h) == flows[h].at # "idle" /\ flows[h].reply = NoReply

Serve(h) ==
    /\ Waiting(h)
    /\ flows[h].at = "creating" => Len(papers) < MaxPapers
    /\ papers' = Served(flows[h]).papers
    /\ flows' = [flows EXCEPT ![h].reply = Served(flows[h]).reply]
    /\ UNCHANGED <<page, saved, storing, strays, written, cleared, unsure, failed,
                   excuses, overlaps, reloads>>

Submitters == {h \in Handlers : flows[h].at \in {"answering", "reconciling"}}

\* A stray request is served after all; an answer then hides one that was just
\* counted from the page, which looks at the last.
ServeStray(s) ==
    /\ s \in strays /\ strays' = strays \ {s}
    /\ s.flow.at = "creating" => Len(papers) < MaxPapers
    /\ papers' = Served(s.flow).papers
    /\ IF s.flow.at = "answering"
       THEN Doubt({s.flow.answer} \cup {flows[h].answer : h \in Submitters})
       ELSE UNCHANGED unsure
    /\ UNCHANGED <<page, saved, storing, flows, written, cleared, failed, excuses,
                   overlaps, reloads>>

\* What is left on the network of the request of a handler, if it matters.
Stray(h, nr) ==
    IF Waiting(h) /\ flows[h].at \in {"creating", "starting", "restarting", "answering"}
    THEN {[flow |-> flows[h], nr |-> nr]} ELSE {}

\* The request is refused with nothing done (the window closed, a rate limit,
\* no model slot), or the connection fails or times out, before the request was
\* served or after.
Fails(h) ==
    /\ flows[h].at # "idle" /\ flows[h].reply.is # "failed" /\ failed < MaxFailures
    /\ failed' = failed + 1
    /\ flows' = [flows EXCEPT ![h].reply = Failure("failed")]
    /\ strays' \in {strays, strays \cup Stray(h, failed)}
    /\ UNCHANGED <<papers, page, saved, storing, written, cleared, unsure, excuses,
                   overlaps, reloads>>

-----------------------------------------------------------------------------
(* The handlers of the page *)

Reply(h) == flows[h].reply
Ok(h) == Reply(h).is = "ok"
Failing(h) == Reply(h).is \in {"failed", "conflict"}

\* Points of a handler: the next request is for the attempt the page then holds.
Asks(h, at, holder) == flows' = [flows EXCEPT ![h] =
    [@ EXCEPT !.at = at, !.paper = holder.held, !.answer = holder.box, !.reply = NoReply]]
Ends(h) == flows' = [flows EXCEPT ![h] = Resting]
Replied(h, at) == flows[h].at = at /\ flows[h].reply # NoReply

\* A failure to begin or to resume an attempt may cost it.
Excused(h) == Excuse(IF Failing(h) THEN 1 ELSE 0)

Chat(paper, log) == [page EXCEPT !.screen = "chat", !.log = log]
OpensReport(h) ==
    /\ page' = [page EXCEPT !.screen = "report"]
    /\ Asks(h, "reporting", page)

Beginning == {h \in Handlers : flows[h].at \in {"creating", "starting"}}
Resuming == {h \in Handlers : flows[h].at \in {"resuming", "restarting"}}
Overlaps == overlaps' = (overlaps \/ Beginning # {})

\* lookup: with a remembered attempt it is resumed, else the code is looked up.
Look(h) ==
    LET held == [page EXCEPT !.held = saved] IN
    /\ flows[h].at = "idle" /\ page.screen = "code"
    /\ IF saved # None THEN page' = held /\ Asks(h, "resuming", held)
                       ELSE UNCHANGED page /\ Asks(h, "viewing", page)
    /\ UNCHANGED <<papers, saved, storing, strays, written, cleared, unsure, failed,
                   excuses, overlaps, reloads>>

\* resume: any failure forgets the attempt.
Resume(h) ==
    /\ Replied(h, "resuming") \/ Replied(h, "restarting")
    /\ Excused(h) /\ Overlaps
    /\ IF Failing(h)
       THEN LET gone == [page EXCEPT !.held = None] IN
            saved' = None /\ page' = gone /\ Asks(h, "viewing", gone)
       ELSE /\ UNCHANGED saved
            /\ IF flows[h].at = "restarting" \/ Reply(h).status = "in_progress"
               THEN page' = Chat(page, Reply(h).answers) /\ Ends(h)
               ELSE IF Reply(h).status = "submitted" THEN OpensReport(h)
               ELSE UNCHANGED page /\ Asks(h, "restarting", page)
    /\ UNCHANGED <<papers, storing, strays, written, cleared, unsure, failed, reloads>>

\* The details of the assignment; its button is enabled, whatever it was
\* disabled for.
View(h) ==
    /\ Replied(h, "viewing")
    /\ page' = [page EXCEPT !.details = Ok(h), !.begins = IF Ok(h) THEN TRUE ELSE @]
    /\ Excuse(IF Beginning = {} THEN 0 ELSE 1)
    /\ Overlaps
    /\ Ends(h)
    /\ UNCHANGED <<papers, saved, storing, strays, written, cleared, unsure, failed, reloads>>

\* beginAttempt: create, remember, start.
Begin(h) ==
    /\ flows[h].at = "idle" /\ page.screen = "code" /\ page.details /\ page.begins
    /\ page' = [page EXCEPT !.begins = FALSE]
    /\ Asks(h, "creating", page)
    /\ UNCHANGED <<papers, saved, storing, strays, written, cleared, unsure, failed,
                   excuses, overlaps, reloads>>

\* Variant of Remembered: the attempt is remembered when it has started.
RememberedLate(h) == saved

Remembered(h) == IF storing THEN Reply(h).paper ELSE saved

Created(h) ==
    LET holds == [page EXCEPT !.held = Reply(h).paper] IN
    /\ Replied(h, "creating")
    /\ Excused(h) /\ overlaps' = (overlaps \/ Resuming # {})
    /\ IF Ok(h)
       THEN page' = holds /\ saved' = Remembered(h) /\ Asks(h, "starting", holds)
       ELSE page' = [page EXCEPT !.begins = TRUE] /\ UNCHANGED saved /\ Ends(h)
    /\ UNCHANGED <<papers, storing, strays, written, cleared, unsure, failed, reloads>>

Started(h) ==
    /\ Replied(h, "starting")
    /\ Excused(h)
    /\ page' = IF Ok(h) THEN [Chat(page, <<>>) EXCEPT !.begins = TRUE]
               ELSE [page EXCEPT !.begins = TRUE]
    /\ Ends(h)
    /\ UNCHANGED <<papers, saved, storing, strays, written, cleared, unsure, failed, overlaps, reloads>>

-----------------------------------------------------------------------------
(* Answers *)

Submitting == Submitters # {}

\* The learner writes an answer: again the last one when the chat shows that it
\* was not taken.
Write ==
    /\ page.screen = "chat" /\ page.box = None /\ ~Submitting
    /\ \E n \in {written, written + 1} \cap Written :
         /\ n = written => n \notin cleared /\ \A i \in DOMAIN page.log : page.log[i] # n
         /\ n # written => written = 0 \/ written \in cleared
                           \/ \E i \in DOMAIN page.log : page.log[i] = written
         /\ page' = [page EXCEPT !.box = n] /\ written' = n
    /\ UNCHANGED <<papers, saved, storing, flows, strays, cleared, unsure, failed,
                   excuses, overlaps, reloads>>

Submit(h) ==
    /\ flows[h].at = "idle" /\ page.screen = "chat" /\ page.box # None /\ ~Submitting
    /\ Asks(h, "answering", page)
    /\ UNCHANGED <<papers, page, saved, storing, strays, written, cleared, unsure, failed,
                   excuses, overlaps, reloads>>

\* The box is emptied and the turns are shown, or all of them anew.
Takes(h, log) == 
    /\ cleared' = cleared \cup {flows[h].answer}
    /\ IF Reply(h).status = "submitted"
       THEN /\ page' = [page EXCEPT !.box = None, !.log = log, !.screen = "report"]
            /\ Asks(h, "reporting", page)
       ELSE page' = [page EXCEPT !.box = None, !.log = log] /\ Ends(h)

AnswerTaken(h) ==
    /\ Replied(h, "answering") /\ Ok(h)
    /\ Takes(h, Append(page.log, flows[h].answer))
    /\ UNCHANGED <<papers, saved, storing, strays, written, unsure, failed, excuses, overlaps, reloads>>

\* After a failed request the attempt is read again.
AnswerFailed(h) ==
    /\ Replied(h, "answering") /\ Failing(h)
    /\ flows' = [flows EXCEPT ![h].at = "reconciling", ![h].paper = page.held,
                   ![h].conflict = Reply(h).is = "conflict", ![h].reply = NoReply]
    /\ UNCHANGED <<papers, page, saved, storing, strays, written, cleared, unsure, failed,
                   excuses, overlaps, reloads>>

\* Variant of Included: any answer of the learner is taken for this one.
IncludedAny(answers, n) == answers # <<>>

\* reconcile: the last answer of the attempt has the text of the answer.
Included(answers, n) == answers # <<>> /\ Text[answers[Len(answers)]] = Text[n]

Reconcile(h) ==
    LET n == flows[h].answer IN
    /\ Replied(h, "reconciling")
    /\ IF Ok(h) /\ Included(Reply(h).answers, n)
       THEN Takes(h, Reply(h).answers) /\ UNCHANGED unsure
       ELSE /\ IF flows[h].conflict THEN OpensReport(h) ELSE UNCHANGED page /\ Ends(h)
            /\ IF Ok(h) THEN UNCHANGED unsure ELSE Doubt({n})
            /\ UNCHANGED cleared
    /\ UNCHANGED <<papers, saved, storing, strays, written, failed, excuses, overlaps, reloads>>

\* openReport: without results the page says that the answers were submitted.
Report(h) ==
    /\ Replied(h, "reporting")
    /\ page' = IF Ok(h) THEN [page EXCEPT !.told = flows[h].paper] ELSE page
    /\ Ends(h)
    /\ UNCHANGED <<papers, saved, storing, strays, written, cleared, unsure, failed,
                   excuses, overlaps, reloads>>

RefreshReport(h) ==
    /\ flows[h].at = "idle" /\ page.screen = "report"
    /\ OpensReport(h)
    /\ UNCHANGED <<papers, saved, storing, strays, written, cleared, unsure, failed,
                   excuses, overlaps, reloads>>

\* The page is closed and opened again: the handlers and the answer in the box
\* are gone, and their requests are strays.
Reload ==
    /\ reloads < MaxReloads /\ reloads' = reloads + 1
    /\ page' = NewPage
    /\ flows' = [h \in Handlers |-> Resting]
    /\ strays' = strays \cup UNION {Stray(h, MaxFailures + reloads) : h \in Handlers}
    /\ Excuse(IF storing /\ \A h \in Handlers : flows[h].at # "creating" THEN 0 ELSE 1)
    /\ UNCHANGED <<papers, saved, storing, written, cleared, unsure, failed, overlaps>>

-----------------------------------------------------------------------------
Looking(h) == Look(h) \/ Resume(h) \/ View(h)
Entering(h) == Begin(h) \/ Created(h) \/ Started(h)
Answering(h) == Submit(h) \/ AnswerTaken(h) \/ AnswerFailed(h) \/ Reconcile(h)
Reporting(h) == Report(h) \/ RefreshReport(h)

NextClient ==
    \/ \E h \in Handlers : \/ Serve(h) \/ Fails(h) \/ Looking(h) \/ Entering(h)
                           \/ Answering(h) \/ Reporting(h)
    \/ \E s \in strays : ServeStray(s)
    \/ Write \/ Reload

SpecClient == InitClient /\ [][NextClient]_clientVars

-----------------------------------------------------------------------------
(* Properties *)

\* beginAttempt and resume: a learner comes back to the attempt that was begun,
\* and every further one is owed to a request to begin or resume one that failed,
\* to a page that was closed while one was created or could not store it, or to a
\* lookup that enabled the button again.
OneAttempt == Len(papers) <= 1 + excuses

Times(a, n) == Cardinality({i \in DOMAIN papers[a].answers : papers[a].answers[i] = n})

\* submitAnswer and reconcile: an answer counts twice only when the server took it
\* after the page had given up on it, took another that way while this one was
\* submitted, or when the attempt could not be read.
CountedOnce == \A a \in Papers, n \in Written : Times(a, n) <= 1 + unsure[n]

Repeats(n) == \E m \in 1..(n - 1) : Text[m] = Text[n]

\* submitAnswer and reconcile: the page empties the box only of an answer the
\* server has, unless the learner wrote the same before.
AnswersKept == \A n \in cleared : Repeats(n) \/ \E a \in Papers : Times(a, n) > 0

\* submitAnswer and openReport: whatever was refused, the page calls an attempt
\* submitted only when it is, unless it looked up one while it began another,
\* whichever came first.
ReportTold == page.told # None /\ ~overlaps => papers[page.told].status = "submitted"

\* exam.js keeps the answers and attempts of its learner.
LearnerServed == OneAttempt /\ CountedOnce /\ AnswersKept /\ ReportTold
=============================================================================
