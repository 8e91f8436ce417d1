--------------------------- MODULE VoiceSession ----------------------------
(***************************************************************************)
(* A realtime voice examination: the browser connects it to the provider,  *)
(* posts its transcripts as events, and asks for its completion, which     *)
(* assesses the transcripts through the text pipeline.  The requests are   *)
(* concurrent: a completion is as many steps as it has commits and calls   *)
(* of the model, and only its claim is a conditional update.               *)
(***************************************************************************)
EXTENDS Integers, Sequences, FiniteSets

CONSTANTS
    Callers,        \* API requests in progress
    MaxTranscripts, \* bound: transcripts of the user
    MaxConnects     \* bound: connections made

VARIABLES
    voice,       \* voice_sessions row; users is metrics["user_turns"]
    exam,        \* status of the exam session
    recorded,    \* voice_events of the user
    transcript,  \* voice_transcript turns of the user: finalized, and evidence events
    callers,     \* requests in progress
    connects,    \* connections made
    reopened,    \* a connection committed over a session being finalized
    owed         \* turns the last completion had to assess

voiceVars == <<voice, exam, recorded, transcript, callers, connects, reopened, owed>>

Waiting == [op |-> "idle"]

InitVoice ==
    /\ voice = [status |-> "ready", users |-> 0, failed |-> FALSE]
    /\ exam = "created"
    /\ recorded = 0 /\ transcript = <<>>
    /\ callers = [c \in Callers |-> Waiting]
    /\ connects = 0 /\ reopened = FALSE /\ owed = {}

Step(c, call) == callers' = [callers EXCEPT ![c] = call]
Runs(c, op) == callers[c].op = op

----------------------------------------------------------------------------
(* Connecting *)

\* Neither endpoint looks at the status before it calls the provider.
BeginConnect(c) ==
    /\ Runs(c, "idle") /\ connects < MaxConnects
    /\ connects' = connects + 1
    /\ Step(c, [op |-> "connect"])
    /\ UNCHANGED <<voice, exam, recorded, transcript, reopened, owed>>

Connected(c) ==
    /\ Runs(c, "connect")
    /\ voice' = [voice EXCEPT !.status = "connected"]
    /\ exam' = "voice_active"
    /\ reopened' = (reopened \/ voice.status = "finalizing")
    /\ Step(c, Waiting)
    /\ UNCHANGED <<recorded, transcript, connects, owed>>

\* The provider refuses, or the process stops: here and in every other step.
Dies(c) ==
    /\ ~Runs(c, "idle")
    /\ Step(c, Waiting)
    /\ UNCHANGED <<voice, exam, recorded, transcript, connects, reopened, owed>>

----------------------------------------------------------------------------
(* Transcripts *)

\* record_voice_event holds the lock and refreshes the row.
RecordEvent(c) ==
    /\ Runs(c, "idle") /\ recorded < MaxTranscripts
    /\ recorded' = recorded + 1
    /\ voice' = [voice EXCEPT !.users = @ + 1]
    /\ Step(c, [op |-> "transcribe"])
    /\ UNCHANGED <<exam, transcript, connects, reopened, owed>>

\* The turn is a commit of its own.
AddTranscript(c) ==
    /\ Runs(c, "transcribe")
    /\ transcript' = Append(transcript, [finalized |-> FALSE, evidence |-> 0])
    /\ Step(c, Waiting)
    /\ UNCHANGED <<voice, exam, recorded, connects, reopened, owed>>

----------------------------------------------------------------------------
(* Completing *)

LoadCompletion(c) ==
    /\ Runs(c, "idle") /\ voice.status # "completed"
    /\ Step(c, [op |-> "claim", users |-> voice.users])
    /\ UNCHANGED <<voice, exam, recorded, transcript, connects, reopened, owed>>

\* Variant of Claimable: the status that was loaded is trusted.
ClaimableLoaded(status) == TRUE

Claimable(status) == status \notin {"finalizing", "completed"}

\* The claim writes the metrics that were loaded; a request that loses it
\* answers 202 or 200.
Claim(c) ==
    /\ Runs(c, "claim")
    /\ IF Claimable(voice.status)
       THEN /\ voice' = [voice EXCEPT !.status = "finalizing", !.users = callers[c].users]
            /\ Step(c, [callers[c] EXCEPT !.op = "mark"])
       ELSE /\ voice' = voice
            /\ Step(c, Waiting)
    /\ UNCHANGED <<exam, recorded, transcript, connects, reopened, owed>>

Unfinalized == {k \in DOMAIN transcript : ~transcript[k].finalized}

\* The exam is marked, the turns are loaded: what is left is decided here.
Mark(c) ==
    /\ Runs(c, "mark")
    /\ exam' = "voice_finalizing"
    /\ owed' = Unfinalized
    /\ Step(c, [op |-> "assess", users |-> callers[c].users, todo |-> Unfinalized])
    /\ UNCHANGED <<voice, recorded, transcript, connects, reopened>>

\* record_answer adds evidence for a unit of the question the turn has none for.
Evidenced(turn) == [finalized |-> TRUE, evidence |-> IF turn.evidence = 0 THEN 1 ELSE turn.evidence]

\* Turns are assessed in order, each in a commit of its own.
Assess(c) ==
    /\ Runs(c, "assess") /\ callers[c].todo # {}
    /\ LET k == CHOOSE k \in callers[c].todo : \A j \in callers[c].todo : k <= j IN
       /\ transcript' = [transcript EXCEPT ![k] = Evidenced(@)]
       /\ Step(c, [callers[c] EXCEPT !.todo = @ \ {k}])
    /\ UNCHANGED <<voice, exam, recorded, connects, reopened, owed>>

\* With turns left, a call of the model failed: completed all the same, marked.
Settled(users, left) == [status |-> "completed", users |-> users, failed |-> left # {}]

\* After a failure the metrics are those of the row, else those that were loaded.
Finish(c) ==
    /\ Runs(c, "assess")
    /\ voice' = Settled(IF callers[c].todo = {} THEN callers[c].users ELSE voice.users,
                        callers[c].todo)
    /\ exam' = "completed"
    /\ Step(c, Waiting)
    /\ UNCHANGED <<recorded, transcript, connects, reopened, owed>>

NextVoice ==
    \E c \in Callers :
        \/ BeginConnect(c) \/ Connected(c) \/ RecordEvent(c) \/ AddTranscript(c)
        \/ LoadCompletion(c) \/ Claim(c) \/ Mark(c) \/ Assess(c) \/ Finish(c) \/ Dies(c)

VoiceSpec == InitVoice /\ [][NextVoice]_voiceVars

----------------------------------------------------------------------------
(* Properties *)

VoiceTypeOK ==
    /\ voice.status \in {"ready", "connected", "finalizing", "completed"}
    /\ exam \in {"created", "voice_active", "voice_finalizing", "completed"}
    /\ voice.users \in 0..recorded
    /\ Len(transcript) <= recorded

Finalizers == {c \in Callers : Runs(c, "mark") \/ Runs(c, "assess")}

\* However many completions overlap, one of them finalizes, unless a connection
\* reopened the session meanwhile; every transcript leaves evidence once, even
\* then; and a session completed without a failure has assessed every turn its
\* finalizer found (main.py:6552-6633, agents/orchestrator.py:363-451).
TranscriptsSettled ==
    /\ VoiceTypeOK
    /\ Cardinality(Finalizers) <= 1 \/ reopened
    /\ \A k \in DOMAIN transcript : transcript[k].evidence <= 1
    /\ voice.status = "completed" /\ ~voice.failed /\ ~reopened =>
           \A k \in owed : transcript[k].finalized

\* The metrics count every transcript event that was recorded
\* (docs/evaluation/V0_9_REPEAT_STABILITY_REPORT_2026-07-31.md:125-146).
MetricsCountTranscripts == voice.users = recorded
=============================================================================
