----------------------------- MODULE VoiceClient -----------------------------
(***************************************************************************)
(* The page of a voice examination and what serves it: static/app.js opens *)
(* a microphone and a connection and passes the events of the provider on, *)
(* main.py reserves the model call and negotiates the connection (openai)  *)
(* or relays it (qwen).                                                    *)
(*                                                                         *)
(* connectVoice and endVoice wait several times; what they share is the    *)
(* state of the page.  The buttons keep two of them apart, except that a   *)
(* change of the template or the provider enables the start button.        *)
(***************************************************************************)
EXTENDS Integers, Sequences, FiniteSets

CONSTANTS
    Handlers,   \* runs of connectVoice or endVoice at the same time
    MaxVoices,  \* bound: voice sessions
    MaxToggles  \* bound: uses of the mute and push-to-talk buttons

ASSUME VoiceClientAssumption == {MaxVoices, MaxToggles} \subseteq Nat

VARIABLES
    provider,  \* the provider of the sessions
    desk,      \* the voice state of the page and its buttons
    runs,      \* [Handlers -> point of connectVoice or endVoice]
    mics,      \* the microphone streams obtained
    lines,     \* the connections to the provider
    posted,    \* the events posted: the session they came from and were posted to
    completed, \* the sessions asked to complete
    met,   \* two runs, or a run and a live session, met
    toggles    \* uses of the buttons so far

deskVars == <<provider, desk, runs, mics, lines, posted, completed, met, toggles>>

NoVoice == 0
Resting == [at |-> "rest", session |-> NoVoice]

\* ready: voiceInputReady; greeted: voiceInitialResponseSent; held: the
\* push-to-talk button is down.
Blank == [session |-> NoVoice, mic |-> NoVoice, link |-> NoVoice, ready |-> FALSE,
          greeted |-> FALSE, muted |-> FALSE, ptt |-> FALSE, held |-> FALSE,
          start |-> TRUE, tools |-> FALSE]

InitDesk ==
    /\ provider \in {"openai", "qwen"}
    /\ desk = Blank /\ runs = [r \in Handlers |-> Resting]
    /\ mics = <<>> /\ lines = <<>>
    /\ posted = {} /\ completed = {} /\ met = FALSE /\ toggles = 0

Recording == {m \in DOMAIN mics : mics[m].live}
Open == {l \in DOMAIN lines : lines[l].browser = "open"}

----------------------------------------------------------------------------
(* connectVoice *)

Quiet == \A r \in Handlers : runs[r] = Resting
Goes(r, at) == runs' = [runs EXCEPT ![r].at = at]

\* onclick of the start button.
StartVoice(r) ==
    /\ desk.start /\ runs[r] = Resting
    /\ desk' = [desk EXCEPT !.start = FALSE]
    /\ met' = (met \/ ~Quiet \/ desk.session # NoVoice)
    /\ Goes(r, "creating")
    /\ UNCHANGED <<provider, mics, lines, posted, completed, toggles>>

\* The row of a new session.
NewSession == 1 + Cardinality(
    (UNION {{lines[l].session : l \in DOMAIN lines}, {runs[r].session : r \in Handlers},
            completed, {desk.session}}) \ {NoVoice})

\* start_voice_session, and its answer.
VoiceCreated(r) ==
    /\ runs[r].at = "creating"
    /\ LET s == NewSession IN
       /\ s <= MaxVoices
       /\ desk' = [desk EXCEPT !.session = s, !.ready = FALSE, !.greeted = FALSE]
       /\ runs' = [runs EXCEPT ![r] = [at |-> "microphone", session |-> s]]
    /\ UNCHANGED <<provider, mics, lines, posted, completed, met, toggles>>

\* getUserMedia; the stream is silent, and the connection is begun.
MicrophoneOpened(r) ==
    /\ runs[r].at = "microphone"
    /\ mics' = Append(mics, [live |-> TRUE, on |-> FALSE])
    /\ lines' = Append(lines, [session |-> runs[r].session, mic |-> Len(mics) + 1,
                               browser |-> "dialing", server |-> "none",
                               call |-> "none", greetings |-> 0])
    /\ desk' = [desk EXCEPT !.mic = Len(mics) + 1, !.link = Len(lines) + 1]
    /\ runs' = [runs EXCEPT ![r].at = "dialing"]
    /\ UNCHANGED <<provider, posted, completed, met, toggles>>

LinkOf(r) == CHOOSE l \in DOMAIN lines : lines[l].session = runs[r].session

\* The socket opens when the relay accepts it, the peer when the endpoint has
\* answered its offer.
Established(r) ==
    /\ runs[r].at = "dialing" /\ lines[LinkOf(r)].browser = "dialing"
    /\ provider = "openai" => lines[LinkOf(r)].server = "up"
    /\ lines' = [lines EXCEPT ![LinkOf(r)].browser = "open"]
    /\ desk' = [desk EXCEPT !.tools = TRUE, !.start = FALSE]
    /\ runs' = [runs EXCEPT ![r] = Resting]
    /\ UNCHANGED <<provider, mics, posted, completed, met, toggles>>

\* A change of the template, or of the provider before the session is connected.
ChooseTemplate ==
    /\ ~desk.start /\ desk' = [desk EXCEPT !.start = TRUE]
    /\ UNCHANGED <<provider, runs, mics, lines, posted, completed, met, toggles>>

----------------------------------------------------------------------------
(* endVoice *)

\* Variant of Stopped: the microphone is left to the end of the session.
StoppedLater == mics

Stopped == [m \in DOMAIN mics |->
              IF m = desk.mic THEN [mics[m] EXCEPT !.live = FALSE] ELSE mics[m]]

\* Connection and microphone of the page are closed, and the session completed.
Leaves(r) ==
    /\ lines' = [l \in DOMAIN lines |->
                   IF l = desk.link THEN [lines[l] EXCEPT !.browser = "closed"] ELSE lines[l]]
    /\ mics' = Stopped
    /\ completed' = completed \cup ({desk.session} \ {NoVoice})
    /\ runs' = [runs EXCEPT ![r] = [at |-> "ending", session |-> desk.session]]

EndVoice(r) ==
    /\ desk.tools /\ runs[r] = Resting
    /\ \A q \in Handlers : runs[q].at # "ending"
    /\ Leaves(r)
    /\ met' = (met \/ ~Quiet)
    /\ UNCHANGED <<provider, desk, posted, toggles>>

\* connectVoice raises: a refusal, a timeout, a lost connection.
ConnectFails(r) ==
    /\ runs[r].at \in {"creating", "microphone", "dialing"}
    /\ Leaves(r)
    /\ UNCHANGED <<provider, desk, posted, met, toggles>>

\* The completion answered or failed: the page is reset.
VoiceEnded(r) ==
    /\ runs[r].at = "ending"
    /\ desk' = [Blank EXCEPT !.held = desk.held]
    /\ runs' = [runs EXCEPT ![r] = Resting]
    /\ UNCHANGED <<provider, mics, lines, posted, completed, met, toggles>>

----------------------------------------------------------------------------
(* The microphone *)

Enabled(on) == IF desk.mic = NoVoice THEN mics
               ELSE [mics EXCEPT ![desk.mic].on = on]

Toggling == desk.tools /\ desk.mic # NoVoice /\ toggles < MaxToggles /\ toggles' = toggles + 1

ToggleMute ==
    /\ Toggling
    /\ desk' = [desk EXCEPT !.muted = ~@]
    /\ mics' = Enabled(desk.muted /\ ~desk.ptt)
    /\ UNCHANGED <<provider, runs, lines, posted, completed, met>>

TogglePtt ==
    /\ Toggling
    /\ desk' = [desk EXCEPT !.ptt = ~@]
    /\ mics' = Enabled(desk.ptt /\ ~desk.muted)
    /\ UNCHANGED <<provider, runs, lines, posted, completed, met>>

PressPtt ==
    /\ ~desk.held /\ desk.ptt /\ Toggling
    /\ desk' = [desk EXCEPT !.held = TRUE]
    /\ mics' = Enabled(TRUE)
    /\ UNCHANGED <<provider, runs, lines, posted, completed, met>>

\* Without push-to-talk, or a stream, releasing does nothing more.
ReleasePtt ==
    /\ desk.held
    /\ desk' = [desk EXCEPT !.held = FALSE]
    /\ mics' = IF desk.ptt THEN Enabled(FALSE) ELSE mics
    /\ UNCHANGED <<provider, runs, lines, posted, completed, met, toggles>>

\* Variant of Listens: the microphone is on when it is the learner's turn.
ListensAlways == TRUE

Listens == ~desk.muted /\ ~desk.ptt

----------------------------------------------------------------------------
(* The events of the provider, from a connection that is open at both ends   *)

Speaking == {l \in Open : lines[l].server = "up"}

Told(l) == posted \cup (IF desk.session = NoVoice THEN {}
                        ELSE {[of |-> lines[l].session, to |-> desk.session]})

\* response.done: it is the learner's turn.
ResponseDone(l) ==
    /\ l \in Speaking
    /\ desk' = [desk EXCEPT !.ready = TRUE]
    /\ mics' = Enabled(Listens)
    /\ posted' = Told(l)
    /\ UNCHANGED <<provider, runs, lines, completed, met, toggles>>

\* A transcript, an interruption, an error.
Reported(l) ==
    /\ l \in Speaking
    /\ posted' = Told(l)
    /\ UNCHANGED <<provider, desk, runs, mics, lines, completed, met, toggles>>

\* Variant of Greets: every session.updated begins the examination.
GreetsAgain == TRUE

Greets == ~desk.greeted

\* The channel opens, or session.updated: sendInitialVoiceResponse, on the
\* connection of the page.
Readied(l) ==
    /\ l \in Speaking
    /\ provider = "openai" => lines[l].greetings = 0
    /\ desk' = [desk EXCEPT !.greeted = TRUE]
    /\ lines' = IF Greets /\ desk.link \in Open
                THEN [lines EXCEPT ![desk.link].greetings = IF @ < 2 THEN @ + 1 ELSE @] ELSE lines
    /\ UNCHANGED <<provider, runs, mics, posted, completed, met, toggles>>

----------------------------------------------------------------------------
(* create_voice_sdp and qwen_voice_websocket *)

Serves(l, change) ==
    /\ lines' = [lines EXCEPT ![l] = change]
    /\ UNCHANGED <<provider, desk, runs, mics, posted, completed, met, toggles>>

\* The relay accepts and closes the socket itself; a refused offer is answered.
Refuses(link) == [link EXCEPT !.server = "down", !.browser = IF provider = "qwen" THEN "closed" ELSE @]

\* _reserve_voice_connection.
ReserveCall(l) ==
    /\ lines[l].server = "none"
    /\ provider = "qwen" => lines[l].browser # "dialing"
    /\ \/ Serves(l, [lines[l] EXCEPT !.server = "calling", !.call = "reserved"])
       \/ Serves(l, [Refuses(lines[l]) EXCEPT !.call = "denied"])

\* The provider answers: the call is settled and the session marked connected.
CallSettled(l) ==
    /\ lines[l].server = "calling"
    /\ Serves(l, [lines[l] EXCEPT !.server = "up", !.call = "settled"])

\* Variant of Failed: the reservation is left.
FailedKept(link) == link

Failed(link) == [link EXCEPT !.call = "failed"]

\* The provider cannot be reached or refuses.
CallFailed(l) ==
    /\ lines[l].server = "calling"
    /\ Serves(l, Failed(Refuses(lines[l])))

\* Either end closes: both tasks of the relay end, and both connections.
RelayEnds(l) ==
    /\ lines[l].server = "up"
    /\ Serves(l, [lines[l] EXCEPT !.server = "down",
                    !.browser = IF provider = "qwen" THEN "closed" ELSE @])

----------------------------------------------------------------------------
NextDesk ==
    \/ \E r \in Handlers : \/ StartVoice(r) \/ VoiceCreated(r) \/ MicrophoneOpened(r)
                       \/ Established(r) \/ EndVoice(r) \/ ConnectFails(r) \/ VoiceEnded(r)
    \/ ChooseTemplate \/ ToggleMute \/ TogglePtt \/ PressPtt \/ ReleasePtt
    \/ \E l \in DOMAIN lines : \/ ResponseDone(l) \/ Reported(l) \/ Readied(l)
                               \/ ReserveCall(l) \/ CallSettled(l) \/ CallFailed(l) \/ RelayEnds(l)

DeskSpec == InitDesk /\ [][NextDesk]_deskVars

----------------------------------------------------------------------------
(* Properties: as long as the start button was not used while a session was  *)
(* live or a run under way.                                                  *)

\* connectVoice, endVoice: whatever fails and whenever, the page keeps no more
\* than the microphone of its session, and none when it has no session.
MicrophoneClosed ==
    /\ Recording \subseteq {desk.mic}
    /\ Quiet /\ desk.session = NoVoice => Recording = {}

\* The samples of a connection: those of a relay pass the page.
Sends(l) == /\ l \in Speaking /\ mics[lines[l].mic].live /\ mics[lines[l].mic].on
            /\ provider = "qwen" => desk.ready /\ ~desk.muted

\* The buttons and response.done: in any order of theirs, a muted learner is not
\* heard, but for the push-to-talk button.
MutedSilent == desk.muted /\ ~(desk.ptt /\ desk.held) => \A l \in Open : ~Sends(l)

\* persistVoiceEvent: an event is posted to the session it happened in.
EventsOfSession == \A event \in posted : event.of = event.to

\* sendInitialVoiceResponse: the examination begins once, however often the
\* session is updated.
BegunOnce == \A l \in DOMAIN lines : lines[l].greetings <= 1

\* Every session the page knew of is completed by the time it has none.
SessionsLeft == Quiet /\ desk.session = NoVoice =>
                  \A l \in DOMAIN lines : lines[l].session \in completed

\* The relay and the endpoint end every reservation they made.
CallsEnded == \A l \in DOMAIN lines : lines[l].server = "down" => lines[l].call # "reserved"

VoiceKept ==
    /\ CallsEnded
    /\ ~met => /\ MicrophoneClosed /\ MutedSilent /\ EventsOfSession
                   /\ BegunOnce /\ SessionsLeft
=============================================================================
