--------------------------- MODULE RealtimeSignals ---------------------------
(***************************************************************************)
(* One provider event stream of a voice session and the signals that       *)
(* realtime/normalizers.py makes of it.  A transport may deliver again any *)
(* event it delivered before.                                              *)
(***************************************************************************)
EXTENDS Integers, Sequences, FiniteSets

CONSTANTS
    MaxStream,  \* bound: events the provider sends
    MaxRepeats  \* bound: events delivered again

ASSUME SignalsAssumption == {MaxStream, MaxRepeats} \subseteq Nat

VARIABLES
    identified, \* the events of the provider carry an event_id
    naming,     \* what its audio carries: the response, the item, or neither
    stream,     \* the events sent
    repeats,    \* deliveries of an event delivered before
    seen,       \* _seen_provider_event_ids
    started,    \* _audio_started_responses
    active,     \* _active_response_id
    signals     \* the signals, in order

signalVars == <<identified, naming, stream, repeats, seen, started, active, signals>>

NoResponse == 0

InitSignals ==
    /\ identified \in BOOLEAN /\ naming \in {"response", "item", "neither"}
    /\ stream = <<>> /\ repeats = 0
    /\ seen = {} /\ started = {} /\ active = NoResponse /\ signals = <<>>

----------------------------------------------------------------------------
(* The provider: one response after the other, each in items of speech.     *)

Sent(kind) == {i \in DOMAIN stream : stream[i].kind = kind}
Responses == Cardinality(Sent("response.created"))
Ends == {"completed", "cancelled", "failed"}
Talking == Responses > Cardinality(UNION {Sent(kind) : kind \in Ends})

\* The kinds of the current response that were sent for an item.
SentFor(item) == {stream[i].kind : i \in {j \in DOMAIN stream :
                     stream[j].response = Responses /\ stream[j].item = item}}

Event(kind, item) == [nr |-> Len(stream) + 1, kind |-> kind, item |-> item,
    response |-> IF kind = "response.created" THEN Responses + 1
                 ELSE IF Talking THEN Responses ELSE NoResponse]

\* Events the provider may send next.
Next1 ==
    {Event("response.created", 0) : n \in IF Talking THEN {} ELSE {0}}
    \cup {Event("speech_started", 0)}
    \cup IF ~Talking THEN {} ELSE
         {Event(kind, 0) : kind \in Ends}
         \cup {Event("audio.delta", item) : item \in
                 {m \in 1..2 : "audio.done" \notin SentFor(m) /\ (m = 2 => "audio.done" \in SentFor(1))}}
         \cup {Event("audio.done", item) : item \in
                 {m \in 1..2 : "audio.delta" \in SentFor(m) /\ "audio.done" \notin SentFor(m)}}

----------------------------------------------------------------------------
(* normalize *)

\* Variant of Dropped: only the latest event is known.
DroppedLatest(event) == identified /\ event.nr \in seen /\ \A i \in seen : i <= event.nr

Dropped(event) == identified /\ event.nr \in seen

\* Variant of AudioKey: audio that names no response goes by its item.
AudioKeyByItem(event) ==
    CASE naming = "response" -> <<"response", event.response>>
      [] naming = "item"     -> <<"item", event.response, event.item>>
      [] OTHER               -> <<"active">>

\* The response the audio belongs to: the one it names, or the active one.
AudioKey(event) ==
    CASE naming = "response" -> <<"response", event.response>>
      [] naming # "response" /\ active # NoResponse -> <<"response", active>>
      [] naming = "item" /\ active = NoResponse -> <<"item", event.response, event.item>>
      [] OTHER -> <<"active">>

Type(event) ==
    CASE event.kind = "response.created" -> "RESPONSE_STARTED"
      [] event.kind = "audio.delta"      -> "AUDIO_STARTED"
      [] event.kind = "audio.done"       -> "AUDIO_COMPLETED"
      [] event.kind = "completed"        -> "RESPONSE_COMPLETED"
      [] event.kind = "cancelled"        -> "RESPONSE_CANCELLED"
      [] event.kind = "failed"           -> "PROVIDER_ERROR"
      [] OTHER                           -> "SPEECH_STARTED"

Silent(event) == event.kind = "audio.delta" /\ AudioKey(event) \in started

\* signal_id: from the event's id, or from its content and the time it came.
SignalId(event) == IF identified THEN <<event.nr>> ELSE <<event.nr, repeats'>>

Normalize(event) ==
    IF Dropped(event) THEN UNCHANGED <<seen, started, active, signals>>
    ELSE /\ seen' = IF identified THEN seen \cup {event.nr} ELSE seen
         /\ started' = IF event.kind = "audio.delta" THEN started \cup {AudioKey(event)} ELSE started
         /\ active' = CASE event.kind = "response.created" -> event.response
                        [] event.kind \in Ends -> NoResponse
                        [] OTHER -> active
         /\ signals' = IF Silent(event) THEN signals
                       ELSE Append(signals, [id |-> SignalId(event), type |-> Type(event),
                                             response |-> event.response, event |-> event.nr])

Deliver ==
    /\ Len(stream) < MaxStream
    /\ \E event \in Next1 :
         /\ stream' = Append(stream, event) /\ UNCHANGED repeats
         /\ Normalize(event)
    /\ UNCHANGED <<identified, naming>>

DeliverAgain(i) ==
    /\ repeats < MaxRepeats /\ repeats' = repeats + 1
    /\ Normalize(stream[i])
    /\ UNCHANGED <<identified, naming, stream>>

NextSignals == Deliver \/ \E i \in DOMAIN stream : DeliverAgain(i)

SignalsSpec == InitSignals /\ [][NextSignals]_signalVars

----------------------------------------------------------------------------
(* Properties *)

Of(r, type) == {i \in DOMAIN signals : signals[i].response = r /\ signals[i].type = type}
Heard(r) == \E i \in Sent("audio.delta") : stream[i].response = r

\* An event with an id is told of once, however often and late it comes again:
\* neither a signal nor its signal_id comes twice.
ToldOnce == identified =>
    \A i, j \in DOMAIN signals : i # j =>
        signals[i].id # signals[j].id /\ signals[i].event # signals[j].event

\* Every response that is heard starts its audio once, after the response and
\* before audio is complete, whether or not its audio names it and however many
\* items it has.
AudioStartsOnce == identified => \A r \in 1..Responses :
    /\ Cardinality(Of(r, "AUDIO_STARTED")) = IF Heard(r) THEN 1 ELSE 0
    /\ \A i \in Of(r, "AUDIO_STARTED") :
          /\ \E b \in Of(r, "RESPONSE_STARTED") : b < i
          /\ \A c \in Of(r, "AUDIO_COMPLETED") : i < c

\* Without event ids, audio that names its response is still not started again.
NamedStartsOnce == naming = "response" =>
    \A r \in 1..Responses : Cardinality(Of(r, "AUDIO_STARTED")) <= 1

\* Between two signals of RESPONSE_STARTED the first response ended, and no
\* response ends that did not start.
OneAtATime == identified => \A i, j \in DOMAIN signals :
    i < j /\ signals[i].type = "RESPONSE_STARTED" /\ signals[j].type = "RESPONSE_STARTED" =>
        \E k \in i..j : signals[k].response = signals[i].response /\
            signals[k].type \in {"RESPONSE_COMPLETED", "RESPONSE_CANCELLED", "PROVIDER_ERROR"}

\* The signals of a stream are those of its events, in whatever way they repeat.
SignalsSound == ToldOnce /\ AudioStartsOnce /\ NamedStartsOnce /\ OneAtATime
=============================================================================
