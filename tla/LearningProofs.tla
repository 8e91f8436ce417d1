--------------------------- MODULE LearningProofs ---------------------------
(***************************************************************************)
(* Proofs about a realtime voice examination: its transcripts are assessed *)
(* once and by one request, however its requests interleave (VoiceSession),*)
(* the page it is held on leaves no microphone, session or reservation of  *)
(* a call behind (VoiceClient), and the signals of its provider's events   *)
(* are the same however often an event comes again (RealtimeSignals); and  *)
(* about what a learner's examinations leave behind: the long-term memory, *)
(* its retests and its deletion (LearnerMemory), and what is known,        *)
(* recorded and reported of the answers (KnowledgeState, AnswerAssessment).*)
(***************************************************************************)
EXTENDS VoiceSession, VoiceClient, RealtimeSignals, LearnerMemory, SessionAnswers,
        FiniteSetTheorems, SequenceTheorems, TLAPS

----------------------------------------------------------------------------
(* The inductive invariant *)

Turn == [finalized : BOOLEAN, evidence : {0, 1}]
Brief == [op : {"idle", "connect", "transcribe"}]
Claiming == [op : {"claim", "mark"}, users : Nat]
Assessing == [op : {"assess"}, users : Nat, todo : SUBSET Nat]

VoiceTyped ==
    /\ voice \in [status : {"ready", "connected", "finalizing", "completed"},
                  users : Nat, failed : BOOLEAN]
    /\ exam \in {"created", "voice_active", "voice_finalizing", "completed"}
    /\ recorded \in Nat /\ transcript \in Seq(Turn)
    /\ callers \in [Callers -> Brief \cup Claiming \cup Assessing]
    /\ reopened \in BOOLEAN /\ owed \subseteq DOMAIN transcript

\* What is counted was recorded, also where a completion had loaded the count.
UsersRecorded ==
    /\ voice.users <= recorded
    /\ \A c \in Callers : callers[c] \notin Brief => callers[c].users <= recorded

\* Every turn, and every turn about to be added, has an event.
Transcribing == {c \in Callers : Runs(c, "transcribe")}
TurnsRecorded ==
    IsFiniteSet(Transcribing) /\ Len(transcript) + Cardinality(Transcribing) <= recorded

\* The row says that it is being finalized as long as somebody does.
OneFinalizes ==
    ~reopened => /\ Finalizers # {} => voice.status = "finalizing"
                 /\ \A c, d \in Finalizers : c = d

\* What its finalizer owes is finalized, or still before it.
OwedAssessed ==
    ~reopened =>
        /\ \A c \in Callers : Runs(c, "assess") =>
             \A k \in owed : transcript[k].finalized \/ k \in callers[c].todo
        /\ voice.status = "completed" /\ ~voice.failed =>
             \A k \in owed : transcript[k].finalized

VoiceHeld == VoiceTyped /\ UsersRecorded /\ TurnsRecorded /\ OneFinalizes /\ OwedAssessed

LEMMA VoiceStarts == ASSUME InitVoice PROVE VoiceHeld
<1> USE DEF InitVoice, Waiting
<1>1. Transcribing = {} /\ Finalizers = {}
  BY DEF Transcribing, Finalizers, Runs
<1>2. IsFiniteSet({}) /\ Cardinality({}) = 0
  BY FS_EmptySet
<1>3. \A c \in Callers : callers[c] \in Brief
  BY DEF Brief
<1>4. <<>> \in Seq(Turn) /\ Len(<<>>) = 0
  OBVIOUS
<1>5. VoiceTyped
  BY <1>3, <1>4 DEF VoiceTyped
<1> QED
  BY <1>1, <1>2, <1>3, <1>4, <1>5
     DEF VoiceHeld, UsersRecorded, TurnsRecorded, OneFinalizes, OwedAssessed

----------------------------------------------------------------------------
(* What a step of one request does to the sets of requests *)

LEMMA Stepped ==
    ASSUME VoiceTyped, NEW c \in Callers, NEW call, Step(c, call)
    PROVE  /\ callers'[c] = call
           /\ \A d \in Callers \ {c} : callers'[d] = callers[d]
           /\ call \in Brief \cup Claiming \cup Assessing =>
                callers' \in [Callers -> Brief \cup Claiming \cup Assessing]
           /\ Transcribing' = IF call.op = "transcribe" THEN Transcribing \cup {c}
                              ELSE Transcribing \ {c}
           /\ Finalizers' = IF call.op \in {"mark", "assess"} THEN Finalizers \cup {c}
                            ELSE Finalizers \ {c}
<1>1. callers' = [callers EXCEPT ![c] = call] /\ DOMAIN callers = Callers
  BY DEF Step, VoiceTyped
<1>2. callers'[c] = call /\ \A d \in Callers \ {c} : callers'[d] = callers[d]
  BY <1>1
<1>3. call \in Brief \cup Claiming \cup Assessing =>
        callers' \in [Callers -> Brief \cup Claiming \cup Assessing]
  BY <1>1 DEF VoiceTyped
<1>4. Transcribing' = {d \in Callers : callers'[d].op = "transcribe"}
      /\ Finalizers' = {d \in Callers : callers'[d].op = "mark" \/ callers'[d].op = "assess"}
  BY DEF Transcribing, Finalizers, Runs
<1>5. Transcribing' = IF call.op = "transcribe" THEN Transcribing \cup {c} ELSE Transcribing \ {c}
  BY <1>2, <1>4 DEF Transcribing, Runs
<1>6. Finalizers' = IF call.op \in {"mark", "assess"} THEN Finalizers \cup {c}
                    ELSE Finalizers \ {c}
  BY <1>2, <1>4 DEF Finalizers, Runs
<1> QED BY <1>2, <1>3, <1>5, <1>6

\* A request that is no longer, or was never, about to add a turn.
LEMMA TurnsStay ==
    ASSUME VoiceHeld, NEW c \in Callers, Transcribing' = Transcribing \ {c},
           UNCHANGED <<recorded, transcript>>
    PROVE  TurnsRecorded'
<1>1. /\ IsFiniteSet(Transcribing \ {c}) /\ Cardinality(Transcribing) \in Nat
      /\ Cardinality(Transcribing \ {c}) \in Nat
      /\ Cardinality(Transcribing \ {c}) <= Cardinality(Transcribing)
  <2>1. IsFiniteSet(Transcribing)
    BY DEF VoiceHeld, TurnsRecorded
  <2> HIDE DEF Transcribing
  <2>2. /\ IsFiniteSet(Transcribing \ {c})
        /\ Cardinality(Transcribing \ {c}) = IF c \in Transcribing
             THEN Cardinality(Transcribing) - 1 ELSE Cardinality(Transcribing)
    BY <2>1, FS_RemoveElement, ZenonT(30)
  <2>3. Cardinality(Transcribing) \in Nat /\ Cardinality(Transcribing \ {c}) \in Nat
    BY <2>1, <2>2, FS_CardinalityType
  <2> QED BY <2>2, <2>3
<1>2. Len(transcript) \in Nat /\ recorded \in Nat
  BY DEF VoiceHeld, VoiceTyped
<1> QED BY <1>1, <1>2 DEF VoiceHeld, TurnsRecorded

\* A request that neither was nor becomes a finalizer, or ceases to be one.
LEMMA FinalizersShrink ==
    ASSUME VoiceHeld, NEW c \in Callers, NEW call, Step(c, call),
           call.op \in {"idle", "connect", "transcribe", "claim"},
           reopened' \/ (~reopened /\ voice'.status = voice.status
                                   /\ voice'.failed = voice.failed),
           owed' = owed, transcript' = transcript
    PROVE  OneFinalizes' /\ OwedAssessed'
<1> USE DEF VoiceHeld
<1>1. /\ Finalizers' = Finalizers \ {c} /\ callers'[c] = call
      /\ \A d \in Callers \ {c} : callers'[d] = callers[d]
  BY Stepped
<1>2. CASE reopened'
  BY <1>2 DEF OneFinalizes, OwedAssessed
<1>3. CASE ~reopened /\ voice'.status = voice.status /\ voice'.failed = voice.failed
  <2>1. OneFinalizes'
    BY <1>1, <1>3 DEF OneFinalizes
  <2>2. \A d \in Callers : Runs(d, "assess")' => callers'[d] = callers[d] /\ Runs(d, "assess")
    <3>1. ~Runs(c, "assess")'
      BY <1>1 DEF Runs
    <3>2. \A d \in Callers \ {c} : Runs(d, "assess")' => Runs(d, "assess")
      BY <1>1 DEF Runs
    <3> QED BY <1>1, <3>1, <3>2
  <2>3. UNCHANGED <<transcript, owed>>
    OBVIOUS
  <2>4. OwedAssessed'
    BY <1>3, <2>2, <2>3 DEF OwedAssessed
  <2> QED BY <2>1, <2>4
<1> QED BY <1>2, <1>3

----------------------------------------------------------------------------
(* Every step keeps the invariant *)

LEMMA ConnectsKeep ==
    ASSUME VoiceHeld, NEW c \in Callers, BeginConnect(c) \/ Dies(c) \/ LoadCompletion(c)
    PROVE  VoiceHeld'
<1> USE DEF VoiceHeld
<1>1. UNCHANGED <<voice, exam, recorded, transcript, reopened, owed>>
  BY DEF BeginConnect, Dies, LoadCompletion
<1>2. PICK call \in Brief \cup Claiming :
        /\ Step(c, call) /\ call.op \in {"idle", "connect", "claim"}
        /\ call \notin Brief => call.users = voice.users
  <2>1. CASE BeginConnect(c)
    <3>1. [op |-> "connect"] \in Brief
      BY DEF Brief
    <3> QED BY <2>1, <3>1 DEF BeginConnect
  <2>2. CASE Dies(c)
    <3>1. Waiting \in Brief /\ Waiting.op = "idle"
      BY DEF Brief, Waiting
    <3> QED BY <2>2, <3>1 DEF Dies
  <2>3. CASE LoadCompletion(c)
    <3>1. [op |-> "claim", users |-> voice.users] \in Claiming
      BY DEF Claiming, VoiceTyped
    <3> QED BY <2>3, <3>1 DEF LoadCompletion
  <2> QED BY <2>1, <2>2, <2>3
<1>3. VoiceTyped'
  BY <1>1, <1>2, Stepped DEF VoiceTyped
<1>4. UsersRecorded'
  BY <1>1, <1>2, Stepped DEF UsersRecorded
<1>5. TurnsRecorded'
  BY <1>1, <1>2, Stepped, TurnsStay
<1>6. OneFinalizes' /\ OwedAssessed'
  <2>1. reopened \in BOOLEAN
    BY DEF VoiceTyped
  <2> QED BY <1>1, <1>2, <2>1, FinalizersShrink
<1> QED BY <1>3, <1>4, <1>5, <1>6

LEMMA ConnectedKeeps ==
    ASSUME VoiceHeld, NEW c \in Callers, Connected(c)
    PROVE  VoiceHeld'
<1> USE DEF VoiceHeld
<1>1. /\ Step(c, Waiting) /\ Waiting \in Brief /\ Waiting.op = "idle"
      /\ UNCHANGED <<recorded, transcript, owed>>
  BY DEF Connected, Waiting, Brief
<1>2. /\ voice' = [voice EXCEPT !.status = "connected"]
      /\ exam' = "voice_active" /\ reopened' = (reopened \/ voice.status = "finalizing")
  BY DEF Connected
<1>3. VoiceTyped'
  BY <1>1, <1>2, Stepped DEF VoiceTyped
<1>4. UsersRecorded'
  BY <1>1, <1>2, Stepped DEF UsersRecorded, VoiceTyped
<1>5. TurnsRecorded'
  BY <1>1, Stepped, TurnsStay
<1>6. OneFinalizes' /\ OwedAssessed'
  <2>1. CASE reopened'
    BY <2>1 DEF OneFinalizes, OwedAssessed
  <2>2. CASE ~reopened'
    <3>1. Finalizers = {}
      BY <1>2, <2>2 DEF OneFinalizes
    <3>2. Finalizers' = {} /\ voice'.status = "connected"
      BY <1>1, <1>2, <3>1, Stepped DEF VoiceTyped
    <3>3. \A d \in Callers : ~Runs(d, "assess")'
      BY <3>2 DEF Finalizers
    <3> QED BY <3>2, <3>3 DEF OneFinalizes, OwedAssessed
  <2> QED BY <2>1, <2>2
<1> QED BY <1>3, <1>4, <1>5, <1>6

LEMMA TranscriptsKeep ==
    ASSUME VoiceHeld, NEW c \in Callers, RecordEvent(c) \/ AddTranscript(c)
    PROVE  VoiceHeld'
<1> USE DEF VoiceHeld
<1>0. recorded \in Nat /\ Len(transcript) \in Nat /\ voice.users \in Nat
      /\ Cardinality(Transcribing) \in Nat
  BY FS_CardinalityType DEF VoiceTyped, TurnsRecorded
<1>1. CASE RecordEvent(c)
  <2>1. /\ Step(c, [op |-> "transcribe"]) /\ [op |-> "transcribe"] \in Brief
        /\ recorded' = recorded + 1 /\ voice' = [voice EXCEPT !.users = @ + 1]
        /\ UNCHANGED <<exam, transcript, reopened, owed>> /\ callers[c].op = "idle"
    BY <1>1 DEF RecordEvent, Brief, Runs
  <2>2. VoiceTyped'
    BY <1>0, <2>1, Stepped DEF VoiceTyped
  <2>3. UsersRecorded'
    <3>1. \A d \in Callers : callers[d] \notin Brief => callers[d].users \in Nat
      BY DEF VoiceTyped, Claiming, Assessing
    <3>2. voice'.users = voice.users + 1
      BY <2>1 DEF VoiceTyped
    <3>3. voice'.users <= recorded'
      BY <1>0, <2>1, <3>2 DEF UsersRecorded
    <3>4. ASSUME NEW d \in Callers, callers'[d] \notin Brief PROVE callers'[d].users <= recorded'
      <4>1. callers'[d] = callers[d]
        BY <2>1, <3>4, Stepped
      <4> QED BY <1>0, <2>1, <3>1, <3>4, <4>1 DEF UsersRecorded
    <3> QED BY <3>3, <3>4 DEF UsersRecorded
  <2>4. TurnsRecorded'
    <3>1. Transcribing' = Transcribing \cup {c} /\ c \notin Transcribing
      BY <2>1, Stepped DEF Transcribing, Runs
    <3>2. IsFiniteSet(Transcribing') /\ Cardinality(Transcribing') = Cardinality(Transcribing) + 1
      BY <3>1, FS_AddElement DEF TurnsRecorded
    <3> QED BY <1>0, <2>1, <3>2 DEF TurnsRecorded
  <2>5. OneFinalizes' /\ OwedAssessed'
    <3>1. reopened \in BOOLEAN /\ voice'.status = voice.status /\ voice'.failed = voice.failed
      BY <2>1 DEF VoiceTyped
    <3> QED BY <2>1, <3>1, FinalizersShrink
  <2> QED BY <2>2, <2>3, <2>4, <2>5
<1>2. CASE AddTranscript(c)
  <2> DEFINE turn == [finalized |-> FALSE, evidence |-> 0]
  <2>1. /\ Step(c, Waiting) /\ Waiting \in Brief /\ Waiting.op = "idle"
        /\ transcript' = Append(transcript, turn) /\ turn \in Turn
        /\ UNCHANGED <<voice, exam, recorded, reopened, owed>> /\ callers[c].op = "transcribe"
    BY <1>2 DEF AddTranscript, Waiting, Brief, Runs, Turn
  <2> HIDE DEF turn
  <2>2. /\ transcript' \in Seq(Turn) /\ Len(transcript') = Len(transcript) + 1
        /\ DOMAIN transcript = 1..Len(transcript) /\ DOMAIN transcript' = 1..Len(transcript')
        /\ \A k \in DOMAIN transcript : transcript'[k] = transcript[k]
    BY <2>1, AppendProperties DEF VoiceTyped
  <2>3. VoiceTyped'
    <3>1. owed' \subseteq DOMAIN transcript'
      BY <1>0, <2>1, <2>2 DEF VoiceTyped
    <3> QED BY <2>1, <2>2, <3>1, Stepped DEF VoiceTyped
  <2>4. UsersRecorded'
    BY <2>1, Stepped DEF UsersRecorded
  <2>5. TurnsRecorded'
    <3>1. Transcribing' = Transcribing \ {c} /\ c \in Transcribing
      BY <2>1, Stepped DEF Transcribing, Runs
    <3>2. IsFiniteSet(Transcribing') /\ Cardinality(Transcribing') = Cardinality(Transcribing) - 1
      BY <3>1, FS_RemoveElement DEF TurnsRecorded
    <3> QED BY <1>0, <2>1, <2>2, <3>2 DEF TurnsRecorded
  <2>6. OneFinalizes'
    BY <2>1, Stepped DEF OneFinalizes
  <2>7. OwedAssessed'
    <3>1. \A k \in owed' : k \in owed /\ transcript'[k] = transcript[k]
      BY <2>1, <2>2 DEF VoiceTyped
    <3>2. \A d \in Callers : Runs(d, "assess")' => callers'[d] = callers[d] /\ Runs(d, "assess")
      BY <2>1, Stepped DEF Runs
    <3> QED BY <2>1, <3>1, <3>2 DEF OwedAssessed
  <2> QED BY <2>3, <2>4, <2>5, <2>6, <2>7
<1> QED BY <1>1, <1>2

LEMMA ClaimKeeps ==
    ASSUME VoiceHeld, NEW c \in Callers, Claim(c)
    PROVE  VoiceHeld'
<1> USE DEF VoiceHeld
<1>1. /\ callers[c].op = "claim" /\ callers[c] \in Claiming /\ callers[c] \notin Brief
      /\ UNCHANGED <<exam, recorded, transcript, reopened, owed>>
  BY DEF Claim, Runs, VoiceTyped, Brief, Assessing
<1>2. CASE Claimable(voice.status)
  <2> DEFINE call == [callers[c] EXCEPT !.op = "mark"]
  <2>1. /\ call \in Claiming /\ call.op = "mark" /\ call.users = callers[c].users
        /\ call.users \in Nat
    BY <1>1 DEF Claiming
  <2>2. /\ voice' = [voice EXCEPT !.status = "finalizing", !.users = callers[c].users]
        /\ Step(c, call)
    BY <1>2 DEF Claim
  <2> HIDE DEF call
  <2>3. voice'.status = "finalizing" /\ voice'.users = call.users
    BY <2>1, <2>2 DEF VoiceTyped
  <2>4. VoiceTyped'
    <3>1. voice' \in [status : {"ready", "connected", "finalizing", "completed"},
                      users : Nat, failed : BOOLEAN]
      BY <2>1, <2>2 DEF VoiceTyped
    <3> QED BY <1>1, <2>1, <2>2, <3>1, Stepped DEF VoiceTyped
  <2>5. UsersRecorded'
    BY <1>1, <2>1, <2>2, <2>3, Stepped DEF UsersRecorded
  <2>6. TurnsRecorded'
    BY <1>1, <2>1, <2>2, Stepped, TurnsStay
  <2>7. OneFinalizes'
    <3>1. Finalizers' = Finalizers \cup {c}
      BY <2>1, <2>2, Stepped
    <3>2. ~reopened => Finalizers = {}
      BY <1>2 DEF Claimable, OneFinalizes
    <3> QED BY <1>1, <2>3, <3>1, <3>2 DEF OneFinalizes
  <2>8. OwedAssessed'
    <3>1. \A d \in Callers : Runs(d, "assess")' => callers'[d] = callers[d] /\ Runs(d, "assess")
      BY <2>1, <2>2, Stepped DEF Runs
    <3> QED BY <1>1, <2>3, <3>1 DEF OwedAssessed
  <2> QED BY <2>4, <2>5, <2>6, <2>7, <2>8
<1>3. CASE ~Claimable(voice.status)
  <2>1. Step(c, Waiting) /\ Waiting \in Brief /\ Waiting.op = "idle" /\ voice' = voice
    BY <1>3 DEF Claim, Waiting, Brief
  <2>2. VoiceTyped'
    BY <1>1, <2>1, Stepped DEF VoiceTyped
  <2>3. UsersRecorded'
    BY <1>1, <2>1, Stepped DEF UsersRecorded
  <2>4. TurnsRecorded'
    BY <1>1, <2>1, Stepped, TurnsStay
  <2>5. OneFinalizes' /\ OwedAssessed'
    <3>1. reopened \in BOOLEAN
      BY DEF VoiceTyped
    <3> QED BY <1>1, <2>1, <3>1, FinalizersShrink
  <2> QED BY <2>2, <2>3, <2>4, <2>5
<1> QED BY <1>2, <1>3

LEMMA MarkKeeps ==
    ASSUME VoiceHeld, NEW c \in Callers, Mark(c)
    PROVE  VoiceHeld'
<1> USE DEF VoiceHeld
<1> DEFINE call == [op |-> "assess", users |-> callers[c].users, todo |-> Unfinalized]
<1>1. /\ callers[c].op = "mark" /\ callers[c] \in Claiming /\ callers[c] \notin Brief
      /\ UNCHANGED <<voice, recorded, transcript, reopened>>
      /\ exam' = "voice_finalizing" /\ owed' = Unfinalized /\ Step(c, call)
  BY DEF Mark, Runs, VoiceTyped, Brief, Assessing
<1>2. Unfinalized \subseteq DOMAIN transcript /\ DOMAIN transcript \subseteq Nat
  BY DEF Unfinalized, VoiceTyped
<1>3. /\ call \in Assessing /\ call.op = "assess" /\ call.users = callers[c].users
      /\ call.todo = Unfinalized
  BY <1>1, <1>2 DEF Assessing, Claiming
<1> HIDE DEF call
<1>4. VoiceTyped'
  BY <1>1, <1>2, <1>3, Stepped DEF VoiceTyped
<1>5. UsersRecorded'
  BY <1>1, <1>3, Stepped DEF UsersRecorded
<1>6. TurnsRecorded'
  BY <1>1, <1>3, Stepped, TurnsStay
<1>7. c \in Finalizers /\ Finalizers' = Finalizers
  BY <1>1, <1>3, Stepped DEF Finalizers, Runs
<1>8. OneFinalizes'
  BY <1>1, <1>7 DEF OneFinalizes
<1>9. OwedAssessed'
  <2>1. ~reopened => voice.status = "finalizing" /\ \A d \in Finalizers : d = c
    BY <1>7 DEF OneFinalizes
  <2>2. \A d \in Callers : Runs(d, "assess")' => d \in Finalizers
    BY <1>7 DEF Finalizers
  <2>3. callers'[c].todo = owed'
    BY <1>1, <1>3, Stepped
  <2> QED BY <1>1, <2>1, <2>2, <2>3 DEF OwedAssessed
<1> QED BY <1>4, <1>5, <1>6, <1>8, <1>9

LEMMA AssessKeeps ==
    ASSUME VoiceHeld, NEW c \in Callers, Assess(c)
    PROVE  VoiceHeld'
<1> USE DEF VoiceHeld
<1> PICK k : /\ transcript' = [transcript EXCEPT ![k] = Evidenced(@)]
             /\ Step(c, [callers[c] EXCEPT !.todo = @ \ {k}])
  BY DEF Assess
<1> DEFINE call == [callers[c] EXCEPT !.todo = @ \ {k}]
<1>1. /\ callers[c].op = "assess" /\ callers[c] \in Assessing /\ callers[c] \notin Brief
      /\ UNCHANGED <<voice, exam, recorded, reopened, owed>>
  BY DEF Assess, Runs, VoiceTyped, Brief, Claiming
<1>2. /\ call \in Assessing /\ call.op = "assess" /\ call.users = callers[c].users
      /\ call.todo = callers[c].todo \ {k}
  BY <1>1 DEF Assessing
<1>3. Step(c, call)
  OBVIOUS
<1> HIDE DEF call
<1>4. \A turn \in Turn : Evidenced(turn) \in Turn /\ Evidenced(turn).finalized
  BY DEF Evidenced, Turn
<1>5. /\ transcript' \in Seq(Turn) /\ Len(transcript') = Len(transcript)
      /\ DOMAIN transcript' = DOMAIN transcript
      /\ \A j \in DOMAIN transcript : transcript[j].finalized => transcript'[j].finalized
      /\ k \in DOMAIN transcript => transcript'[k].finalized
  <2>1. transcript \in Seq(Turn) /\ \A j \in DOMAIN transcript : transcript[j] \in Turn
    BY DEF VoiceTyped
  <2>2. CASE k \in DOMAIN transcript
    <3>1. transcript' \in Seq(Turn) /\ Len(transcript') = Len(transcript)
      BY <1>4, <2>1, <2>2, ExceptSeq
    <3>2. DOMAIN transcript' = DOMAIN transcript
      OBVIOUS
    <3>3. /\ transcript'[k] = Evidenced(transcript[k])
          /\ \A j \in DOMAIN transcript \ {k} : transcript'[j] = transcript[j]
      BY <2>2
    <3> QED BY <1>4, <2>1, <2>2, <3>1, <3>2, <3>3
  <2>3. CASE k \notin DOMAIN transcript
    <3>1. transcript' = transcript
      BY <2>1, <2>3
    <3> QED BY <2>1, <2>3, <3>1
  <2> QED BY <2>2, <2>3
<1>6. VoiceTyped'
  BY <1>1, <1>2, <1>3, <1>5, Stepped DEF VoiceTyped
<1>7. UsersRecorded'
  BY <1>1, <1>2, <1>3, Stepped DEF UsersRecorded
<1>8. TurnsRecorded'
  <2>1. Transcribing' = Transcribing
    BY <1>1, <1>2, <1>3, Stepped DEF Transcribing, Runs
  <2> QED BY <1>1, <1>5, <2>1 DEF TurnsRecorded
<1>9. OneFinalizes'
  <2>1. Finalizers' = Finalizers
    BY <1>1, <1>2, <1>3, Stepped DEF Finalizers, Runs
  <2> QED BY <1>1, <2>1 DEF OneFinalizes
<1>10. OwedAssessed'
  <2>1. \A j \in owed : j \in DOMAIN transcript
    BY DEF VoiceTyped
  <2>2. ASSUME ~reopened, NEW d \in Callers, Runs(d, "assess")', NEW j \in owed
        PROVE  transcript'[j].finalized \/ j \in callers'[d].todo
    <3>1. CASE d = c
      BY <1>1, <1>2, <1>3, <1>5, <2>1, <2>2, <3>1, Stepped DEF OwedAssessed, Runs
    <3>2. CASE d # c
      <4>1. callers'[d] = callers[d]
        BY <1>3, <3>2, Stepped
      <4> QED BY <1>5, <2>1, <2>2, <4>1 DEF OwedAssessed, Runs
    <3> QED BY <3>1, <3>2
  <2> QED BY <1>1, <1>5, <2>1, <2>2 DEF OwedAssessed
<1> QED BY <1>6, <1>7, <1>8, <1>9, <1>10

LEMMA FinishKeeps ==
    ASSUME VoiceHeld, NEW c \in Callers, Finish(c)
    PROVE  VoiceHeld'
<1> USE DEF VoiceHeld
<1>1. /\ callers[c].op = "assess" /\ callers[c] \in Assessing /\ callers[c] \notin Brief
      /\ UNCHANGED <<recorded, transcript, reopened, owed>> /\ exam' = "completed"
      /\ Step(c, Waiting) /\ Waiting \in Brief /\ Waiting.op = "idle"
  BY DEF Finish, Runs, VoiceTyped, Brief, Claiming, Waiting
<1>2. PICK users \in Nat : /\ users <= recorded
                           /\ voice' = Settled(users, callers[c].todo)
  <2>1. callers[c].users \in Nat /\ voice.users \in Nat
        /\ callers[c].users <= recorded /\ voice.users <= recorded
    BY <1>1 DEF Assessing, VoiceTyped, UsersRecorded
  <2>2. CASE callers[c].todo = {}
    BY <2>1, <2>2 DEF Finish
  <2>3. CASE callers[c].todo # {}
    BY <2>1, <2>3 DEF Finish
  <2> QED BY <2>2, <2>3
<1>3. /\ voice' \in [status : {"ready", "connected", "finalizing", "completed"},
                     users : Nat, failed : BOOLEAN]
      /\ voice'.users = users /\ voice'.failed = (callers[c].todo # {})
  BY <1>2 DEF Settled
<1>4. VoiceTyped'
  BY <1>1, <1>3, Stepped DEF VoiceTyped
<1>5. UsersRecorded'
  BY <1>1, <1>2, <1>3, Stepped DEF UsersRecorded
<1>6. TurnsRecorded'
  BY <1>1, Stepped, TurnsStay
<1>7. ~reopened => Finalizers' = {}
  <2>1. c \in Finalizers /\ Finalizers' = Finalizers \ {c}
    BY <1>1, Stepped DEF Finalizers, Runs
  <2> QED BY <2>1 DEF OneFinalizes
<1>8. OneFinalizes'
  BY <1>1, <1>7 DEF OneFinalizes
<1>9. OwedAssessed'
  <2>1. ~reopened => \A d \in Callers : ~Runs(d, "assess")'
    BY <1>7 DEF Finalizers
  <2>2. ~reopened /\ ~voice'.failed => \A j \in owed : transcript[j].finalized
    BY <1>1, <1>3 DEF OwedAssessed, Runs
  <2> QED BY <1>1, <2>1, <2>2 DEF OwedAssessed
<1> QED BY <1>4, <1>5, <1>6, <1>8, <1>9

\* The invariant: what the requests of a voice session have still to do, and what
\* of it the row tells the others (main.py:6552-6633).
THEOREM VoiceInvariant == VoiceSpec => []VoiceHeld
<1>1. VoiceHeld /\ [NextVoice]_voiceVars => VoiceHeld'
  <2> SUFFICES ASSUME VoiceHeld, [NextVoice]_voiceVars PROVE VoiceHeld'
    OBVIOUS
  <2>1. CASE UNCHANGED voiceVars
    BY <2>1 DEF voiceVars, VoiceHeld, VoiceTyped, UsersRecorded, TurnsRecorded, Transcribing,
                OneFinalizes, Finalizers, OwedAssessed, Runs
  <2>2. CASE NextVoice
    BY <2>2, ConnectsKeep, ConnectedKeeps, TranscriptsKeep, ClaimKeeps, MarkKeeps, AssessKeeps,
       FinishKeeps DEF NextVoice
  <2> QED BY <2>1, <2>2
<1> QED BY <1>1, VoiceStarts, PTL DEF VoiceSpec

\* However many requests, transcripts and connections there are, one finalizes
\* and nothing it had to assess is left out (main.py:6552-6633,
\* agents/orchestrator.py:363-451).
THEOREM TranscriptsAreSettled == VoiceSpec => []TranscriptsSettled
<1>1. VoiceHeld => TranscriptsSettled
  <2> SUFFICES ASSUME VoiceHeld PROVE TranscriptsSettled
    OBVIOUS
  <2> USE DEF VoiceHeld
  <2>1. VoiceTypeOK
    <3>1. Cardinality(Transcribing) \in Nat
      BY FS_CardinalityType DEF TurnsRecorded
    <3>2. Len(transcript) \in Nat /\ recorded \in Nat /\ voice.users \in Nat
      BY DEF VoiceTyped
    <3>3. Len(transcript) <= recorded
      BY <3>1, <3>2 DEF TurnsRecorded
    <3> QED BY <3>2, <3>3 DEF VoiceTypeOK, VoiceTyped, UsersRecorded
  <2>2. Cardinality(Finalizers) <= 1 \/ reopened
    <3>1. CASE Finalizers = {}
      BY <3>1, FS_EmptySet
    <3>2. CASE ~reopened /\ Finalizers # {}
      <4>1. PICK c \in Finalizers : Finalizers = {c}
        BY <3>2 DEF OneFinalizes
      <4> QED BY <4>1, FS_Singleton
    <3> QED BY <3>1, <3>2
  <2>3. \A k \in DOMAIN transcript : transcript[k].evidence <= 1
    <3>1. \A k \in DOMAIN transcript : transcript[k] \in Turn
      BY DEF VoiceTyped
    <3> QED BY <3>1 DEF Turn
  <2> QED BY <2>1, <2>2, <2>3 DEF TranscriptsSettled, OwedAssessed
<1> QED BY <1>1, VoiceInvariant, PTL

----------------------------------------------------------------------------
(* The page of a voice examination: the inductive invariant *)

Voice == [session : Nat, mic : Nat, link : Nat, ready : BOOLEAN, greeted : BOOLEAN,
          muted : BOOLEAN, ptt : BOOLEAN, held : BOOLEAN, start : BOOLEAN, tools : BOOLEAN]
Run == [at : {"rest", "creating", "microphone", "dialing", "ending"}, session : Nat]
Mic == [live : BOOLEAN, on : BOOLEAN]
Line == [session : Nat, mic : Nat, browser : {"dialing", "open", "closed"},
         server : {"none", "calling", "up", "down"},
         call : {"none", "reserved", "denied", "settled", "failed"}, greetings : 0..2]

DeskTyped ==
    /\ desk \in Voice /\ runs \in [Handlers -> Run]
    /\ mics \in Seq(Mic) /\ lines \in Seq(Line) /\ completed \subseteq Nat /\ met \in BOOLEAN

\* The reservation of a connection is made and ended where it is served.
Reserved(line) == line.call = "reserved" <=> line.server = "calling"

Sessions ==
    (UNION {{lines[l].session : l \in DOMAIN lines}, {runs[r].session : r \in Handlers},
            completed, {desk.session}}) \ {NoVoice}
Numbered == \E n \in Nat : Sessions = 1..n

\* One run at a time, and what it has got to.
Alone == \A q, r \in Handlers : runs[q] # Resting /\ runs[r] # Resting => q = r
Got(run) ==
    CASE run.at = "creating" -> desk.session = NoVoice /\ run.session = NoVoice
      [] run.at = "microphone" ->
           /\ desk.session = run.session /\ run.session # NoVoice /\ desk.link = NoVoice
           /\ ~desk.greeted /\ \A l \in DOMAIN lines : lines[l].session # run.session
      [] run.at = "dialing" -> desk.session = run.session /\ desk.link # NoVoice
      [] run.at = "ending" ->
           /\ desk.session = run.session
           /\ desk.session # NoVoice => desk.session \in completed
           /\ desk.link # NoVoice => lines[desk.link].browser = "closed" /\ ~mics[desk.mic].live
      [] OTHER -> run.session = NoVoice

\* What the page holds: its session, and the connection and microphone of it.
Holds ==
    /\ desk.session = NoVoice => desk.link = NoVoice /\ ~desk.tools
    /\ desk.link = NoVoice <=> desk.mic = NoVoice
    /\ desk.link # NoVoice =>
         /\ desk.link \in DOMAIN lines /\ desk.mic \in DOMAIN mics
         /\ lines[desk.link].mic = desk.mic /\ lines[desk.link].session = desk.session
         /\ ~desk.greeted => lines[desk.link].greetings = 0
         /\ desk.muted /\ ~(desk.ptt /\ desk.held) => ~mics[desk.mic].on

\* The connections and microphones it does not hold are closed.
LetGo ==
    /\ \A l \in DOMAIN lines : l # desk.link =>
         /\ lines[l].browser = "closed" /\ lines[l].session \in completed
         /\ lines[l].session \notin {desk.session, NoVoice}
    /\ \A m \in DOMAIN mics : m # desk.mic => ~mics[m].live

DeskInvariant ==
    /\ DeskTyped /\ IsFiniteSet(Sessions) /\ \A l \in DOMAIN lines : Reserved(lines[l])
    /\ ~met => /\ Numbered /\ Alone /\ (\A r \in Handlers : Got(runs[r])) /\ Holds /\ LetGo
               /\ EventsOfSession /\ BegunOnce

LEMMA RestingRuns == Resting \in Run /\ Resting.session = NoVoice /\ Resting.at = "rest"
PROOF BY DEF Resting, Run, NoVoice

\* What the sessions are, and that a step that keeps them keeps them numbered.
LEMMA SessionsAre ==
    /\ \A s : s \in Sessions <=>
         /\ s # NoVoice
         /\ \/ \E l \in DOMAIN lines : lines[l].session = s
            \/ \E r \in Handlers : runs[r].session = s
            \/ s \in completed \/ s = desk.session
    /\ \A s : s \in Sessions' <=>
         /\ s # NoVoice
         /\ \/ \E l \in DOMAIN lines' : lines'[l].session = s
            \/ \E r \in Handlers : runs'[r].session = s
            \/ s \in completed' \/ s = desk'.session
PROOF
<1> DEFINE A == {lines[l].session : l \in DOMAIN lines}
           B == {runs[r].session : r \in Handlers}
<1>1. \A s : s \in Sessions <=> s # NoVoice /\ (s \in A \/ s \in B \/ s \in completed \/ s = desk.session)
  <2> DEFINE U == UNION {A, B, completed, {desk.session}}
  <2>1. Sessions = U \ {NoVoice}
    BY Zenon DEF Sessions
  <2> HIDE DEF A, B
  <2>2. \A s : s \in U <=> (s \in A \/ s \in B \/ s \in completed \/ s = desk.session)
    BY Zenon
  <2> HIDE DEF U
  <2> QED BY <2>1, <2>2
<1>2. \A s : s \in Sessions' <=> s # NoVoice /\ (s \in A' \/ s \in B' \/ s \in completed'
                                                    \/ s = desk'.session)
  <2> DEFINE C == {lines'[l].session : l \in DOMAIN lines'}
             D == {runs'[r].session : r \in Handlers}
             U == UNION {C, D, completed', {desk'.session}}
  <2>1. Sessions' = U \ {NoVoice}
    BY Zenon DEF Sessions, NoVoice
  <2>2. C = A' /\ D = B'
    OBVIOUS
  <2> HIDE DEF A, B, C, D
  <2>3. \A s : s \in U <=> (s \in C \/ s \in D \/ s \in completed' \/ s = desk'.session)
    BY Zenon
  <2> HIDE DEF U
  <2> QED BY <2>1, <2>2, <2>3
<1>3. /\ \A s : s \in A <=> \E l \in DOMAIN lines : lines[l].session = s
      /\ \A s : s \in B <=> \E r \in Handlers : runs[r].session = s
      /\ \A s : s \in A' <=> \E l \in DOMAIN lines' : lines'[l].session = s
      /\ \A s : s \in B' <=> \E r \in Handlers : runs'[r].session = s
  OBVIOUS
<1> HIDE DEF A, B
<1> QED BY <1>1, <1>2, <1>3

LEMMA DeskStarts == InitDesk => DeskInvariant
PROOF
<1> SUFFICES ASSUME InitDesk  PROVE DeskInvariant
  OBVIOUS
<1>1. /\ desk = Blank /\ runs = [r \in Handlers |-> Resting] /\ mics = <<>> /\ lines = <<>>
      /\ posted = {} /\ completed = {} /\ met = FALSE
      /\ DOMAIN lines = {} /\ DOMAIN mics = {}
  BY DEF InitDesk
<1>2. Resting \in Run /\ Resting.session = NoVoice /\ Resting.at = "rest"
  BY DEF Resting, Run, NoVoice
<1>3. Blank \in Voice /\ Blank.session = NoVoice /\ Blank.link = NoVoice /\ Blank.mic = NoVoice
        /\ Blank.tools = FALSE
  BY DEF Blank, Voice, NoVoice
<1>4. DeskTyped
  <2>1. <<>> \in Seq(Mic) /\ <<>> \in Seq(Line)
    OBVIOUS
  <2> QED BY <2>1, <1>1, <1>2, <1>3 DEF DeskTyped
<1>5. Sessions = {}
  BY <1>1, <1>2, <1>3, SessionsAre
<1>6. Numbered /\ IsFiniteSet(Sessions)
  <2>1. 0 \in Nat /\ 1..0 = {}
    OBVIOUS
  <2> QED BY <2>1, <1>5, FS_EmptySet DEF Numbered
<1>7. Alone /\ \A r \in Handlers : Got(runs[r])
  BY <1>1, <1>2 DEF Alone, Got
<1>8. Holds /\ LetGo /\ EventsOfSession /\ BegunOnce
  BY <1>1, <1>3 DEF Holds, LetGo, EventsOfSession, BegunOnce
<1> QED BY <1>1, <1>4, <1>6, <1>7, <1>8 DEF DeskInvariant

LEMMA NumberedStays ==
    ASSUME Numbered, \A s : s \in Sessions' <=> s \in Sessions
    PROVE  Numbered'
PROOF
<1>1. Sessions' = Sessions
  OBVIOUS
<1> QED BY <1>1 DEF Numbered

LEMMA FiniteStays ==
    ASSUME IsFiniteSet(Sessions), NEW new, \A s \in Sessions' : s \in Sessions \/ s = new
    PROVE  IsFiniteSet(Sessions')
PROOF
<1>1. IsFiniteSet(Sessions \cup {new}) /\ Sessions' \subseteq Sessions \cup {new}
  BY FS_AddElement
<1> QED BY <1>1, FS_Subset

\* A sequence whose elements are replaced one by one is a sequence.
LEMMA EachReplaced ==
    ASSUME NEW S, NEW T, NEW q \in Seq(S), NEW f, DOMAIN f = DOMAIN q, f = [i \in DOMAIN q |-> f[i]],
           \A i \in DOMAIN q : f[i] \in T
    PROVE  f \in Seq(T) /\ Len(f) = Len(q)
PROOF
<1>1. DOMAIN q = 1..Len(q) /\ Len(q) \in Nat
  OBVIOUS
<1>2. f \in [1..Len(q) -> T]
  BY <1>1
<1>3. f \in Seq(T)
  BY <1>1, <1>2, SeqDef
<1>4. DOMAIN f = 1..Len(f) /\ Len(f) \in Nat
  BY <1>3
<1> QED BY <1>1, <1>3, <1>4

----------------------------------------------------------------------------
(* The buttons, and the events of the provider *)

\* What a button or an event of the provider changes of the page.
LEMMA ButtonsKeep ==
    ASSUME DeskInvariant, UNCHANGED <<runs, lines, completed, met>>,
           desk' \in Voice, desk'.session = desk.session, desk'.mic = desk.mic,
           desk'.link = desk.link, desk'.greeted = desk.greeted, desk'.tools = desk.tools,
           NEW on \in BOOLEAN, mics' \in {mics, Enabled(on)},
           desk'.muted /\ ~(desk'.ptt /\ desk'.held) =>
             \/ mics' = Enabled(on) /\ ~on
             \/ mics' = mics /\ desk.muted /\ ~(desk.ptt /\ desk.held),
           ~met => EventsOfSession'
    PROVE  DeskInvariant'
PROOF
<1>0. DeskTyped /\ IsFiniteSet(Sessions) /\ \A l \in DOMAIN lines : Reserved(lines[l])
  BY DEF DeskInvariant
<1>1. /\ mics' \in Seq(Mic) /\ DOMAIN mics' = DOMAIN mics
      /\ \A m \in DOMAIN mics : mics'[m].live = mics[m].live
      /\ mics' = Enabled(on) /\ desk.mic # NoVoice =>
           \A m \in DOMAIN mics : m = desk.mic => mics'[m].on = on
  <2>1. CASE mics' = mics /\ (mics' # Enabled(on) \/ desk.mic = NoVoice)
    BY <2>1, <1>0 DEF DeskTyped
  <2>2. CASE mics' = [mics EXCEPT ![desk.mic].on = on]
    <3>1. mics \in Seq(Mic)
      BY <1>0 DEF DeskTyped
    <3>2. /\ DOMAIN mics' = DOMAIN mics /\ mics' = [m \in DOMAIN mics |-> mics'[m]]
          /\ \A m \in DOMAIN mics :
               mics'[m] = IF m = desk.mic THEN [mics[m] EXCEPT !.on = on] ELSE mics[m]
      BY <2>2
    <3>3. \A m \in DOMAIN mics : mics[m] \in Mic
      BY <3>1
    <3>4. \A m \in DOMAIN mics : mics'[m] \in Mic /\ mics'[m].live = mics[m].live
                                   /\ (m = desk.mic => mics'[m].on = on)
      BY <3>2, <3>3 DEF Mic
    <3>5. mics' \in Seq(Mic)
      BY <3>1, <3>2, <3>4, EachReplaced
    <3> QED BY <3>2, <3>4, <3>5
  <2> QED BY <2>1, <2>2 DEF Enabled
<1>2. DeskTyped' /\ \A l \in DOMAIN lines' : Reserved(lines'[l])
  BY <1>0, <1>1 DEF DeskTyped
<1>4. IsFiniteSet(Sessions')
  BY <1>0, SessionsAre, FiniteStays
<1>3. ASSUME ~met
      PROVE  Numbered' /\ Alone' /\ (\A r \in Handlers : Got(runs[r])') /\ Holds' /\ LetGo'
             /\ EventsOfSession' /\ BegunOnce'
  <2>0. Numbered /\ Alone /\ (\A r \in Handlers : Got(runs[r])) /\ Holds /\ LetGo /\ BegunOnce
    BY <1>3 DEF DeskInvariant
  <2>1. Numbered'
    BY <2>0, SessionsAre, NumberedStays
  <2>2. Alone' /\ BegunOnce'
    BY <2>0 DEF Alone, BegunOnce
  <2>3. LetGo'
    BY <2>0, <1>1 DEF LetGo
  <2>4. desk.link # NoVoice => desk.mic \in DOMAIN mics /\ desk.mic # NoVoice
    BY <2>0 DEF Holds
  <2>5. ASSUME NEW r \in Handlers PROVE Got(runs[r])'
    BY <2>0, <2>4, <1>1 DEF Got
  <2>6. desk.link # NoVoice /\ desk'.muted /\ ~(desk'.ptt /\ desk'.held) => ~mics'[desk.mic].on
    <3>1. CASE mics' = mics /\ desk.muted /\ ~(desk.ptt /\ desk.held)
      BY <3>1, <2>0 DEF Holds
    <3>2. CASE mics' = Enabled(on) /\ ~on
      BY <3>2, <2>4, <1>1
    <3> QED BY <3>1, <3>2
  <2>7. Holds'
    BY <2>0, <2>6, <1>1 DEF Holds
  <2> QED BY <2>1, <2>2, <2>3, <2>5, <2>7, <1>3
<1> QED BY <1>2, <1>3, <1>4 DEF DeskInvariant

LEMMA ButtonSteps ==
    ASSUME DeskInvariant, ToggleMute \/ TogglePtt \/ PressPtt \/ ReleasePtt \/ ChooseTemplate
    PROVE  DeskInvariant'
PROOF
<1>0. desk \in Voice /\ (~met => EventsOfSession)
  BY DEF DeskInvariant, DeskTyped
<1>1. CASE ToggleMute
  <2>1. desk' = [desk EXCEPT !.muted = ~desk.muted] /\ mics' = Enabled(desk.muted /\ ~desk.ptt)
          /\ UNCHANGED <<runs, lines, posted, completed, met>>
    BY <1>1 DEF ToggleMute
  <2>2. /\ desk' \in Voice /\ desk'.session = desk.session /\ desk'.mic = desk.mic
        /\ desk'.link = desk.link /\ desk'.greeted = desk.greeted /\ desk'.tools = desk.tools
        /\ desk'.muted = ~desk.muted /\ desk.muted \in BOOLEAN /\ desk.ptt \in BOOLEAN
    BY <1>0, <2>1 DEF Voice
  <2> DEFINE on == desk.muted /\ ~desk.ptt
  <2>3. on \in BOOLEAN /\ (desk'.muted => ~on)
    BY <2>2
  <2>4. ~met => EventsOfSession'
    BY <1>0, <2>1 DEF EventsOfSession
  <2> QED BY <2>1, <2>2, <2>3, <2>4, ButtonsKeep
<1>2. CASE TogglePtt
  <2>1. desk' = [desk EXCEPT !.ptt = ~desk.ptt] /\ mics' = Enabled(desk.ptt /\ ~desk.muted)
          /\ UNCHANGED <<runs, lines, posted, completed, met>>
    BY <1>2 DEF TogglePtt
  <2>2. /\ desk' \in Voice /\ desk'.session = desk.session /\ desk'.mic = desk.mic
        /\ desk'.link = desk.link /\ desk'.greeted = desk.greeted /\ desk'.tools = desk.tools
        /\ desk'.muted = desk.muted /\ desk.muted \in BOOLEAN /\ desk.ptt \in BOOLEAN
    BY <1>0, <2>1 DEF Voice
  <2> DEFINE on == desk.ptt /\ ~desk.muted
  <2>3. on \in BOOLEAN /\ (desk'.muted => ~on)
    BY <2>2
  <2>4. ~met => EventsOfSession'
    BY <1>0, <2>1 DEF EventsOfSession
  <2> QED BY <2>1, <2>2, <2>3, <2>4, ButtonsKeep
<1>3. CASE PressPtt
  <2>1. desk' = [desk EXCEPT !.held = TRUE] /\ mics' = Enabled(TRUE) /\ desk.ptt
          /\ UNCHANGED <<runs, lines, posted, completed, met>>
    BY <1>3 DEF PressPtt
  <2>2. /\ desk' \in Voice /\ desk'.session = desk.session /\ desk'.mic = desk.mic
        /\ desk'.link = desk.link /\ desk'.greeted = desk.greeted /\ desk'.tools = desk.tools
        /\ desk'.ptt /\ desk'.held
    BY <1>0, <2>1 DEF Voice
  <2>3. ~met => EventsOfSession'
    BY <1>0, <2>1 DEF EventsOfSession
  <2> QED BY <2>1, <2>2, <2>3, ButtonsKeep
<1>4. CASE ReleasePtt
  <2>1. desk' = [desk EXCEPT !.held = FALSE] /\ UNCHANGED <<runs, lines, posted, completed, met>>
          /\ mics' = IF desk.ptt THEN Enabled(FALSE) ELSE mics
    BY <1>4 DEF ReleasePtt
  <2>2. /\ desk' \in Voice /\ desk'.session = desk.session /\ desk'.mic = desk.mic
        /\ desk'.link = desk.link /\ desk'.greeted = desk.greeted /\ desk'.tools = desk.tools
        /\ desk'.muted = desk.muted
    BY <1>0, <2>1 DEF Voice
  <2>3. ~met => EventsOfSession'
    BY <1>0, <2>1 DEF EventsOfSession
  <2> QED BY <2>1, <2>2, <2>3, ButtonsKeep
<1>5. CASE ChooseTemplate
  <2>1. desk' = [desk EXCEPT !.start = TRUE] /\ UNCHANGED <<runs, mics, lines, posted, completed, met>>
    BY <1>5 DEF ChooseTemplate
  <2>2. /\ desk' \in Voice /\ desk'.session = desk.session /\ desk'.mic = desk.mic
        /\ desk'.link = desk.link /\ desk'.greeted = desk.greeted /\ desk'.tools = desk.tools
        /\ desk'.muted = desk.muted /\ desk'.ptt = desk.ptt /\ desk'.held = desk.held
    BY <1>0, <2>1 DEF Voice
  <2>3. ~met => EventsOfSession'
    BY <1>0, <2>1 DEF EventsOfSession
  <2>4. FALSE \in BOOLEAN /\ mics' \in {mics, Enabled(FALSE)} /\ mics' = mics
    BY <2>1
  <2> QED BY <2>1, <2>2, <2>3, <2>4, ButtonsKeep
<1> QED BY <1>1, <1>2, <1>3, <1>4, <1>5

\* An event comes on the connection of the page, and is posted to its session.
LEMMA ToldOfSession ==
    ASSUME DeskInvariant, ~met, NEW l \in Speaking, posted' = Told(l)
    PROVE  EventsOfSession'
PROOF
<1>1. LetGo /\ Holds /\ EventsOfSession /\ l \in DOMAIN lines /\ lines[l].browser = "open"
  BY DEF DeskInvariant, Speaking, Open
<1>2. l = desk.link
  BY <1>1 DEF LetGo
<1>3. desk.session # NoVoice /\ desk.link # NoVoice => lines[l].session = desk.session
  BY <1>1, <1>2 DEF Holds
<1>4. desk.link # NoVoice
  <2>1. lines \in Seq(Line)
    BY DEF DeskInvariant, DeskTyped
  <2> QED BY <2>1, <1>1, <1>2 DEF NoVoice
<1> QED BY <1>1, <1>3, <1>4 DEF Told, EventsOfSession

LEMMA EventSteps ==
    ASSUME DeskInvariant, NEW l \in DOMAIN lines, ResponseDone(l) \/ Reported(l)
    PROVE  DeskInvariant'
PROOF
<1>0. desk \in Voice /\ l \in Speaking /\ posted' = Told(l)
  BY DEF DeskInvariant, DeskTyped, ResponseDone, Reported
<1>1. ~met => EventsOfSession'
  BY <1>0, ToldOfSession
<1>2. CASE ResponseDone(l)
  <2>1. desk' = [desk EXCEPT !.ready = TRUE] /\ mics' = Enabled(Listens)
          /\ UNCHANGED <<runs, lines, completed, met>>
    BY <1>2 DEF ResponseDone
  <2>2. /\ desk' \in Voice /\ desk'.session = desk.session /\ desk'.mic = desk.mic
        /\ desk'.link = desk.link /\ desk'.greeted = desk.greeted /\ desk'.tools = desk.tools
        /\ desk'.muted = desk.muted
    BY <1>0, <2>1 DEF Voice
  <2>3. Listens \in BOOLEAN /\ (desk.muted => ~Listens)
    BY DEF Listens
  <2> QED BY <1>1, <2>1, <2>2, <2>3, ButtonsKeep
<1>3. CASE Reported(l)
  <2>1. UNCHANGED <<desk, runs, mics, lines, completed, met>>
    BY <1>3 DEF Reported
  <2>2. FALSE \in BOOLEAN /\ mics' \in {mics, Enabled(FALSE)} /\ mics' = mics
    BY <2>1
  <2> QED BY <1>0, <1>1, <2>1, <2>2, ButtonsKeep
<1> QED BY <1>2, <1>3

----------------------------------------------------------------------------
(* The relay and the endpoint *)

\* One connection goes on where it is served, or is closed.
LEMMA ServesKeeps ==
    ASSUME DeskInvariant, NEW l \in DOMAIN lines, NEW line \in Line, Serves(l, line),
           line.session = lines[l].session, line.mic = lines[l].mic,
           line.greetings = lines[l].greetings, line.browser \in {lines[l].browser, "closed"},
           Reserved(line)
    PROVE  DeskInvariant'
PROOF
<1>0. DeskTyped /\ IsFiniteSet(Sessions) /\ (\A k \in DOMAIN lines : Reserved(lines[k]))
        /\ lines \in Seq(Line)
  BY DEF DeskInvariant, DeskTyped
<1>1. /\ UNCHANGED <<desk, runs, mics, posted, completed, met>>
      /\ lines' = [lines EXCEPT ![l] = line]
  BY DEF Serves
<1>2. /\ lines' \in Seq(Line) /\ DOMAIN lines' = DOMAIN lines
      /\ \A k \in DOMAIN lines : lines'[k] = IF k = l THEN line ELSE lines[k]
  BY <1>0, <1>1
<1>3. \A k \in DOMAIN lines : /\ lines'[k].session = lines[k].session
                              /\ lines'[k].mic = lines[k].mic
                              /\ lines'[k].greetings = lines[k].greetings
                              /\ lines[k].browser = "closed" => lines'[k].browser = "closed"
  BY <1>2
<1>4. DeskTyped' /\ \A k \in DOMAIN lines' : Reserved(lines'[k])
  BY <1>0, <1>1, <1>2 DEF DeskTyped
<1>5. ASSUME ~met
      PROVE  Numbered' /\ Alone' /\ (\A r \in Handlers : Got(runs[r])') /\ Holds' /\ LetGo'
             /\ EventsOfSession' /\ BegunOnce'
  <2>0. /\ Numbered /\ Alone /\ (\A r \in Handlers : Got(runs[r])) /\ Holds /\ LetGo
        /\ EventsOfSession /\ BegunOnce
    BY <1>5 DEF DeskInvariant
  <2>1. Numbered'
    BY <2>0, <1>1, <1>2, <1>3, SessionsAre, NumberedStays
  <2>2. Alone' /\ BegunOnce' /\ EventsOfSession'
    BY <2>0, <1>1, <1>2, <1>3 DEF Alone, BegunOnce, EventsOfSession
  <2>3. Holds' /\ LetGo'
    BY <2>0, <1>1, <1>2, <1>3 DEF Holds, LetGo
  <2>4. ASSUME NEW r \in Handlers  PROVE Got(runs[r])'
    <3>1. desk.link # NoVoice => desk.link \in DOMAIN lines
      BY <2>0 DEF Holds
    <3>2. Got(runs[r])
      BY <2>0
    <3> QED BY <3>1, <3>2, <1>1, <1>2, <1>3 DEF Got
  <2> QED BY <2>1, <2>2, <2>3, <2>4
<1>6. IsFiniteSet(Sessions')
  BY <1>0, <1>1, <1>2, <1>3, SessionsAre, FiniteStays
<1> QED BY <1>4, <1>5, <1>6, <1>1 DEF DeskInvariant

LEMMA ServerSteps ==
    ASSUME DeskInvariant, NEW l \in DOMAIN lines,
           ReserveCall(l) \/ CallSettled(l) \/ CallFailed(l) \/ RelayEnds(l)
    PROVE  DeskInvariant'
PROOF
<1>0. lines[l] \in Line /\ Reserved(lines[l])
  BY DEF DeskInvariant, DeskTyped
<1> DEFINE Continues(line) ==
             /\ line \in Line /\ line.session = lines[l].session /\ line.mic = lines[l].mic
             /\ line.greetings = lines[l].greetings
             /\ line.browser \in {lines[l].browser, "closed"} /\ Reserved(line)
<1>1. ASSUME NEW line, Serves(l, line), Continues(line)  PROVE DeskInvariant'
  BY <1>1, ServesKeeps
<1>2. LET line == [lines[l] EXCEPT !.server = "calling", !.call = "reserved"] IN Continues(line)
  BY <1>0 DEF Line, Reserved
<1>3. LET line == [Refuses(lines[l]) EXCEPT !.call = "denied"] IN Continues(line)
  BY <1>0 DEF Line, Reserved, Refuses
<1>4. LET line == [lines[l] EXCEPT !.server = "up", !.call = "settled"] IN Continues(line)
  BY <1>0 DEF Line, Reserved
<1>5. LET line == [Refuses(lines[l]) EXCEPT !.call = "failed"] IN Continues(line)
  BY <1>0 DEF Line, Reserved, Refuses
<1>6. LET line == [lines[l] EXCEPT !.server = "down",
                     !.browser = IF provider = "qwen" THEN "closed" ELSE lines[l].browser] IN
      lines[l].server = "up" => Continues(line)
  BY <1>0 DEF Line, Reserved
<1> HIDE DEF Continues
<1>7. CASE ReserveCall(l)
  BY <1>7, <1>1, <1>2, <1>3 DEF ReserveCall
<1>8. CASE CallSettled(l)
  BY <1>8, <1>1, <1>4 DEF CallSettled
<1>9. CASE CallFailed(l)
  BY <1>9, <1>1, <1>5 DEF CallFailed, Failed
<1>10. CASE RelayEnds(l)
  BY <1>10, <1>1, <1>6 DEF RelayEnds
<1> QED BY <1>7, <1>8, <1>9, <1>10

LEMMA ReadiedKeeps ==
    ASSUME DeskInvariant, NEW l \in DOMAIN lines, Readied(l)
    PROVE  DeskInvariant'
PROOF
<1> DEFINE link == desk.link
           sends == Greets /\ link \in Open
<1>0. /\ DeskTyped /\ IsFiniteSet(Sessions) /\ (\A k \in DOMAIN lines : Reserved(lines[k])) /\ lines \in Seq(Line)
      /\ desk \in Voice
  BY DEF DeskInvariant, DeskTyped
<1>1. /\ UNCHANGED <<runs, mics, posted, completed, met>>
      /\ desk' = [desk EXCEPT !.greeted = TRUE]
      /\ lines' = IF sends
                  THEN [lines EXCEPT ![link] = [lines[link] EXCEPT !.greetings =
                          IF lines[link].greetings < 2 THEN lines[link].greetings + 1
                          ELSE lines[link].greetings]]
                  ELSE lines
  BY DEF Readied
<1>2. /\ desk' \in Voice /\ desk'.session = desk.session /\ desk'.mic = desk.mic
      /\ desk'.link = link /\ desk'.greeted /\ desk'.tools = desk.tools
      /\ desk'.muted = desk.muted /\ desk'.ptt = desk.ptt /\ desk'.held = desk.held
  BY <1>0, <1>1 DEF Voice
<1>3. sends => link \in DOMAIN lines /\ lines[link] \in Line /\ ~desk.greeted
  BY <1>0 DEF Open, Greets
<1>4. /\ lines' \in Seq(Line) /\ DOMAIN lines' = DOMAIN lines
      /\ \A k \in DOMAIN lines :
           /\ lines'[k].session = lines[k].session /\ lines'[k].mic = lines[k].mic
           /\ lines'[k].browser = lines[k].browser /\ lines'[k].server = lines[k].server
           /\ lines'[k].call = lines[k].call
           /\ \/ lines'[k].greetings = lines[k].greetings
              \/ k = link /\ ~desk.greeted
                   /\ (lines[k].greetings = 0 => lines'[k].greetings = 1)
  <2>1. CASE ~sends
    BY <2>1, <1>0, <1>1
  <2>2. CASE sends
    <3> DEFINE n == IF lines[link].greetings < 2 THEN lines[link].greetings + 1
                    ELSE lines[link].greetings
               line == [lines[link] EXCEPT !.greetings = n]
    <3>1. n \in 0..2 /\ (lines[link].greetings = 0 => n = 1)
      BY <2>2, <1>3 DEF Line
    <3> HIDE DEF n
    <3>2. /\ line \in Line /\ line.session = lines[link].session /\ line.mic = lines[link].mic
          /\ line.browser = lines[link].browser /\ line.server = lines[link].server
          /\ line.call = lines[link].call /\ line.greetings = n
      BY <2>2, <3>1, <1>3 DEF Line
    <3>3. lines' = [lines EXCEPT ![link] = line]
      BY <2>2, <1>1 DEF n
    <3> HIDE DEF line
    <3>4. /\ lines' \in Seq(Line) /\ DOMAIN lines' = DOMAIN lines
          /\ \A k \in DOMAIN lines : lines'[k] = IF k = link THEN line ELSE lines[k]
      BY <2>2, <1>0, <1>3, <3>2, <3>3
    <3> QED BY <2>2, <1>3, <3>1, <3>2, <3>4
  <2> QED BY <2>1, <2>2
<1>5. DeskTyped' /\ \A k \in DOMAIN lines' : Reserved(lines'[k])
  BY <1>0, <1>1, <1>2, <1>4 DEF DeskTyped, Reserved
<1>6. ASSUME ~met
      PROVE  Numbered' /\ Alone' /\ (\A r \in Handlers : Got(runs[r])') /\ Holds' /\ LetGo'
             /\ EventsOfSession' /\ BegunOnce'
  <2>0. /\ Numbered /\ Alone /\ (\A r \in Handlers : Got(runs[r])) /\ Holds /\ LetGo
        /\ EventsOfSession /\ BegunOnce
    BY <1>6 DEF DeskInvariant
  <2>1. Numbered'
    BY <2>0, <1>1, <1>2, <1>4, SessionsAre, NumberedStays
  <2>2. Alone' /\ EventsOfSession' /\ LetGo'
    BY <2>0, <1>1, <1>2, <1>4 DEF Alone, EventsOfSession, LetGo
  <2>3. Holds'
    BY <2>0, <1>1, <1>2, <1>4 DEF Holds
  <2>4. BegunOnce'
    <3>1. ASSUME NEW k \in DOMAIN lines  PROVE lines'[k].greetings <= 1
      <4>1. lines[k].greetings <= 1
        BY <2>0 DEF BegunOnce
      <4>2. k = link /\ ~desk.greeted => lines[k].greetings = 0
        <5>1. k # NoVoice
          BY <1>0 DEF NoVoice
        <5> QED BY <5>1, <2>0 DEF Holds
      <4> QED BY <4>1, <4>2, <1>4
    <3> QED BY <3>1, <1>4 DEF BegunOnce
  <2>5. ASSUME NEW r \in Handlers  PROVE Got(runs[r])'
    <3>1. desk.link # NoVoice => desk.link \in DOMAIN lines
      BY <2>0 DEF Holds
    <3>2. Got(runs[r])
      BY <2>0
    <3>3. runs[r].at # "microphone"
      <4>1. l \in DOMAIN lines /\ lines[l].browser = "open" /\ l # NoVoice
        BY <1>0 DEF Readied, Speaking, Open, NoVoice
      <4>2. l = desk.link
        BY <4>1, <2>0 DEF LetGo
      <4> QED BY <4>1, <4>2, <3>2 DEF Got
    <3> QED BY <3>1, <3>2, <3>3, <1>1, <1>2, <1>4 DEF Got
  <2> QED BY <2>1, <2>2, <2>3, <2>4, <2>5
<1>7. IsFiniteSet(Sessions')
  <2>1. DOMAIN lines' = DOMAIN lines /\ \A k \in DOMAIN lines : lines'[k].session = lines[k].session
    BY <1>4
  <2>2. \A s : s \in Sessions' <=> s \in Sessions
    BY <2>1, <1>1, <1>2, SessionsAre
  <2> QED BY <2>2, <1>0, FiniteStays
<1> QED BY <1>1, <1>5, <1>6, <1>7 DEF DeskInvariant

----------------------------------------------------------------------------
(* connectVoice and endVoice *)

\* A run that goes on where no other is under way is the only one.
LEMMA RunsAlone ==
    ASSUME NEW r \in Handlers, NEW run, runs' = [runs EXCEPT ![r] = run], runs \in [Handlers -> Run],
           \A q \in Handlers : q # r => runs[q] = Resting
    PROVE  /\ Alone' /\ DOMAIN runs' = Handlers /\ runs'[r] = run
           /\ \A q \in Handlers : q # r => runs'[q] = Resting /\ runs[q].session = NoVoice
           /\ Got(run)' => \A q \in Handlers : Got(runs[q])'
PROOF
<1>1. /\ DOMAIN runs' = Handlers /\ runs'[r] = run
      /\ \A q \in Handlers : q # r => runs'[q] = Resting /\ runs[q].session = NoVoice
  BY RestingRuns
<1>2. Alone'
  BY <1>1 DEF Alone
<1>3. ASSUME Got(run)', NEW q \in Handlers  PROVE Got(runs[q])'
  <2>1. CASE q = r
    <3>1. runs'[q] = run
      BY <2>1, <1>1
    <3> QED BY <3>1, <1>3 DEF Got
  <2>2. CASE q # r
    <3>1. runs'[q].at = "rest" /\ runs'[q].session = NoVoice
      BY <2>2, <1>1, RestingRuns
    <3> QED BY <3>1 DEF Got
  <2> QED BY <2>1, <2>2
<1> QED BY <1>1, <1>2, <1>3

LEMMA StartVoiceKeeps ==
    ASSUME DeskInvariant, NEW r \in Handlers, StartVoice(r)
    PROVE  DeskInvariant'
PROOF
<1> DEFINE run == [at |-> "creating", session |-> NoVoice]
<1>0. /\ DeskTyped /\ IsFiniteSet(Sessions) /\ (\A l \in DOMAIN lines : Reserved(lines[l]))
      /\ desk \in Voice /\ runs \in [Handlers -> Run]
  BY DEF DeskInvariant, DeskTyped
<1>1. /\ UNCHANGED <<mics, lines, posted, completed>> /\ runs[r] = Resting
      /\ desk' = [desk EXCEPT !.start = FALSE] /\ runs' = [runs EXCEPT ![r].at = "creating"]
      /\ met' = (met \/ ~Quiet \/ desk.session # NoVoice)
  BY DEF StartVoice, Goes
<1>2. /\ desk' \in Voice /\ desk'.session = desk.session /\ desk'.mic = desk.mic
      /\ desk'.link = desk.link /\ desk'.greeted = desk.greeted /\ desk'.tools = desk.tools
      /\ desk'.muted = desk.muted /\ desk'.ptt = desk.ptt /\ desk'.held = desk.held
  BY <1>0, <1>1 DEF Voice
<1>3. run \in Run /\ run.session = NoVoice /\ run.at = "creating"
  BY DEF Run, NoVoice
<1>4. runs' = [runs EXCEPT ![r] = run] /\ runs' \in [Handlers -> Run]
  <2>1. runs' = [runs EXCEPT ![r] = run]
    <3>1. [runs[r] EXCEPT !.at = "creating"] = run
      BY <1>1 DEF Resting
    <3> QED BY <3>1, <1>0, <1>1
  <2> QED BY <2>1, <1>0, <1>3
<1>5. DeskTyped' /\ \A l \in DOMAIN lines' : Reserved(lines'[l])
  BY <1>0, <1>1, <1>2, <1>4 DEF DeskTyped
<1>6. /\ \A q \in Handlers : runs'[q].session = runs[q].session
      /\ \A s : s \in Sessions' <=> s \in Sessions
  <2>1. \A q \in Handlers : runs'[q].session = runs[q].session
    BY <1>0, <1>1, <1>3, <1>4, RestingRuns
  <2> QED BY <2>1, <1>1, <1>2, SessionsAre
<1>7. IsFiniteSet(Sessions')
  BY <1>0, <1>6, FiniteStays
<1>8. ASSUME ~met'
      PROVE  Numbered' /\ Alone' /\ (\A q \in Handlers : Got(runs[q])') /\ Holds' /\ LetGo'
             /\ EventsOfSession' /\ BegunOnce'
  <2>0. ~met /\ Quiet /\ desk.session = NoVoice
    BY <1>8, <1>1
  <2>1. Numbered /\ Alone /\ Holds /\ LetGo /\ EventsOfSession /\ BegunOnce
    BY <2>0 DEF DeskInvariant
  <2>2. Numbered'
    BY <2>1, <1>6, NumberedStays
  <2>3. Holds' /\ LetGo' /\ EventsOfSession' /\ BegunOnce'
    BY <2>1, <1>1, <1>2 DEF Holds, LetGo, EventsOfSession, BegunOnce
  <2>4. Got(run)'
    BY <2>0, <1>2, <1>3 DEF Got
  <2>5. Alone' /\ \A q \in Handlers : Got(runs[q])'
    BY <2>0, <2>4, <1>0, <1>4, RunsAlone DEF Quiet
  <2> QED BY <2>2, <2>3, <2>5
<1> QED BY <1>5, <1>7, <1>8 DEF DeskInvariant

LEMMA VoiceCreatedKeeps ==
    ASSUME DeskInvariant, NEW r \in Handlers, VoiceCreated(r)
    PROVE  DeskInvariant'
PROOF
<1>s. PICK s0 : s0 = NewSession
  OBVIOUS
<1> DEFINE run == [at |-> "microphone", session |-> s0]
<1>0. /\ DeskTyped /\ IsFiniteSet(Sessions) /\ (\A l \in DOMAIN lines : Reserved(lines[l]))
      /\ desk \in Voice /\ runs \in [Handlers -> Run]
  BY DEF DeskInvariant, DeskTyped
<1>1. /\ UNCHANGED <<mics, lines, posted, completed, met>> /\ runs[r].at = "creating"
      /\ desk' = [desk EXCEPT !.session = s0, !.ready = FALSE, !.greeted = FALSE]
      /\ runs' = [runs EXCEPT ![r] = run]
  BY <1>s DEF VoiceCreated
<1>2. s0 = 1 + Cardinality(Sessions) /\ s0 \in Nat /\ s0 # NoVoice
  <2>1. s0 = 1 + Cardinality(Sessions)
    BY <1>s, Zenon DEF NewSession, Sessions
  <2>2. Cardinality(Sessions) \in Nat
    BY <1>0, FS_CardinalityType
  <2> QED BY <2>1, <2>2 DEF NoVoice
<1>3. /\ desk' \in Voice /\ desk'.session = s0 /\ desk'.mic = desk.mic
      /\ desk'.link = desk.link /\ ~desk'.greeted /\ desk'.tools = desk.tools
      /\ desk'.muted = desk.muted /\ desk'.ptt = desk.ptt /\ desk'.held = desk.held
  BY <1>0, <1>1, <1>2 DEF Voice
<1>4. run \in Run /\ run.session = s0 /\ run.at = "microphone" /\ runs' \in [Handlers -> Run]
  <2>1. run \in Run
    BY <1>2 DEF Run
  <2> QED BY <2>1, <1>0, <1>1
<1>5. DeskTyped' /\ \A l \in DOMAIN lines' : Reserved(lines'[l])
  BY <1>0, <1>1, <1>3, <1>4 DEF DeskTyped
<1>6. \A s : s \in Sessions' => s \in Sessions \/ s = s0
  <2>1. \A q \in Handlers : runs'[q].session = runs[q].session \/ runs'[q].session = s0
    BY <1>0, <1>1, <1>4
  <2> QED BY <2>1, <1>1, <1>3, SessionsAre
<1>7. IsFiniteSet(Sessions')
  BY <1>0, <1>6, FiniteStays
<1>8. ASSUME ~met
      PROVE  Numbered' /\ Alone' /\ (\A q \in Handlers : Got(runs[q])') /\ Holds' /\ LetGo'
             /\ EventsOfSession' /\ BegunOnce'
  <2>1. /\ Numbered /\ Alone /\ (\A q \in Handlers : Got(runs[q])) /\ Holds /\ LetGo
        /\ EventsOfSession /\ BegunOnce
    BY <1>8 DEF DeskInvariant
  <2>2. desk.session = NoVoice /\ runs[r].session = NoVoice /\ desk.link = NoVoice
          /\ ~desk.tools /\ desk.mic = NoVoice
    BY <2>1, <1>1 DEF Got, Holds
  <2>3. PICK n \in Nat : Sessions = 1..n
    BY <2>1 DEF Numbered
  <2>4. s0 = n + 1
    <3>1. Cardinality(1..n) = n
      BY <2>3, FS_Interval
    <3> QED BY <3>1, <2>3, <1>2
  <2>5. \A q \in Handlers : q # r => runs[q] = Resting
    BY <2>1, <1>1, RestingRuns DEF Alone
  <2>6. /\ Alone' /\ runs'[r] = run
        /\ \A q \in Handlers : q # r => runs'[q] = Resting /\ runs[q].session = NoVoice
        /\ Got(run)' => \A q \in Handlers : Got(runs[q])'
    BY <2>5, <1>0, <1>1, RunsAlone
  <2>7. \A l \in DOMAIN lines : lines[l].session \notin {s0, NoVoice}
    <3>1. ASSUME NEW l \in DOMAIN lines  PROVE lines[l].session \notin {s0, NoVoice}
      <4>1. lines \in Seq(Line) /\ l # NoVoice
        BY <1>0 DEF DeskTyped, NoVoice
      <4>2. lines[l].session # NoVoice
        BY <4>1, <2>1, <2>2 DEF LetGo
      <4>3. lines[l].session \in 1..n
        BY <4>2, <2>3, SessionsAre
      <4> QED BY <4>2, <4>3, <2>3, <2>4
    <3> QED BY <3>1
  <2>8. Sessions' = Sessions \cup {s0}
    <3>1. s0 \in Sessions'
      BY <1>2, <1>3, SessionsAre
    <3>2. ASSUME NEW s \in Sessions  PROVE s \in Sessions'
      <4>1. s # NoVoice /\ \/ \E l \in DOMAIN lines : lines[l].session = s
                           \/ s \in completed
        BY <2>2, <2>6, SessionsAre
      <4> QED BY <4>1, <1>1, SessionsAre
    <3> QED BY <3>1, <3>2, <1>6
  <2>9. Numbered'
    <3>1. Sessions' = 1..(n + 1) /\ n + 1 \in Nat
      BY <2>3, <2>4, <2>8
    <3> QED BY <3>1 DEF Numbered
  <2>10. Holds'
    BY <2>2, <1>2, <1>3 DEF Holds
  <2>11. LetGo' /\ EventsOfSession' /\ BegunOnce'
    BY <2>1, <2>7, <1>1, <1>3 DEF LetGo, EventsOfSession, BegunOnce
  <2>12. Got(run)'
    BY <2>2, <2>7, <1>1, <1>2, <1>3, <1>4 DEF Got
  <2> QED BY <2>6, <2>9, <2>10, <2>11, <2>12
<1> QED BY <1>1, <1>5, <1>7, <1>8 DEF DeskInvariant

LEMMA MicrophoneOpenedKeeps ==
    ASSUME DeskInvariant, NEW r \in Handlers, MicrophoneOpened(r)
    PROVE  DeskInvariant'
PROOF
<1>s. PICK s0, m0, l0 : s0 = runs[r].session /\ m0 = Len(mics) + 1 /\ l0 = Len(lines) + 1
  OBVIOUS
<1> DEFINE run == [at |-> "dialing", session |-> s0]
           mic == [live |-> TRUE, on |-> FALSE]
           line == [session |-> s0, mic |-> m0, browser |-> "dialing", server |-> "none",
                    call |-> "none", greetings |-> 0]
<1>0. /\ DeskTyped /\ IsFiniteSet(Sessions) /\ (\A l \in DOMAIN lines : Reserved(lines[l]))
      /\ desk \in Voice /\ runs \in [Handlers -> Run] /\ runs[r] \in Run
      /\ mics \in Seq(Mic) /\ lines \in Seq(Line)
  BY DEF DeskInvariant, DeskTyped
<1>1. /\ UNCHANGED <<posted, completed, met>> /\ runs[r].at = "microphone"
      /\ desk' = [desk EXCEPT !.mic = m0, !.link = l0]
      /\ runs' = [runs EXCEPT ![r].at = "dialing"]
      /\ mics' = Append(mics, mic) /\ lines' = Append(lines, line)
  BY <1>s DEF MicrophoneOpened
<1>2. /\ m0 \in Nat /\ l0 \in Nat /\ m0 # NoVoice /\ l0 # NoVoice /\ m0 \in 1..m0 /\ l0 \in 1..l0
      /\ DOMAIN mics = 1..(m0 - 1) /\ DOMAIN lines = 1..(l0 - 1)
  BY <1>0, <1>s DEF NoVoice
<1>3. /\ desk' \in Voice /\ desk'.session = desk.session /\ desk'.mic = m0
      /\ desk'.link = l0 /\ desk'.greeted = desk.greeted /\ desk'.tools = desk.tools
  BY <1>0, <1>1, <1>2 DEF Voice
<1>4. run \in Run /\ run.session = s0 /\ run.at = "dialing" /\ s0 \in Nat
  BY <1>0, <1>s DEF Run
<1>5. runs' = [runs EXCEPT ![r] = run] /\ runs' \in [Handlers -> Run]
  <2>1. [runs[r] EXCEPT !.at = "dialing"] = run
    BY <1>0, <1>s DEF Run
  <2>2. runs' = [runs EXCEPT ![r] = run]
    BY <2>1, <1>0, <1>1
  <2> QED BY <2>2, <1>0, <1>4
<1>6. /\ mics' \in Seq(Mic) /\ DOMAIN mics' = 1..m0 /\ ~mics'[m0].on
      /\ \A m \in DOMAIN mics : mics'[m] = mics[m]
  <2>1. mic \in Mic /\ ~mic.on
    BY DEF Mic
  <2> HIDE DEF mic
  <2>2. /\ mics' \in Seq(Mic) /\ Len(mics') = Len(mics) + 1 /\ mics'[Len(mics) + 1] = mic
        /\ \A m \in 1..Len(mics) : mics'[m] = mics[m]
    BY <2>1, <1>0, <1>1
  <2> QED BY <2>1, <2>2, <1>0, <1>s
<1>7. /\ lines' \in Seq(Line) /\ DOMAIN lines' = 1..l0 /\ lines'[l0] = line
      /\ \A l \in DOMAIN lines : lines'[l] = lines[l]
  <2>1. line \in Line
    BY <1>2, <1>4 DEF Line
  <2> HIDE DEF line
  <2>2. /\ lines' \in Seq(Line) /\ Len(lines') = Len(lines) + 1 /\ lines'[Len(lines) + 1] = line
        /\ \A l \in 1..Len(lines) : lines'[l] = lines[l]
    BY <2>1, <1>0, <1>1
  <2> QED BY <2>2, <1>0, <1>s
<1>8. /\ Reserved(line) /\ line.session = s0 /\ line.mic = m0 /\ line.greetings = 0
  BY DEF Reserved
<1> HIDE DEF line, mic
<1>9. \A l \in DOMAIN lines' : l = l0 \/ l \in DOMAIN lines
  BY <1>2, <1>7
<1>10. \A m \in DOMAIN mics' : m = m0 \/ m \in DOMAIN mics
  BY <1>2, <1>6
<1>11. DeskTyped' /\ \A l \in DOMAIN lines' : Reserved(lines'[l])
  <2>1. DeskTyped'
    BY <1>0, <1>1, <1>3, <1>5, <1>6, <1>7 DEF DeskTyped
  <2> QED BY <2>1, <1>0, <1>7, <1>8, <1>9
<1>12. /\ \A q \in Handlers : runs'[q].session = runs[q].session
       /\ \A s : s \in Sessions' <=> s \in Sessions
  <2>1. \A q \in Handlers : runs'[q].session = runs[q].session
    BY <1>0, <1>4, <1>5, <1>s
  <2>2. DOMAIN lines \subseteq DOMAIN lines'
    BY <1>2, <1>7
  <2> QED BY <2>1, <2>2, <1>1, <1>3, <1>7, <1>8, <1>9, <1>s, SessionsAre
<1>13. IsFiniteSet(Sessions')
  BY <1>0, <1>12, FiniteStays
<1>14. ASSUME ~met
       PROVE  Numbered' /\ Alone' /\ (\A q \in Handlers : Got(runs[q])') /\ Holds' /\ LetGo'
              /\ EventsOfSession' /\ BegunOnce'
  <2>1. /\ Numbered /\ Alone /\ (\A q \in Handlers : Got(runs[q])) /\ Holds /\ LetGo
        /\ EventsOfSession /\ BegunOnce
    BY <1>14 DEF DeskInvariant
  <2>2. desk.session = s0 /\ s0 # NoVoice /\ desk.link = NoVoice /\ ~desk.greeted
          /\ desk.mic = NoVoice
    BY <2>1, <1>1, <1>s DEF Got, Holds
  <2>3. \A q \in Handlers : q # r => runs[q] = Resting
    BY <2>1, <1>1, RestingRuns DEF Alone
  <2>4. Numbered'
    BY <2>1, <1>12, NumberedStays
  <2>5. Got(run)'
    BY <2>2, <1>2, <1>3, <1>4 DEF Got
  <2>6. Alone' /\ \A q \in Handlers : Got(runs[q])'
    BY <2>3, <2>5, <1>0, <1>5, RunsAlone
  <2>7. Holds'
    <3>1. l0 \in DOMAIN lines' /\ m0 \in DOMAIN mics'
      BY <1>2, <1>6, <1>7
    <3> QED BY <3>1, <2>2, <1>2, <1>3, <1>6, <1>7, <1>8 DEF Holds
  <2>8. LetGo'
    <3>1. ASSUME NEW l \in DOMAIN lines', l # l0
          PROVE  /\ lines'[l].browser = "closed" /\ lines'[l].session \in completed
                 /\ lines'[l].session \notin {desk.session, NoVoice}
      <4>1. l \in DOMAIN lines /\ l # NoVoice /\ lines'[l] = lines[l]
        BY <3>1, <1>2, <1>7, <1>9 DEF NoVoice
      <4> QED BY <4>1, <2>1, <2>2 DEF LetGo
    <3>2. ASSUME NEW m \in DOMAIN mics', m # m0  PROVE ~mics'[m].live
      <4>1. m \in DOMAIN mics /\ m # NoVoice /\ mics'[m] = mics[m]
        BY <3>2, <1>2, <1>6, <1>10 DEF NoVoice
      <4> QED BY <4>1, <2>1, <2>2 DEF LetGo
    <3> QED BY <3>1, <3>2, <1>1, <1>3 DEF LetGo
  <2>9. EventsOfSession'
    BY <2>1, <1>1 DEF EventsOfSession
  <2>10. BegunOnce'
    BY <2>1, <1>7, <1>8, <1>9 DEF BegunOnce
  <2> QED BY <2>4, <2>6, <2>7, <2>8, <2>9, <2>10
<1> QED BY <1>1, <1>11, <1>13, <1>14 DEF DeskInvariant

LEMMA EstablishedKeeps ==
    ASSUME DeskInvariant, NEW r \in Handlers, Established(r)
    PROVE  DeskInvariant'
PROOF
<1>s. PICK l0 : l0 = LinkOf(r)
  OBVIOUS
<1>0. /\ DeskTyped /\ IsFiniteSet(Sessions) /\ (\A l \in DOMAIN lines : Reserved(lines[l]))
      /\ desk \in Voice /\ runs \in [Handlers -> Run] /\ lines \in Seq(Line)
  BY DEF DeskInvariant, DeskTyped
<1>1. /\ UNCHANGED <<mics, posted, completed, met>> /\ runs[r].at = "dialing"
      /\ desk' = [desk EXCEPT !.tools = TRUE, !.start = FALSE]
      /\ runs' = [runs EXCEPT ![r] = Resting]
      /\ lines' = [lines EXCEPT ![l0].browser = "open"]
  BY <1>s DEF Established
<1>2. /\ desk' \in Voice /\ desk'.session = desk.session /\ desk'.mic = desk.mic
      /\ desk'.link = desk.link /\ desk'.greeted = desk.greeted /\ desk'.tools
      /\ desk'.muted = desk.muted /\ desk'.ptt = desk.ptt /\ desk'.held = desk.held
  BY <1>0, <1>1 DEF Voice
<1>3. /\ lines' \in Seq(Line) /\ DOMAIN lines' = DOMAIN lines
      /\ \A l \in DOMAIN lines :
           /\ lines'[l].session = lines[l].session /\ lines'[l].mic = lines[l].mic
           /\ lines'[l].greetings = lines[l].greetings /\ lines'[l].server = lines[l].server
           /\ lines'[l].call = lines[l].call
           /\ l # l0 => lines'[l].browser = lines[l].browser
  <2>1. /\ DOMAIN lines' = DOMAIN lines /\ lines' = [l \in DOMAIN lines |-> lines'[l]]
        /\ \A l \in DOMAIN lines :
             lines'[l] = IF l = l0 THEN [lines[l] EXCEPT !.browser = "open"] ELSE lines[l]
    BY <1>1
  <2>2. \A l \in DOMAIN lines : lines[l] \in Line
    BY <1>0
  <2>3. \A l \in DOMAIN lines : lines'[l] \in Line
    BY <2>1, <2>2 DEF Line
  <2>4. lines' \in Seq(Line)
    BY <1>0, <2>1, <2>3, EachReplaced
  <2> QED BY <2>1, <2>2, <2>4 DEF Line
<1>4. DeskTyped' /\ \A l \in DOMAIN lines' : Reserved(lines'[l])
  BY <1>0, <1>1, <1>2, <1>3, RestingRuns DEF DeskTyped, Reserved
<1>5. \A s : s \in Sessions' => s \in Sessions
  <2>1. \A q \in Handlers : runs'[q].session \in {runs[q].session, NoVoice}
    BY <1>0, <1>1, RestingRuns
  <2>2. DOMAIN lines' = DOMAIN lines /\ \A l \in DOMAIN lines : lines'[l].session = lines[l].session
    BY <1>3
  <2> QED BY <2>1, <2>2, <1>1, <1>2, SessionsAre
<1>6. IsFiniteSet(Sessions')
  BY <1>0, <1>5, FiniteStays
<1>7. ASSUME ~met
      PROVE  Numbered' /\ Alone' /\ (\A q \in Handlers : Got(runs[q])') /\ Holds' /\ LetGo'
             /\ EventsOfSession' /\ BegunOnce'
  <2>1. /\ Numbered /\ Alone /\ (\A q \in Handlers : Got(runs[q])) /\ Holds /\ LetGo
        /\ EventsOfSession /\ BegunOnce
    BY <1>7 DEF DeskInvariant
  <2>2. desk.session = runs[r].session /\ desk.link # NoVoice /\ desk.session # NoVoice
    BY <2>1, <1>1 DEF Got, Holds
  <2>3. l0 = desk.link
    <3>1. desk.link \in DOMAIN lines /\ lines[desk.link].session = runs[r].session
      BY <2>1, <2>2 DEF Holds
    <3>2. \A l \in DOMAIN lines : lines[l].session = runs[r].session => l = desk.link
      BY <2>1, <2>2 DEF LetGo
    <3> QED BY <3>1, <3>2, <1>s DEF LinkOf
  <2>4. \A q \in Handlers : q # r => runs[q] = Resting
    BY <2>1, <1>1, RestingRuns DEF Alone
  <2>5. \A s : s \in Sessions => s \in Sessions'
    <3>1. \A q \in Handlers : runs[q].session \in {desk.session, NoVoice}
      BY <2>2, <2>4, RestingRuns
    <3>2. DOMAIN lines' = DOMAIN lines /\ \A l \in DOMAIN lines : lines'[l].session = lines[l].session
      BY <1>3
    <3> QED BY <3>1, <3>2, <1>1, <1>2, SessionsAre
  <2>6. Numbered'
    BY <2>1, <2>5, <1>5, NumberedStays
  <2>7. Got(Resting)'
    <3>1. Resting.at = "rest" /\ Resting.session = NoVoice
      BY RestingRuns
    <3> QED BY <3>1 DEF Got
  <2>8. Alone' /\ \A q \in Handlers : Got(runs[q])'
    BY <2>4, <2>7, <1>0, <1>1, RunsAlone
  <2>9. Holds'
    BY <2>1, <2>2, <1>1, <1>2, <1>3 DEF Holds
  <2>10. LetGo' /\ EventsOfSession' /\ BegunOnce'
    BY <2>1, <2>3, <1>1, <1>2, <1>3 DEF LetGo, EventsOfSession, BegunOnce
  <2> QED BY <2>6, <2>8, <2>9, <2>10
<1> QED BY <1>1, <1>4, <1>6, <1>7 DEF DeskInvariant

\* A run leaves the session: its own, or one that is live and that no run is at.
LEMMA LeavesKeeps ==
    ASSUME DeskInvariant, NEW r \in Handlers, Leaves(r), UNCHANGED <<desk, posted>>,
           met' \in BOOLEAN, met => met',
           ~met' => runs[r] # Resting \/ \A q \in Handlers : runs[q] = Resting
    PROVE  DeskInvariant'
PROOF
<1>s. PICK s0 : s0 = desk.session
  OBVIOUS
<1> DEFINE run == [at |-> "ending", session |-> s0]
<1>0. /\ DeskTyped /\ IsFiniteSet(Sessions) /\ (\A l \in DOMAIN lines : Reserved(lines[l]))
      /\ desk \in Voice /\ runs \in [Handlers -> Run] /\ lines \in Seq(Line) /\ mics \in Seq(Mic)
      /\ completed \subseteq Nat
  BY DEF DeskInvariant, DeskTyped
<1>1. /\ completed' = completed \cup ({s0} \ {NoVoice}) /\ runs' = [runs EXCEPT ![r] = run]
      /\ lines' = [l \in DOMAIN lines |->
                     IF l = desk.link THEN [lines[l] EXCEPT !.browser = "closed"] ELSE lines[l]]
      /\ mics' = [m \in DOMAIN mics |->
                    IF m = desk.mic THEN [mics[m] EXCEPT !.live = FALSE] ELSE mics[m]]
  BY <1>s DEF Leaves, Stopped
<1>2. run \in Run /\ run.session = s0 /\ run.at = "ending" /\ s0 \in Nat
  BY <1>0, <1>s DEF Run, Voice
<1>3. /\ lines' \in Seq(Line) /\ DOMAIN lines' = DOMAIN lines
      /\ \A l \in DOMAIN lines :
           /\ lines'[l].session = lines[l].session /\ lines'[l].mic = lines[l].mic
           /\ lines'[l].greetings = lines[l].greetings /\ lines'[l].server = lines[l].server
           /\ lines'[l].call = lines[l].call
           /\ lines'[l].browser = IF l = desk.link THEN "closed" ELSE lines[l].browser
  <2>1. /\ DOMAIN lines' = DOMAIN lines /\ lines' = [l \in DOMAIN lines |-> lines'[l]]
        /\ \A l \in DOMAIN lines :
             lines'[l] = IF l = desk.link THEN [lines[l] EXCEPT !.browser = "closed"] ELSE lines[l]
    BY <1>1
  <2>2. \A l \in DOMAIN lines : lines[l] \in Line
    BY <1>0
  <2>3. \A l \in DOMAIN lines : lines'[l] \in Line
    BY <2>1, <2>2 DEF Line
  <2>4. lines' \in Seq(Line)
    BY <1>0, <2>1, <2>3, EachReplaced
  <2> QED BY <2>1, <2>2, <2>4 DEF Line
<1>4. /\ mics' \in Seq(Mic) /\ DOMAIN mics' = DOMAIN mics
      /\ \A m \in DOMAIN mics : /\ mics'[m].on = mics[m].on
                                /\ mics'[m].live = IF m = desk.mic THEN FALSE ELSE mics[m].live
  <2>1. /\ DOMAIN mics' = DOMAIN mics /\ mics' = [m \in DOMAIN mics |-> mics'[m]]
        /\ \A m \in DOMAIN mics :
             mics'[m] = IF m = desk.mic THEN [mics[m] EXCEPT !.live = FALSE] ELSE mics[m]
    BY <1>1
  <2>2. \A m \in DOMAIN mics : mics[m] \in Mic
    BY <1>0
  <2>3. \A m \in DOMAIN mics : mics'[m] \in Mic
    BY <2>1, <2>2 DEF Mic
  <2>4. mics' \in Seq(Mic)
    BY <1>0, <2>1, <2>3, EachReplaced
  <2> QED BY <2>1, <2>2, <2>4 DEF Mic
<1>5. DeskTyped' /\ \A l \in DOMAIN lines' : Reserved(lines'[l])
  <2>1. runs' \in [Handlers -> Run] /\ completed' \subseteq Nat
    BY <1>0, <1>1, <1>2
  <2> QED BY <2>1, <1>0, <1>3, <1>4 DEF DeskTyped, Reserved
<1>6. \A s : s \in Sessions' => s \in Sessions
  <2>1. \A q \in Handlers : runs'[q].session \in {runs[q].session, s0}
    BY <1>0, <1>1, <1>2
  <2>2. DOMAIN lines' = DOMAIN lines /\ \A l \in DOMAIN lines : lines'[l].session = lines[l].session
    BY <1>3
  <2> QED BY <2>1, <2>2, <1>1, <1>s, SessionsAre
<1>7. IsFiniteSet(Sessions')
  BY <1>0, <1>6, FiniteStays
<1>8. ASSUME ~met'
      PROVE  Numbered' /\ Alone' /\ (\A q \in Handlers : Got(runs[q])') /\ Holds' /\ LetGo'
             /\ EventsOfSession' /\ BegunOnce'
  <2>1. /\ Numbered /\ Alone /\ (\A q \in Handlers : Got(runs[q])) /\ Holds /\ LetGo
        /\ EventsOfSession /\ BegunOnce
    BY <1>8 DEF DeskInvariant
  <2>2. \A q \in Handlers : q # r => runs[q] = Resting
    BY <2>1, <1>8 DEF Alone
  <2>3. runs[r].session \in {s0, NoVoice}
    <3>1. runs[r].at \in {"rest", "creating", "microphone", "dialing", "ending"} /\ Got(runs[r])
      BY <2>1, <1>0 DEF Run
    <3> QED BY <3>1, <1>s DEF Got
  <2>4. \A s : s \in Sessions => s \in Sessions'
    <3>1. \A q \in Handlers : runs[q].session \in {s0, NoVoice}
      BY <2>2, <2>3, RestingRuns
    <3>2. DOMAIN lines' = DOMAIN lines /\ \A l \in DOMAIN lines : lines'[l].session = lines[l].session
      BY <1>3
    <3> QED BY <3>1, <3>2, <1>1, <1>s, SessionsAre
  <2>5. Numbered'
    BY <2>1, <2>4, <1>6, NumberedStays
  <2>6. Got(run)'
    <3>1. desk.link # NoVoice => /\ desk.link \in DOMAIN lines /\ desk.mic \in DOMAIN mics
      BY <2>1 DEF Holds
    <3> QED BY <3>1, <1>1, <1>2, <1>3, <1>4, <1>s DEF Got
  <2>7. Alone' /\ \A q \in Handlers : Got(runs[q])'
    BY <2>2, <2>6, <1>0, <1>1, RunsAlone
  <2>8. Holds'
    BY <2>1, <1>3, <1>4 DEF Holds
  <2>9. LetGo' /\ EventsOfSession' /\ BegunOnce'
    BY <2>1, <1>1, <1>3, <1>4 DEF LetGo, EventsOfSession, BegunOnce
  <2> QED BY <2>5, <2>7, <2>8, <2>9
<1> QED BY <1>5, <1>7, <1>8 DEF DeskInvariant

LEMMA LeavingSteps ==
    ASSUME DeskInvariant, NEW r \in Handlers, EndVoice(r) \/ ConnectFails(r)
    PROVE  DeskInvariant'
PROOF
<1>0. met \in BOOLEAN
  BY DEF DeskInvariant, DeskTyped
<1>1. CASE EndVoice(r)
  <2>1. Leaves(r) /\ UNCHANGED <<desk, posted>> /\ met' = (met \/ ~Quiet)
    BY <1>1 DEF EndVoice
  <2>2. Quiet \in BOOLEAN /\ (Quiet => \A q \in Handlers : runs[q] = Resting)
    BY DEF Quiet
  <2> HIDE DEF Quiet
  <2>3. met' \in BOOLEAN /\ (met => met') /\ (~met' => \A q \in Handlers : runs[q] = Resting)
    BY <2>1, <2>2, <1>0
  <2> QED BY <2>1, <2>3, LeavesKeeps
<1>2. CASE ConnectFails(r)
  <2>1. Leaves(r) /\ UNCHANGED <<desk, posted, met>> /\ runs[r] # Resting
    BY <1>2, RestingRuns DEF ConnectFails
  <2> QED BY <2>1, <1>0, LeavesKeeps
<1> QED BY <1>1, <1>2

LEMMA VoiceEndedKeeps ==
    ASSUME DeskInvariant, NEW r \in Handlers, VoiceEnded(r)
    PROVE  DeskInvariant'
PROOF
<1>0. /\ DeskTyped /\ IsFiniteSet(Sessions) /\ (\A l \in DOMAIN lines : Reserved(lines[l]))
      /\ desk \in Voice /\ runs \in [Handlers -> Run]
  BY DEF DeskInvariant, DeskTyped
<1>1. /\ UNCHANGED <<mics, lines, posted, completed, met>> /\ runs[r].at = "ending"
      /\ desk' = [Blank EXCEPT !.held = desk.held] /\ runs' = [runs EXCEPT ![r] = Resting]
  BY DEF VoiceEnded
<1>2. /\ desk' \in Voice /\ desk'.session = NoVoice /\ desk'.mic = NoVoice
      /\ desk'.link = NoVoice /\ ~desk'.tools
  BY <1>0, <1>1 DEF Voice, Blank, NoVoice
<1>3. DeskTyped' /\ \A l \in DOMAIN lines' : Reserved(lines'[l])
  BY <1>0, <1>1, <1>2, RestingRuns DEF DeskTyped
<1>4. \A s : s \in Sessions' => s \in Sessions
  <2>1. \A q \in Handlers : runs'[q].session \in {runs[q].session, NoVoice}
    BY <1>0, <1>1, RestingRuns
  <2> QED BY <2>1, <1>1, <1>2, SessionsAre
<1>5. IsFiniteSet(Sessions')
  BY <1>0, <1>4, FiniteStays
<1>6. ASSUME ~met
      PROVE  Numbered' /\ Alone' /\ (\A q \in Handlers : Got(runs[q])') /\ Holds' /\ LetGo'
             /\ EventsOfSession' /\ BegunOnce'
  <2>1. /\ Numbered /\ Alone /\ (\A q \in Handlers : Got(runs[q])) /\ Holds /\ LetGo
        /\ EventsOfSession /\ BegunOnce
    BY <1>6 DEF DeskInvariant
  <2>2. /\ desk.session = runs[r].session /\ (desk.session # NoVoice => desk.session \in completed)
        /\ desk.link # NoVoice => lines[desk.link].browser = "closed" /\ ~mics[desk.mic].live
    BY <2>1, <1>1 DEF Got
  <2>3. \A q \in Handlers : q # r => runs[q] = Resting
    BY <2>1, <1>1, RestingRuns DEF Alone
  <2>4. \A s : s \in Sessions => s \in Sessions'
    <3>1. \A q \in Handlers : runs[q].session \in {desk.session, NoVoice}
      BY <2>2, <2>3, RestingRuns
    <3> QED BY <3>1, <2>2, <1>1, SessionsAre
  <2>5. Numbered'
    BY <2>1, <2>4, <1>4, NumberedStays
  <2>6. Got(Resting)'
    <3>1. Resting.at = "rest" /\ Resting.session = NoVoice
      BY RestingRuns
    <3> QED BY <3>1 DEF Got
  <2>7. Alone' /\ \A q \in Handlers : Got(runs[q])'
    BY <2>3, <2>6, <1>0, <1>1, RunsAlone
  <2>8. Holds' /\ EventsOfSession' /\ BegunOnce'
    BY <2>1, <1>1, <1>2 DEF Holds, EventsOfSession, BegunOnce
  <2>9. LetGo'
    <3>1. ASSUME NEW l \in DOMAIN lines
          PROVE  /\ lines[l].browser = "closed" /\ lines[l].session \in completed
                 /\ lines[l].session # NoVoice
      <4>1. CASE l = desk.link /\ desk.link # NoVoice
        BY <4>1, <2>1, <2>2 DEF Holds
      <4>2. CASE l # desk.link
        BY <4>2, <2>1 DEF LetGo
      <4>3. l # NoVoice
        BY <1>0 DEF DeskTyped, NoVoice
      <4> QED BY <4>1, <4>2, <4>3
    <3>2. ASSUME NEW m \in DOMAIN mics  PROVE ~mics[m].live
      <4>1. CASE m = desk.mic /\ desk.mic # NoVoice
        BY <4>1, <2>1, <2>2 DEF Holds
      <4>2. CASE m # desk.mic
        BY <4>2, <2>1 DEF LetGo
      <4>3. m # NoVoice
        BY <1>0 DEF DeskTyped, NoVoice
      <4> QED BY <4>1, <4>2, <4>3
    <3> QED BY <3>1, <3>2, <1>1, <1>2 DEF LetGo
  <2> QED BY <2>5, <2>7, <2>8, <2>9
<1> QED BY <1>1, <1>3, <1>5, <1>6 DEF DeskInvariant

----------------------------------------------------------------------------
LEMMA DeskSteps == DeskInvariant /\ [NextDesk]_deskVars => DeskInvariant'
PROOF
<1> SUFFICES ASSUME DeskInvariant, [NextDesk]_deskVars  PROVE DeskInvariant'
  OBVIOUS
<1>1. ASSUME NEW r \in Handlers,
             \/ StartVoice(r) \/ VoiceCreated(r) \/ MicrophoneOpened(r)
             \/ Established(r) \/ EndVoice(r) \/ ConnectFails(r) \/ VoiceEnded(r)
      PROVE  DeskInvariant'
  BY <1>1, StartVoiceKeeps, VoiceCreatedKeeps, MicrophoneOpenedKeeps, EstablishedKeeps,
     LeavingSteps, VoiceEndedKeeps
<1>2. ASSUME NEW l \in DOMAIN lines,
             \/ ResponseDone(l) \/ Reported(l) \/ Readied(l)
             \/ ReserveCall(l) \/ CallSettled(l) \/ CallFailed(l) \/ RelayEnds(l)
      PROVE  DeskInvariant'
  BY <1>2, EventSteps, ReadiedKeeps, ServerSteps
<1>3. CASE ChooseTemplate \/ ToggleMute \/ TogglePtt \/ PressPtt \/ ReleasePtt
  BY <1>3, ButtonSteps
<1>4. CASE UNCHANGED deskVars
  BY <1>4 DEF deskVars, DeskInvariant, DeskTyped, Sessions, Numbered, Alone, Got, Holds, LetGo,
              EventsOfSession, BegunOnce
<1> QED BY <1>1, <1>2, <1>3, <1>4, Zenon DEF NextDesk

LEMMA DeskHolds == DeskInvariant => VoiceKept
PROOF
<1> SUFFICES ASSUME DeskInvariant  PROVE VoiceKept
  OBVIOUS
<1>0. DeskTyped /\ \A l \in DOMAIN lines : Reserved(lines[l])
  BY DEF DeskInvariant
<1>1. CallsEnded
  BY <1>0 DEF CallsEnded, Reserved
<1>2. ASSUME ~met
      PROVE  MicrophoneClosed /\ MutedSilent /\ EventsOfSession /\ BegunOnce /\ SessionsLeft
  <2>1. Holds /\ LetGo /\ EventsOfSession /\ BegunOnce
    BY <1>2 DEF DeskInvariant
  <2>2. \A m \in DOMAIN mics : m # NoVoice
    BY <1>0 DEF DeskTyped, NoVoice
  <2>3. \A l \in DOMAIN lines : l # NoVoice
    BY <1>0 DEF DeskTyped, NoVoice
  <2>4. MicrophoneClosed
    BY <2>1, <2>2 DEF MicrophoneClosed, Recording, Holds, LetGo
  <2>5. SessionsLeft
    BY <2>1, <2>3 DEF SessionsLeft, Holds, LetGo
  <2>6. MutedSilent
    <3>1. ASSUME desk.muted, ~(desk.ptt /\ desk.held), NEW l \in Open  PROVE ~Sends(l)
      <4>1. l \in DOMAIN lines /\ lines[l].browser = "open"
        BY DEF Open
      <4>2. l = desk.link /\ desk.link # NoVoice
        BY <4>1, <2>1, <2>3 DEF LetGo
      <4>3. lines[l].mic = desk.mic /\ ~mics[desk.mic].on
        BY <4>2, <3>1, <2>1 DEF Holds
      <4> QED BY <4>3 DEF Sends
    <3> QED BY <3>1 DEF MutedSilent
  <2> QED BY <2>1, <2>4, <2>5, <2>6
<1> QED BY <1>1, <1>2 DEF VoiceKept

\* VoiceKept: whatever order the waits of connectVoice and endVoice, the buttons, the
\* events of the provider and the relay come in, and whatever fails between them, the
\* page keeps no microphone beyond its session, a muted learner is not heard, an event
\* is posted to the session it happened in, the examination begins once, every session
\* is completed by the time the page has none, and every reservation of a call ends.
THEOREM VoiceIsKept == DeskSpec => []VoiceKept
PROOF
<1>1. DeskSpec => []DeskInvariant
  BY DeskStarts, DeskSteps, PTL DEF DeskSpec
<1> QED BY <1>1, DeskHolds, PTL

----------------------------------------------------------------------------
(* The signals of a provider's events: the inductive invariant *)

Kinds == {"response.created", "speech_started", "audio.delta", "audio.done",
          "completed", "cancelled", "failed"}
Types == {"RESPONSE_STARTED", "SPEECH_STARTED", "AUDIO_STARTED", "AUDIO_COMPLETED",
          "RESPONSE_COMPLETED", "RESPONSE_CANCELLED", "PROVIDER_ERROR"}
Finals == {"RESPONSE_COMPLETED", "RESPONSE_CANCELLED", "PROVIDER_ERROR"}
Sending == [nr : Nat, kind : Kinds, item : 0..2, response : Nat]
Signal == [id : Seq(Nat), type : Types, response : Nat, event : Nat]

SignalsTyped ==
    /\ identified \in BOOLEAN /\ naming \in {"response", "item", "neither"}
    /\ stream \in Seq(Sending) /\ repeats \in Nat /\ active \in Nat
    /\ signals \in Seq(Signal)

\* The provider sends one response after the other.
Ended == UNION {Sent(kind) : kind \in Ends}
StreamSent ==
    /\ \A i \in DOMAIN stream : stream[i].nr = i /\ stream[i].response <= Responses
    /\ Responses \in {Cardinality(Ended), Cardinality(Ended) + 1}

\* The audio of a response that goes by its name is started once.
ByName(r) == <<"response", r>>
StartedByName ==
    identified \/ naming = "response" =>
        \A r \in Nat : \A i \in Of(r, "AUDIO_STARTED") :
            ByName(r) \in started /\ \A j \in Of(r, "AUDIO_STARTED") : i = j

\* With event ids, what is known is what was sent, and was told of in that order.
KnownAsSent ==
    /\ seen = DOMAIN stream /\ active = IF Talking THEN Responses ELSE NoResponse
    /\ \A i \in DOMAIN signals :
         /\ signals[i].id = <<signals[i].event>> /\ signals[i].event \in DOMAIN stream
         /\ signals[i].response <= Responses
         /\ \A j \in DOMAIN signals : i < j => signals[i].event < signals[j].event

AudioTold == \A r \in Nat :
    /\ ByName(r) \in started <=> Heard(r)
    /\ Heard(r) => Of(r, "AUDIO_STARTED") # {}
    /\ r \in 1..Responses => Of(r, "RESPONSE_STARTED") # {}
    /\ \A i \in Of(r, "AUDIO_STARTED") : \E b \in Of(r, "RESPONSE_STARTED") : b < i
    /\ \A c \in Of(r, "AUDIO_COMPLETED") : \E i \in Of(r, "AUDIO_STARTED") : i < c

\* The responses that were told of have ended, but for one the provider is at.
EndsTold == \A i \in DOMAIN signals : signals[i].type = "RESPONSE_STARTED" =>
    \/ Talking /\ signals[i].response = Responses
    \/ \E k \in DOMAIN signals :
         i <= k /\ signals[k].response = signals[i].response /\ signals[k].type \in Finals

SignalsInvariant ==
    /\ SignalsTyped /\ StreamSent /\ StartedByName
    /\ identified => KnownAsSent /\ AudioTold /\ EndsTold /\ OneAtATime

\* What has been counted of the stream.
LEMMA StreamCounted ==
    ASSUME SignalsTyped
    PROVE  /\ DOMAIN stream = 1..Len(stream) /\ Len(stream) \in Nat
           /\ \A kind : IsFiniteSet(Sent(kind)) /\ Sent(kind) \subseteq DOMAIN stream
           /\ IsFiniteSet(Ended) /\ Ended \subseteq DOMAIN stream
           /\ Responses \in Nat /\ Cardinality(Ended) \in Nat
           /\ Talking <=> Responses > Cardinality(Ended)
PROOF
<1>1. DOMAIN stream = 1..Len(stream) /\ Len(stream) \in Nat
  BY DEF SignalsTyped
<1>2. IsFiniteSet(DOMAIN stream)
  BY <1>1, FS_Interval
<1>3. \A kind : IsFiniteSet(Sent(kind)) /\ Sent(kind) \subseteq DOMAIN stream
  <2>1. \A kind : Sent(kind) \subseteq DOMAIN stream
    BY DEF Sent
  <2> QED BY <2>1, <1>2, FS_Subset
<1>4. Ended \subseteq DOMAIN stream
  BY <1>3 DEF Ended
<1>5. IsFiniteSet(Ended)
  BY <1>2, <1>4, FS_Subset
<1>6. Responses \in Nat /\ Cardinality(Ended) \in Nat
  BY <1>3, <1>5, FS_CardinalityType DEF Responses
<1> QED BY <1>1, <1>3, <1>4, <1>5, <1>6 DEF Talking, Ended

\* How the counts go on with one more event.
LEMMA StreamGrows ==
    ASSUME SignalsTyped, NEW event \in Sending, stream' = Append(stream, event)
    PROVE  LET n == Len(stream) + 1 IN
           /\ stream' \in Seq(Sending) /\ Len(stream') = n /\ n \notin DOMAIN stream
           /\ DOMAIN stream' = DOMAIN stream \cup {n} /\ stream'[n] = event
           /\ \A i \in DOMAIN stream : stream'[i] = stream[i]
           /\ Responses' = Responses + (IF event.kind = "response.created" THEN 1 ELSE 0)
           /\ Cardinality(Ended') = Cardinality(Ended) + (IF event.kind \in Ends THEN 1 ELSE 0)
           /\ (Talking' <=> Responses' > Cardinality(Ended'))
           /\ \A r : Heard(r)' <=> Heard(r) \/ (event.kind = "audio.delta" /\ event.response = r)
PROOF
<1> DEFINE n == Len(stream) + 1
<1>1. /\ stream' \in Seq(Sending) /\ Len(stream') = n /\ n \notin DOMAIN stream
      /\ DOMAIN stream' = DOMAIN stream \cup {n} /\ stream'[n] = event
      /\ \A i \in DOMAIN stream : stream'[i] = stream[i]
  <2>1. stream \in Seq(Sending) /\ Len(stream) \in Nat /\ DOMAIN stream = 1..Len(stream)
    BY DEF SignalsTyped
  <2>2. /\ stream' \in Seq(Sending) /\ Len(stream') = n /\ stream'[n] = event
        /\ \A i \in 1..Len(stream) : stream'[i] = stream[i]
    BY <2>1
  <2>3. DOMAIN stream' = 1..n
    BY <2>1, <2>2
  <2> QED BY <2>1, <2>2, <2>3
<1> HIDE DEF n
<1>2. ASSUME NEW kind
      PROVE  /\ event.kind = kind => Sent(kind)' = Sent(kind) \cup {n}
             /\ event.kind # kind => Sent(kind)' = Sent(kind)
             /\ n \notin Sent(kind)
  BY <1>1 DEF Sent
<1>3. /\ event.kind \in Ends => Ended' = Ended \cup {n}
      /\ event.kind \notin Ends => Ended' = Ended
      /\ n \notin Ended
  <2>1. /\ \A i : i \in Ended <=> \E kind \in Ends : i \in Sent(kind)
        /\ \A i : i \in Ended' <=> \E kind \in Ends : i \in Sent(kind)'
    BY Zenon DEF Ended, Ends
  <2>2. CASE event.kind \in Ends
    <3>1. \A i : i \in Ended' <=> i \in Ended \cup {n}
      BY <2>1, <2>2, <1>2
    <3> QED BY <3>1, <2>1, <2>2, <1>2
  <2>3. CASE event.kind \notin Ends
    <3>1. \A i : i \in Ended' <=> i \in Ended
      BY <2>1, <2>3, <1>2
    <3> QED BY <3>1, <2>1, <2>3, <1>2
  <2> QED BY <2>2, <2>3
<1>4. Responses' = Responses + (IF event.kind = "response.created" THEN 1 ELSE 0)
  <2>1. IsFiniteSet(Sent("response.created")) /\ Responses \in Nat
    BY StreamCounted
  <2>2. Responses = Cardinality(Sent("response.created"))
        /\ Responses' = Cardinality(Sent("response.created")')
    BY DEF Responses
  <2>3. CASE event.kind = "response.created"
    <3>1. Cardinality(Sent("response.created") \cup {n}) = Cardinality(Sent("response.created")) + 1
      BY <2>1, <1>2, FS_AddElement
    <3> QED BY <3>1, <2>2, <2>3, <1>2
  <2>4. CASE event.kind # "response.created"
    BY <2>1, <2>2, <2>4, <1>2
  <2> QED BY <2>3, <2>4
<1>5. Cardinality(Ended') = Cardinality(Ended) + (IF event.kind \in Ends THEN 1 ELSE 0)
  <2>1. IsFiniteSet(Ended) /\ Cardinality(Ended) \in Nat
    BY StreamCounted
  <2>2. CASE event.kind \in Ends
    <3>1. Cardinality(Ended \cup {n}) = Cardinality(Ended) + 1
      BY <2>1, <1>3, FS_AddElement
    <3> QED BY <3>1, <2>2, <1>3
  <2>3. CASE event.kind \notin Ends
    BY <2>1, <2>3, <1>3
  <2> QED BY <2>2, <2>3
<1>6. Talking' <=> Responses' > Cardinality(Ended')
  BY Zenon DEF Talking, Ended, Ends
<1>7. ASSUME NEW r
      PROVE  Heard(r)' <=> Heard(r) \/ (event.kind = "audio.delta" /\ event.response = r)
  <2>1. /\ \A i \in Sent("audio.delta") : i \in DOMAIN stream
        /\ n \notin Sent("audio.delta")
    BY <1>2 DEF Sent
  <2>2. CASE event.kind = "audio.delta"
    <3>1. Sent("audio.delta")' = Sent("audio.delta") \cup {n}
      BY <2>2, <1>2
    <3> QED BY <3>1, <2>1, <2>2, <1>1 DEF Heard
  <2>3. CASE event.kind # "audio.delta"
    <3>1. Sent("audio.delta")' = Sent("audio.delta")
      BY <2>3, <1>2
    <3> QED BY <3>1, <2>1, <2>3, <1>1 DEF Heard
  <2> QED BY <2>2, <2>3
<1> QED BY <1>1, <1>4, <1>5, <1>6, <1>7 DEF n

\* The events the provider may send.
LEMMA EventsNext ==
    ASSUME SignalsTyped, NEW event \in Next1
    PROVE  /\ event \in Sending /\ event.nr = Len(stream) + 1
           /\ event.kind = "response.created" => ~Talking /\ event.response = Responses + 1
           /\ event.kind \in Ends \cup {"audio.delta", "audio.done"} =>
                Talking /\ event.response = Responses
           /\ event.kind = "speech_started" => event.response \in {NoResponse, Responses}
           /\ event.kind = "audio.done" => Heard(Responses)
PROOF
<1>0. Responses \in Nat /\ Len(stream) \in Nat
  BY StreamCounted
<1>1. ASSUME NEW kind \in Kinds, NEW item \in 0..2
      PROVE  /\ Event(kind, item) \in Sending /\ Event(kind, item).nr = Len(stream) + 1
             /\ Event(kind, item).kind = kind
             /\ Event(kind, item).response = IF kind = "response.created" THEN Responses + 1
                                             ELSE IF Talking THEN Responses ELSE NoResponse
  BY <1>0 DEF Event, Sending, NoResponse
<1>2. \/ ~Talking /\ event = Event("response.created", 0)
      \/ event = Event("speech_started", 0)
      \/ Talking /\ \E kind \in Ends : event = Event(kind, 0)
      \/ Talking /\ \E item \in 1..2 : event = Event("audio.delta", item)
      \/ Talking /\ \E item \in 1..2 : event = Event("audio.done", item) /\ "audio.delta" \in SentFor(item)
  BY Zenon DEF Next1
<1>3. ASSUME NEW item, "audio.delta" \in SentFor(item)  PROVE Heard(Responses)
  BY <1>3 DEF SentFor, Heard, Sent
<1>4. CASE ~Talking /\ event = Event("response.created", 0)
  <2>1. "response.created" \in Kinds /\ 0 \in 0..2
    BY DEF Kinds
  <2> QED BY <2>1, <1>1, <1>4 DEF Ends
<1>5. CASE event = Event("speech_started", 0)
  <2>1. "speech_started" \in Kinds /\ 0 \in 0..2
    BY DEF Kinds
  <2> QED BY <2>1, <1>1, <1>5 DEF Ends
<1>6. ASSUME Talking, NEW kind \in Ends, event = Event(kind, 0)
      PROVE  event \in Sending /\ event.nr = Len(stream) + 1 /\ event.kind = kind
             /\ event.response = Responses
  <2>1. kind \in Kinds /\ 0 \in 0..2 /\ kind # "response.created"
    BY DEF Kinds, Ends
  <2> QED BY <2>1, <1>1, <1>6
<1>7. ASSUME Talking, NEW item \in 1..2, NEW kind \in {"audio.delta", "audio.done"},
             event = Event(kind, item)
      PROVE  event \in Sending /\ event.nr = Len(stream) + 1 /\ event.kind = kind
             /\ event.response = Responses
  <2>1. kind \in Kinds /\ item \in 0..2 /\ kind # "response.created"
    BY DEF Kinds
  <2> QED BY <2>1, <1>1, <1>7
<1>8. CASE Talking /\ \E kind \in Ends : event = Event(kind, 0)
  BY <1>6, <1>8 DEF Ends
<1>9. CASE Talking /\ \E item \in 1..2 : event = Event("audio.delta", item)
  BY <1>7, <1>9 DEF Ends
<1>10. CASE Talking /\ \E item \in 1..2 : event = Event("audio.done", item)
                                          /\ "audio.delta" \in SentFor(item)
  BY <1>3, <1>7, <1>10 DEF Ends
<1> QED BY <1>2, <1>4, <1>5, <1>8, <1>9, <1>10

LEMMA SignalsStart == InitSignals => SignalsInvariant
PROOF
<1> SUFFICES ASSUME InitSignals  PROVE SignalsInvariant
  OBVIOUS
<1>1. /\ identified \in BOOLEAN /\ naming \in {"response", "item", "neither"}
      /\ stream = <<>> /\ repeats = 0 /\ seen = {} /\ started = {} /\ active = NoResponse
      /\ signals = <<>> /\ DOMAIN stream = {} /\ DOMAIN signals = {}
  BY DEF InitSignals
<1>2. SignalsTyped
  BY <1>1 DEF SignalsTyped, NoResponse
<1>3. (\A kind : Sent(kind) = {}) /\ \A r, type : Of(r, type) = {}
  BY <1>1 DEF Sent, Of
<1>4. Responses = 0 /\ Cardinality(Ended) = 0
  <2>1. Ended = {}
    BY <1>3 DEF Ended
  <2> QED BY <2>1, <1>3, FS_EmptySet DEF Responses
<1>5. ~Talking
  BY <1>2, <1>4, StreamCounted
<1>6. StreamSent /\ StartedByName
  BY <1>1, <1>3, <1>4 DEF StreamSent, StartedByName
<1>7. KnownAsSent /\ EndsTold /\ OneAtATime
  BY <1>1, <1>5 DEF KnownAsSent, EndsTold, OneAtATime
<1>8. AudioTold
  BY <1>1, <1>3, <1>4 DEF AudioTold, Heard
<1> QED BY <1>2, <1>6, <1>7, <1>8 DEF SignalsInvariant

----------------------------------------------------------------------------
(* normalize *)

\* What a signal more says of the responses.
LEMMA SignalAdded ==
    ASSUME signals \in Seq(Signal), NEW signal \in Signal, signals' = Append(signals, signal)
    PROVE  LET n == Len(signals) + 1 IN
           /\ signals' \in Seq(Signal) /\ signals'[n] = signal /\ n \in Nat
           /\ DOMAIN signals' = DOMAIN signals \cup {n}
           /\ \A i \in DOMAIN signals : signals'[i] = signals[i] /\ i < n /\ i \in Nat
           /\ \A r, type, i : i \in Of(r, type)' <=>
                i \in Of(r, type) \/ (i = n /\ signal.response = r /\ signal.type = type)
PROOF
<1> DEFINE n == Len(signals) + 1
<1>1. Len(signals) \in Nat /\ DOMAIN signals = 1..Len(signals)
  OBVIOUS
<1>2. /\ signals' \in Seq(Signal) /\ Len(signals') = n /\ signals'[n] = signal
      /\ \A i \in 1..Len(signals) : signals'[i] = signals[i]
  BY <1>1
<1>3. DOMAIN signals' = DOMAIN signals \cup {n}
  BY <1>1, <1>2
<1>4. \A i \in DOMAIN signals : signals'[i] = signals[i] /\ i < n /\ i \in Nat
  BY <1>1, <1>2
<1>5. n \in Nat /\ n \notin DOMAIN signals
  BY <1>1
<1> HIDE DEF n
<1>6. \A r, type, i : i \in Of(r, type)' <=>
        i \in Of(r, type) \/ (i = n /\ signal.response = r /\ signal.type = type)
  BY <1>2, <1>3, <1>4, <1>5 DEF Of
<1> QED BY <1>2, <1>3, <1>4, <1>5, <1>6 DEF n

\* The signal of an event.
Made(event) == [id |-> SignalId(event), type |-> Type(event),
                response |-> event.response, event |-> event.nr]

LEMMA SignalMade ==
    ASSUME SignalsTyped, repeats' \in Nat, NEW event \in Sending
    PROVE  /\ Made(event) \in Signal
           /\ Made(event).response = event.response /\ Made(event).event = event.nr
           /\ Made(event).type = Type(event) /\ Made(event).id = SignalId(event)
           /\ Type(event) = "AUDIO_STARTED" <=> event.kind = "audio.delta"
           /\ Type(event) = "AUDIO_COMPLETED" <=> event.kind = "audio.done"
           /\ Type(event) = "RESPONSE_STARTED" <=> event.kind = "response.created"
           /\ Type(event) \in Finals <=> event.kind \in Ends
PROOF
<1>1. event.kind \in Kinds /\ event.nr \in Nat /\ event.response \in Nat
  BY DEF Sending
<1>2. /\ Type(event) \in Types
      /\ Type(event) = "AUDIO_STARTED" <=> event.kind = "audio.delta"
      /\ Type(event) = "AUDIO_COMPLETED" <=> event.kind = "audio.done"
      /\ Type(event) = "RESPONSE_STARTED" <=> event.kind = "response.created"
      /\ Type(event) \in Finals <=> event.kind \in Ends
  BY <1>1 DEF Type, Kinds, Types, Finals, Ends
<1>3. SignalId(event) \in Seq(Nat)
  BY <1>1 DEF SignalId
<1>4. Made(event) \in Signal
  BY <1>1, <1>2, <1>3 DEF Made, Signal
<1> QED BY <1>2, <1>4 DEF Made

LEMMA NormalizeKeeps ==
    ASSUME SignalsTyped, StartedByName, NEW event \in Sending, repeats' \in Nat, Normalize(event),
           UNCHANGED <<identified, naming>>,
           identified /\ ~Dropped(event) /\ event.kind = "audio.delta" =>
             AudioKey(event) = ByName(event.response)
    PROVE  active' \in Nat /\ signals' \in Seq(Signal) /\ StartedByName'
PROOF
<1>0. signals \in Seq(Signal) /\ active \in Nat /\ event.response \in Nat
  BY DEF SignalsTyped, Sending
<1>1. CASE Dropped(event)
  <2>1. UNCHANGED <<started, active, signals>>
    BY <1>1 DEF Normalize
  <2> QED BY <2>1, <1>0 DEF StartedByName, Of
<1>2. CASE ~Dropped(event)
  <2>1. /\ started' = IF event.kind = "audio.delta" THEN started \cup {AudioKey(event)} ELSE started
        /\ active' = CASE event.kind = "response.created" -> event.response
                       [] event.kind \in Ends -> NoResponse
                       [] OTHER -> active
        /\ signals' = IF Silent(event) THEN signals ELSE Append(signals, Made(event))
    BY <1>2 DEF Normalize, Made
  <2>2. active' \in Nat
    BY <2>1, <1>0 DEF NoResponse
  <2>3. CASE Silent(event)
    <3>1. signals' = signals /\ started \subseteq started'
      BY <2>1, <2>3
    <3> QED BY <3>1, <2>2, <1>0 DEF StartedByName, Of
  <2>4. CASE ~Silent(event)
    <3>1. signals' = Append(signals, Made(event)) /\ started \subseteq started'
      BY <2>1, <2>4
    <3>2. Made(event) \in Signal /\ Made(event).response = event.response
          /\ (Made(event).type = "AUDIO_STARTED" <=> event.kind = "audio.delta")
      BY SignalMade
    <3> DEFINE n == Len(signals) + 1
    <3>3. /\ signals' \in Seq(Signal)
          /\ \A r, i : i \in Of(r, "AUDIO_STARTED")' <=>
               i \in Of(r, "AUDIO_STARTED") \/ (i = n /\ event.response = r /\ event.kind = "audio.delta")
      BY <3>1, <3>2, <1>0, SignalAdded
    <3>4. ASSUME identified \/ naming = "response", event.kind = "audio.delta"
          PROVE  ByName(event.response) \in started' /\ ByName(event.response) \notin started
      <4>1. AudioKey(event) = ByName(event.response)
        BY <3>4, <1>2 DEF AudioKey, ByName
      <4> QED BY <4>1, <3>4, <2>1, <2>4 DEF Silent
    <3>5. StartedByName'
      <4>1. ASSUME identified \/ naming = "response", NEW r \in Nat,
                   NEW i \in Of(r, "AUDIO_STARTED")'
            PROVE  ByName(r) \in started' /\ \A j \in Of(r, "AUDIO_STARTED")' : i = j
        <5> HIDE DEF n
        <5>1. \A k \in Of(r, "AUDIO_STARTED") :
                ByName(r) \in started /\ \A j \in Of(r, "AUDIO_STARTED") : k = j
          BY <4>1 DEF StartedByName
        <5> QED BY <5>1, <4>1, <3>1, <3>3, <3>4
      <4> QED BY <4>1 DEF StartedByName
    <3> QED BY <3>3, <3>5, <2>2
  <2> QED BY <2>3, <2>4
<1> QED BY <1>1, <1>2

LEMMA DeliverAgainKeeps ==
    ASSUME SignalsInvariant, NEW i \in DOMAIN stream, DeliverAgain(i)
    PROVE  SignalsInvariant'
PROOF
<1>0. /\ SignalsTyped /\ StreamSent /\ StartedByName
      /\ identified => KnownAsSent /\ AudioTold /\ EndsTold /\ OneAtATime
  BY DEF SignalsInvariant
<1>1. /\ UNCHANGED <<identified, naming, stream>> /\ repeats' \in Nat /\ Normalize(stream[i])
      /\ stream[i] \in Sending /\ stream[i].nr = i
  BY <1>0 DEF DeliverAgain, SignalsTyped, StreamSent
<1>2. identified => Dropped(stream[i])
  BY <1>0, <1>1 DEF Dropped, KnownAsSent
<1>3. active' \in Nat /\ signals' \in Seq(Signal) /\ StartedByName'
  BY <1>0, <1>1, <1>2, NormalizeKeeps
<1>4. SignalsTyped'
  BY <1>0, <1>1, <1>3 DEF SignalsTyped
<1>5. /\ \A kind : Sent(kind)' = Sent(kind)
      /\ Ended' = Ended /\ Responses' = Responses /\ (Talking' <=> Talking)
      /\ \A r : Heard(r)' <=> Heard(r)
  <2>1. \A kind : Sent(kind)' = Sent(kind)
    BY <1>1 DEF Sent
  <2>2. Ended' = Ended
    BY <2>1 DEF Ended
  <2>3. Responses' = Responses
    BY <2>1 DEF Responses
  <2>4. Talking' <=> Talking
    <3>1. Talking <=> Responses > Cardinality(Ended)
      BY <1>0, StreamCounted
    <3>2. Talking' <=> Responses' > Cardinality(Ended')
      BY Zenon DEF Talking, Ended, Ends
    <3> QED BY <3>1, <3>2, <2>2, <2>3
  <2> QED BY <2>1, <2>2, <2>3, <2>4, <1>1 DEF Heard
<1>6. StreamSent'
  BY <1>0, <1>1, <1>5 DEF StreamSent
<1>7. ASSUME identified
      PROVE  KnownAsSent' /\ AudioTold' /\ EndsTold' /\ OneAtATime'
  <2>1. UNCHANGED <<seen, started, active, signals>>
    BY <1>1, <1>2, <1>7 DEF Normalize
  <2>2. \A r, type : Of(r, type)' = Of(r, type)
    BY <2>1 DEF Of
  <2>3. KnownAsSent' /\ EndsTold' /\ OneAtATime'
    BY <2>1, <1>0, <1>1, <1>5, <1>7 DEF KnownAsSent, EndsTold, OneAtATime
  <2>4. AudioTold'
    BY <2>1, <2>2, <1>0, <1>5, <1>7 DEF AudioTold
  <2> QED BY <2>3, <2>4
<1> QED BY <1>1, <1>3, <1>4, <1>6, <1>7 DEF SignalsInvariant

\* With event ids, what the provider sends is told of once and in its order.
LEMMA SentIsTold ==
    ASSUME SignalsInvariant, identified, UNCHANGED <<identified, naming, repeats>>,
           NEW event \in Next1, stream' = Append(stream, event), Normalize(event),
           Responses' = Responses + (IF event.kind = "response.created" THEN 1 ELSE 0),
           event.kind = "response.created" => Talking',
           event.kind \in Ends => ~Talking',
           event.kind \notin Ends \cup {"response.created"} => (Talking' <=> Talking)
    PROVE  KnownAsSent' /\ AudioTold' /\ EndsTold' /\ OneAtATime'
PROOF
<1> DEFINE n == Len(stream) + 1
           m == Len(signals) + 1
<1>0. /\ SignalsTyped /\ StreamSent /\ KnownAsSent /\ AudioTold /\ EndsTold /\ OneAtATime
      /\ signals \in Seq(Signal) /\ repeats' \in Nat
  BY DEF SignalsInvariant, SignalsTyped
<1>1. /\ event \in Sending /\ event.nr = n /\ event.kind \in Kinds /\ event.response \in Nat
      /\ event.kind = "response.created" => ~Talking /\ event.response = Responses + 1
      /\ event.kind \in Ends \cup {"audio.delta", "audio.done"} =>
           Talking /\ event.response = Responses
      /\ event.kind = "speech_started" => event.response \in {NoResponse, Responses}
      /\ event.kind = "audio.done" => Heard(Responses)
  BY <1>0, EventsNext DEF Sending
<1>2. /\ n \notin DOMAIN stream /\ DOMAIN stream' = DOMAIN stream \cup {n} /\ n \in Nat
      /\ \A i \in DOMAIN stream : i \in Nat /\ i < n
      /\ \A r : Heard(r)' <=> Heard(r) \/ (event.kind = "audio.delta" /\ event.response = r)
  <2>1. DOMAIN stream = 1..Len(stream) /\ Len(stream) \in Nat
    BY <1>0, StreamCounted
  <2>2. \A i \in DOMAIN stream : i \in Nat /\ i < n
    BY <2>1
  <2> QED BY <2>1, <2>2, <1>0, <1>1, StreamGrows
<1>3. Responses \in Nat /\ (Talking => Responses \in 1..Responses)
  BY <1>0, StreamCounted
<1>4. /\ seen' = DOMAIN stream'
      /\ started' = IF event.kind = "audio.delta" THEN started \cup {AudioKey(event)} ELSE started
      /\ active' = CASE event.kind = "response.created" -> event.response
                     [] event.kind \in Ends -> NoResponse
                     [] OTHER -> active
      /\ signals' = IF Silent(event) THEN signals ELSE Append(signals, Made(event))
  <2>1. ~Dropped(event)
    BY <1>0, <1>1, <1>2 DEF Dropped, KnownAsSent
  <2>2. /\ seen' = IF identified THEN seen \cup {event.nr} ELSE seen
        /\ started' = IF event.kind = "audio.delta" THEN started \cup {AudioKey(event)} ELSE started
        /\ active' = CASE event.kind = "response.created" -> event.response
                       [] event.kind \in Ends -> NoResponse
                       [] OTHER -> active
        /\ signals' = IF Silent(event) THEN signals ELSE Append(signals, Made(event))
    BY <2>1 DEF Normalize, Made
  <2> QED BY <2>2, <1>0, <1>1, <1>2 DEF KnownAsSent
<1>5. event.kind = "audio.delta" => AudioKey(event) = ByName(Responses)
  BY <1>0, <1>1, <1>3 DEF AudioKey, ByName, KnownAsSent, NoResponse
<1>6. active' = IF Talking' THEN Responses' ELSE NoResponse
  BY <1>0, <1>1, <1>3, <1>4 DEF KnownAsSent, Ends
<1>7. \A r \in Nat : ByName(r) \in started' <=> Heard(r)'
  <2>1. \A r, q \in Nat : ByName(r) = ByName(q) => r = q
    BY DEF ByName
  <2>2. \A r \in Nat : ByName(r) \in started <=> Heard(r)
    BY <1>0 DEF AudioTold
  <2>3. CASE event.kind = "audio.delta"
    <3>1. started' = started \cup {ByName(Responses)} /\ event.response = Responses
      BY <2>3, <1>1, <1>4, <1>5
    <3> QED BY <3>1, <2>1, <2>2, <2>3, <1>2, <1>3
  <2>4. CASE event.kind # "audio.delta"
    BY <2>2, <2>4, <1>2, <1>4
  <2> QED BY <2>3, <2>4
<1>8. Responses' >= Responses /\ Responses' \in Nat
  BY <1>3
<1> HIDE DEF n, m
<1>9. CASE Silent(event)
  <2>1. signals' = signals /\ event.kind = "audio.delta" /\ Responses' = Responses
        /\ (Talking' <=> Talking)
    BY <1>3, <1>4, <1>9 DEF Silent, Ends
  <2>2. \A r, type : Of(r, type)' = Of(r, type)
    BY <2>1 DEF Of
  <2>3. \A r \in Nat : Heard(r)' <=> Heard(r)
    <3>1. Heard(Responses)
      BY <2>1, <1>0, <1>3, <1>5, <1>9 DEF Silent, AudioTold
    <3> QED BY <3>1, <2>1, <1>1, <1>2
  <2>4. KnownAsSent'
    BY <2>1, <1>0, <1>2, <1>4, <1>6 DEF KnownAsSent
  <2>5. AudioTold'
    BY <2>1, <2>2, <2>3, <1>0, <1>7 DEF AudioTold
  <2>6. EndsTold' /\ OneAtATime'
    BY <2>1, <1>0 DEF EndsTold, OneAtATime
  <2> QED BY <2>4, <2>5, <2>6
<1>10. CASE ~Silent(event)
  <2>0. /\ Made(event) \in Signal
        /\ Made(event).response = event.response /\ Made(event).event = n
        /\ Made(event).id = <<n>>
        /\ Made(event).type = "AUDIO_STARTED" <=> event.kind = "audio.delta"
        /\ Made(event).type = "AUDIO_COMPLETED" <=> event.kind = "audio.done"
        /\ Made(event).type = "RESPONSE_STARTED" <=> event.kind = "response.created"
        /\ Made(event).type \in Finals <=> event.kind \in Ends
    <3>1. SignalId(event) = <<n>>
      BY <1>1 DEF SignalId
    <3> QED BY <3>1, <1>0, <1>1, SignalMade
  <2>1. /\ signals' \in Seq(Signal) /\ signals'[m] = Made(event) /\ m \in Nat
        /\ DOMAIN signals' = DOMAIN signals \cup {m}
        /\ \A i \in DOMAIN signals : signals'[i] = signals[i] /\ i < m /\ i \in Nat
        /\ \A r, type, i : i \in Of(r, type)' <=>
             i \in Of(r, type) \/ (i = m /\ event.response = r /\ Made(event).type = type)
    BY <2>0, <1>0, <1>4, <1>10, SignalAdded DEF m
  <2>2. \A r, type : \A i \in Of(r, type) : i \in DOMAIN signals /\ i < m /\ i \in Of(r, type)'
    BY <2>1 DEF Of
  <2>3. KnownAsSent'
    <3>1. ASSUME NEW i \in DOMAIN signals'
          PROVE  /\ signals'[i].id = <<signals'[i].event>> /\ signals'[i].event \in DOMAIN stream'
                 /\ signals'[i].response <= Responses'
                 /\ \A j \in DOMAIN signals' : i < j => signals'[i].event < signals'[j].event
      <4>1. \A k \in DOMAIN signals :
              /\ signals[k].id = <<signals[k].event>> /\ signals[k].event \in DOMAIN stream
              /\ signals[k].response <= Responses /\ signals[k].response \in Nat
              /\ \A j \in DOMAIN signals : k < j => signals[k].event < signals[j].event
        <5>1. \A k \in DOMAIN signals : signals[k] \in Signal
          BY <1>0
        <5>2. \A k \in DOMAIN signals : signals[k].response \in Nat
          BY <5>1 DEF Signal
        <5> QED BY <5>2, <1>0 DEF KnownAsSent
      <4>2. event.response <= Responses'
        BY <1>1, <1>3 DEF NoResponse, Kinds, Ends
      <4>3. CASE i = m
        BY <4>2, <4>3, <2>0, <2>1, <1>2
      <4>4. CASE i \in DOMAIN signals
        BY <4>1, <4>4, <2>0, <2>1, <1>2, <1>3, <1>8
      <4> QED BY <4>3, <4>4, <2>1
    <3> QED BY <3>1, <1>4, <1>6 DEF KnownAsSent
  <2>4. AudioTold'
    <3>1. ASSUME NEW r \in Nat
          PROVE  /\ Heard(r)' => Of(r, "AUDIO_STARTED")' # {}
                 /\ r \in 1..Responses' => Of(r, "RESPONSE_STARTED")' # {}
                 /\ \A i \in Of(r, "AUDIO_STARTED")' : \E b \in Of(r, "RESPONSE_STARTED")' : b < i
                 /\ \A c \in Of(r, "AUDIO_COMPLETED")' : \E i \in Of(r, "AUDIO_STARTED")' : i < c
      <4>1. /\ Heard(r) => Of(r, "AUDIO_STARTED") # {}
            /\ r \in 1..Responses => Of(r, "RESPONSE_STARTED") # {}
            /\ \A i \in Of(r, "AUDIO_STARTED") : \E b \in Of(r, "RESPONSE_STARTED") : b < i
            /\ \A c \in Of(r, "AUDIO_COMPLETED") : \E i \in Of(r, "AUDIO_STARTED") : i < c
        BY <1>0 DEF AudioTold
      <4>2. Heard(r)' => Of(r, "AUDIO_STARTED")' # {}
        BY <4>1, <2>0, <2>1, <2>2, <1>2
      <4>3. r \in 1..Responses' => Of(r, "RESPONSE_STARTED")' # {}
        <5>1. CASE r \in 1..Responses
          BY <5>1, <4>1, <2>2
        <5>2. CASE event.kind = "response.created" /\ r = Responses + 1
          BY <5>2, <2>0, <2>1, <1>1
        <5> QED BY <5>1, <5>2, <1>3
      <4>4. ASSUME NEW i \in Of(r, "AUDIO_STARTED")'
            PROVE  \E b \in Of(r, "RESPONSE_STARTED")' : b < i
        <5>1. CASE i \in Of(r, "AUDIO_STARTED")
          BY <5>1, <4>1, <2>2
        <5>2. CASE i = m /\ event.response = r /\ event.kind = "audio.delta"
          <6>1. r \in 1..Responses
            BY <5>2, <1>1, <1>3
          <6> QED BY <6>1, <5>2, <4>1, <2>2
        <5> QED BY <5>1, <5>2, <2>0, <2>1
      <4>5. ASSUME NEW c \in Of(r, "AUDIO_COMPLETED")'
            PROVE  \E i \in Of(r, "AUDIO_STARTED")' : i < c
        <5>1. CASE c \in Of(r, "AUDIO_COMPLETED")
          BY <5>1, <4>1, <2>2
        <5>2. CASE c = m /\ event.response = r /\ event.kind = "audio.done"
          BY <5>2, <4>1, <2>2, <1>1
        <5> QED BY <5>1, <5>2, <2>0, <2>1
      <4> QED BY <4>2, <4>3, <4>4, <4>5
    <3> QED BY <3>1, <1>7 DEF AudioTold
  <2>5. EndsTold'
    <3>1. ASSUME NEW i \in DOMAIN signals', signals'[i].type = "RESPONSE_STARTED"
          PROVE  \/ Talking' /\ signals'[i].response = Responses'
                 \/ \E k \in DOMAIN signals' :
                      i <= k /\ signals'[k].response = signals'[i].response
                      /\ signals'[k].type \in Finals
      <4>1. CASE i = m
        BY <4>1, <3>1, <2>0, <2>1, <1>1, <1>3
      <4>2. CASE i \in DOMAIN signals
        <5>1. \/ Talking /\ signals[i].response = Responses
              \/ \E k \in DOMAIN signals :
                   i <= k /\ signals[k].response = signals[i].response /\ signals[k].type \in Finals
          BY <4>2, <3>1, <2>1, <1>0 DEF EndsTold
        <5>2. CASE \E k \in DOMAIN signals :
                   i <= k /\ signals[k].response = signals[i].response /\ signals[k].type \in Finals
          BY <5>2, <4>2, <2>1
        <5>3. CASE Talking /\ signals[i].response = Responses /\ event.kind \in Ends
          <6>1. m \in DOMAIN signals' /\ i <= m /\ signals'[m].response = signals'[i].response
                /\ signals'[m].type \in Finals
            BY <5>3, <4>2, <2>0, <2>1, <1>1
          <6> QED BY <6>1
        <5>4. CASE Talking /\ signals[i].response = Responses /\ event.kind \notin Ends
          BY <5>4, <4>2, <2>1, <1>1, <1>3
        <5> QED BY <5>1, <5>2, <5>3, <5>4
      <4> QED BY <4>1, <4>2, <2>1
    <3> QED BY <3>1 DEF EndsTold
  <2>6. OneAtATime'
    <3>1. ASSUME NEW i \in DOMAIN signals', NEW j \in DOMAIN signals', i < j,
                 signals'[i].type = "RESPONSE_STARTED", signals'[j].type = "RESPONSE_STARTED"
          PROVE  \E k \in i..j : signals'[k].response = signals'[i].response /\ signals'[k].type \in Finals
      <4>1. i \in DOMAIN signals /\ signals'[i] = signals[i] /\ i \in Nat
        BY <3>1, <2>1
      <4>2. DOMAIN signals = 1..Len(signals)
        BY <1>0
      <4>3. CASE j \in DOMAIN signals
        <5>1. signals[j].type = "RESPONSE_STARTED"
          BY <4>3, <3>1, <2>1
        <5>2. PICK k \in i..j : signals[k].response = signals[i].response /\ signals[k].type \in Finals
          BY <5>1, <4>1, <4>3, <3>1, <1>0 DEF OneAtATime, Finals
        <5>3. k \in DOMAIN signals
          BY <4>1, <4>2, <4>3, <5>2
        <5> QED BY <5>2, <5>3, <4>1, <2>1
      <4>4. CASE j = m
        <5>1. event.kind = "response.created"
          BY <4>4, <3>1, <2>0, <2>1
        <5>2. PICK k \in DOMAIN signals :
                i <= k /\ signals[k].response = signals[i].response /\ signals[k].type \in Finals
          BY <5>1, <4>1, <3>1, <1>0, <1>1 DEF EndsTold
        <5>3. k \in i..j
          BY <5>2, <4>1, <4>4, <2>1
        <5> QED BY <5>2, <5>3, <4>1, <2>1
      <4> QED BY <4>3, <4>4, <2>1
    <3> QED BY <3>1 DEF OneAtATime, Finals
  <2> QED BY <2>3, <2>4, <2>5, <2>6
<1> QED BY <1>9, <1>10

LEMMA DeliverKeeps == SignalsInvariant /\ Deliver => SignalsInvariant'
PROOF
<1> SUFFICES ASSUME SignalsInvariant, Deliver  PROVE SignalsInvariant'
  OBVIOUS
<1>0. SignalsTyped /\ StreamSent /\ StartedByName /\ (identified => KnownAsSent)
  BY DEF SignalsInvariant
<1>1. PICK event \in Next1 : stream' = Append(stream, event) /\ Normalize(event)
  BY DEF Deliver
<1>2. UNCHANGED <<identified, naming, repeats>> /\ repeats' \in Nat
  BY <1>0 DEF Deliver, SignalsTyped
<1> DEFINE n == Len(stream) + 1
<1>3. /\ event \in Sending /\ event.nr = n /\ event.response \in Nat /\ event.kind \in Kinds
      /\ event.kind = "response.created" => ~Talking /\ event.response = Responses + 1
      /\ event.kind \in Ends \cup {"audio.delta", "audio.done"} =>
           Talking /\ event.response = Responses
      /\ event.kind = "speech_started" => event.response \in {NoResponse, Responses}
  BY <1>0, EventsNext DEF Sending
<1>4. /\ stream' \in Seq(Sending) /\ n \notin DOMAIN stream
      /\ DOMAIN stream' = DOMAIN stream \cup {n} /\ stream'[n] = event
      /\ \A i \in DOMAIN stream : stream'[i] = stream[i]
      /\ Responses' = Responses + (IF event.kind = "response.created" THEN 1 ELSE 0)
      /\ Cardinality(Ended') = Cardinality(Ended) + (IF event.kind \in Ends THEN 1 ELSE 0)
      /\ (Talking' <=> Responses' > Cardinality(Ended'))
  BY <1>0, <1>1, <1>3, StreamGrows
<1>5. /\ Responses \in Nat /\ Cardinality(Ended) \in Nat
      /\ Talking <=> Responses > Cardinality(Ended)
      /\ Responses \in {Cardinality(Ended), Cardinality(Ended) + 1}
  BY <1>0, StreamCounted DEF StreamSent
<1>6. /\ event.kind = "response.created" => Talking'
      /\ event.kind \in Ends => ~Talking'
      /\ event.kind \notin Ends \cup {"response.created"} => (Talking' <=> Talking)
      /\ Responses' \in {Cardinality(Ended'), Cardinality(Ended') + 1}
  BY <1>3, <1>4, <1>5 DEF Ends
<1>7. StreamSent'
  <2>1. event.response <= Responses'
    BY <1>3, <1>4, <1>5 DEF NoResponse, Kinds, Ends
  <2>2. \A i \in DOMAIN stream :
          stream[i].nr = i /\ stream[i].response <= Responses /\ stream[i].response \in Nat
    <3>1. \A i \in DOMAIN stream : stream[i] \in Sending
      BY <1>0 DEF SignalsTyped
    <3>2. \A i \in DOMAIN stream : stream[i].response \in Nat
      BY <3>1 DEF Sending
    <3> QED BY <3>2, <1>0 DEF StreamSent
  <2>3. \A i \in DOMAIN stream' : stream'[i].nr = i /\ stream'[i].response <= Responses'
    BY <2>1, <2>2, <1>3, <1>4, <1>5
  <2> QED BY <2>3, <1>6 DEF StreamSent
<1>8. identified /\ event.kind = "audio.delta" => AudioKey(event) = ByName(event.response)
  BY <1>0, <1>3, <1>5 DEF AudioKey, ByName, KnownAsSent, NoResponse
<1>9. active' \in Nat /\ signals' \in Seq(Signal) /\ StartedByName'
  BY <1>0, <1>1, <1>2, <1>3, <1>8, NormalizeKeeps
<1>10. SignalsTyped'
  BY <1>0, <1>2, <1>4, <1>9 DEF SignalsTyped
<1>11. identified => KnownAsSent' /\ AudioTold' /\ EndsTold' /\ OneAtATime'
  BY <1>1, <1>2, <1>4, <1>6, SentIsTold
<1> QED BY <1>2, <1>7, <1>9, <1>10, <1>11 DEF SignalsInvariant

LEMMA SignalsStep == SignalsInvariant /\ [NextSignals]_signalVars => SignalsInvariant'
PROOF
<1> SUFFICES ASSUME SignalsInvariant, UNCHANGED signalVars  PROVE SignalsInvariant'
  BY DeliverKeeps, DeliverAgainKeeps DEF NextSignals
<1>1. UNCHANGED <<identified, naming, stream, repeats, seen, started, active, signals>>
  BY DEF signalVars
<1>2. (\A kind : Sent(kind)' = Sent(kind)) /\ \A r, type : Of(r, type)' = Of(r, type)
  BY <1>1 DEF Sent, Of
<1>3. Ended' = Ended /\ Responses' = Responses /\ \A r : Heard(r)' <=> Heard(r)
  BY <1>1, <1>2 DEF Ended, Responses, Heard
<1>4. Talking' <=> Talking
  <2>1. Talking <=> Responses > Cardinality(Ended)
    BY StreamCounted DEF SignalsInvariant
  <2>2. Talking' <=> Responses' > Cardinality(Ended')
    BY Zenon DEF Talking, Ended, Ends
  <2> QED BY <2>1, <2>2, <1>3
<1>5. SignalsTyped' /\ StreamSent' /\ StartedByName'
  BY <1>1, <1>2, <1>3 DEF SignalsInvariant, SignalsTyped, StreamSent, StartedByName
<1>6. identified => KnownAsSent' /\ EndsTold' /\ OneAtATime' /\ AudioTold'
  BY <1>1, <1>2, <1>3, <1>4 DEF SignalsInvariant, KnownAsSent, EndsTold, OneAtATime, AudioTold
<1> QED BY <1>1, <1>5, <1>6 DEF SignalsInvariant

LEMMA SignalsHold == SignalsInvariant => SignalsSound
PROOF
<1> SUFFICES ASSUME SignalsInvariant  PROVE SignalsSound
  OBVIOUS
<1>0. /\ SignalsTyped /\ StartedByName
      /\ identified => KnownAsSent /\ AudioTold /\ OneAtATime
  BY DEF SignalsInvariant
<1>1. /\ \A i \in DOMAIN signals : i \in Nat /\ signals[i].event \in Nat
      /\ DOMAIN signals = 1..Len(signals)
  <2>1. DOMAIN signals = 1..Len(signals) /\ Len(signals) \in Nat
          /\ \A i \in DOMAIN signals : signals[i] \in Signal
    BY <1>0 DEF SignalsTyped
  <2>2. \A i \in DOMAIN signals : signals[i].event \in Nat
    BY <2>1 DEF Signal
  <2> QED BY <2>1, <2>2
<1>2. ToldOnce
  <2>1. ASSUME identified, NEW i \in DOMAIN signals, NEW j \in DOMAIN signals, i # j
        PROVE  signals[i].id # signals[j].id /\ signals[i].event # signals[j].event
    <3>1. signals[i].event # signals[j].event
      BY <2>1, <1>0, <1>1 DEF KnownAsSent
    <3>2. <<signals[i].event>> # <<signals[j].event>>
      BY <3>1
    <3> QED BY <3>1, <3>2, <2>1, <1>0 DEF KnownAsSent
  <2> QED BY <2>1 DEF ToldOnce
<1>3. ASSUME NEW r \in Nat, identified \/ naming = "response"
      PROVE  /\ \A i, j \in Of(r, "AUDIO_STARTED") : i = j
             /\ Cardinality(Of(r, "AUDIO_STARTED")) = IF Of(r, "AUDIO_STARTED") = {} THEN 0 ELSE 1
  <2>1. \A i, j \in Of(r, "AUDIO_STARTED") : i = j
    BY <1>0, <1>3 DEF StartedByName
  <2>2. CASE Of(r, "AUDIO_STARTED") = {}
    BY <2>2, FS_EmptySet
  <2>3. CASE Of(r, "AUDIO_STARTED") # {}
    <3>1. PICK i : Of(r, "AUDIO_STARTED") = {i}
      BY <2>1, <2>3
    <3> QED BY <3>1, <2>3, <2>1, FS_Singleton
  <2> QED BY <2>1, <2>2, <2>3
<1>4. AudioStartsOnce
  <2>1. ASSUME identified, NEW r \in 1..Responses
        PROVE  /\ Cardinality(Of(r, "AUDIO_STARTED")) = IF Heard(r) THEN 1 ELSE 0
               /\ \A i \in Of(r, "AUDIO_STARTED") :
                    /\ \E b \in Of(r, "RESPONSE_STARTED") : b < i
                    /\ \A c \in Of(r, "AUDIO_COMPLETED") : i < c
    <3>1. r \in Nat
      BY <1>0, StreamCounted
    <3>2. /\ ByName(r) \in started <=> Heard(r)
          /\ Heard(r) => Of(r, "AUDIO_STARTED") # {}
          /\ \A i \in Of(r, "AUDIO_STARTED") : \E b \in Of(r, "RESPONSE_STARTED") : b < i
          /\ \A c \in Of(r, "AUDIO_COMPLETED") : \E i \in Of(r, "AUDIO_STARTED") : i < c
      BY <2>1, <3>1, <1>0 DEF AudioTold
    <3>3. Of(r, "AUDIO_STARTED") # {} => Heard(r)
      BY <2>1, <3>1, <3>2, <1>0 DEF StartedByName
    <3> QED BY <2>1, <3>1, <3>2, <3>3, <1>3
  <2> QED BY <2>1 DEF AudioStartsOnce
<1>5. NamedStartsOnce
  <2>1. Responses \in Nat
    BY <1>0, StreamCounted
  <2>2. ASSUME naming = "response", NEW r \in 1..Responses
        PROVE  Cardinality(Of(r, "AUDIO_STARTED")) <= 1
    <3>1. r \in Nat
      BY <2>1
    <3>2. Cardinality(Of(r, "AUDIO_STARTED")) = IF Of(r, "AUDIO_STARTED") = {} THEN 0 ELSE 1
      BY <3>1, <2>2, <1>3
    <3> QED BY <3>2
  <2> QED BY <2>2 DEF NamedStartsOnce
<1>6. OneAtATime
  BY <1>0 DEF OneAtATime
<1> QED BY <1>2, <1>4, <1>5, <1>6 DEF SignalsSound

\* SignalsSound: however an event stream with ids is repeated, each event gives one
\* signal and one signal id, every response that is heard starts its audio once,
\* after the response and before audio of it is complete, and responses start one
\* after the other; without ids, audio that names its response starts once.
THEOREM SignalsAreSound == SignalsSpec => []SignalsSound
PROOF
<1>1. SignalsSpec => []SignalsInvariant
  BY SignalsStart, SignalsStep, PTL DEF SignalsSpec
<1> QED BY <1>1, SignalsHold, PTL

----------------------------------------------------------------------------
(* The long-term memory: the inductive invariant *)

Item == [status : Statuses \ {"none"}, concept : Concepts, session : Nat]
Retest == [item : Items, subject : Subjects, outcomes : Nat]
Audit == [status : {"pending", "failed", "completed"}, scope : Scopes, queued : BOOLEAN]

MemoryTyped ==
    /\ MemoryTypeOK /\ appended \in Nat /\ erasures \in Nat
    /\ \A event \in ledger : event.supersedes \in Nat
    /\ items \in [Items -> {NoItem} \cup Item] /\ retests \in Seq(Retest)
    /\ audits \in [Deletions -> {NoAudit} \cup Audit] /\ forgotten \in BOOLEAN

\* What a request carries from its reading to its commit.
Carries(writer) ==
    /\ writer.op = "settings" => writer.found.enabled \in BOOLEAN
    /\ writer.op = "import" => writer.found \in Evidence
    /\ writer.op = "correction" => writer.found.event.id \notin writer.found.before
    /\ writer.op = "plan" => writer.found[1] \in Items /\ writer.found[2] \in Concepts
    /\ writer.op = "decision" => writer.found[1] \in Items /\ writer.found[2] \in {"accepted", "dismissed"}
    /\ writer.op = "start" => writer.found.item \in Items /\ writer.found.row.session = 0
    /\ writer.op = "outcome" => /\ writer.found.number \in DOMAIN retests
                                /\ writer.found.row.status = "started"
    /\ writer.op = "deletion" => writer.found[1] \in Deletions /\ writer.found[2] \in Scopes
    /\ writer.op = "enqueue" => writer.found \in Deletions /\ audits[writer.found] # NoAudit

WritersCarry ==
    /\ DOMAIN writers = Writers
    /\ \A w \in Writers : writers[w] # Idle =>
         /\ writers[w].since \in Nat /\ writers[w].since <= erasures /\ Carries(writers[w])

\* An item that nobody crossed has the one session it names, and an outcome of
\* it only after it was started.
SessionsOfItems ==
    \A n \in DOMAIN retests :
        LET i == retests[n].item IN
        <<"item", i>> \notin crossed =>
            /\ items[i] # NoItem /\ items[i].session = n /\ retests[n].outcomes <= 1
            /\ items[i].status = "started" => retests[n].outcomes = 0

CorrectedOnce ==
    \A e, f \in ledger :
        e.supersedes = f.supersedes /\ e.supersedes # 0 /\ e # f
            => <<"event", e.supersedes>> \in crossed

\* A forgotten memory is empty and disabled, and a request that read it since
\* brings nothing back.
BringsNothing(writer) ==
    /\ writer.op \in {"settings", "rebuild", "export", "deletion", "enqueue"}
    /\ writer.op = "rebuild" => /\ writer.found.ledger = {}
                                /\ \A c \in Concepts : writer.found.states[c] = {}
    /\ writer.op = "export" => writer.found = {}

Forgets ==
    forgotten =>
        /\ ForgottenStaysForgotten /\ ~identity.enabled
        /\ \A w \in Writers :
             writers[w] # Idle /\ writers[w].since = erasures => BringsNothing(writers[w])

MemoryInvariant ==
    /\ MemoryTyped /\ WritersCarry /\ StatesFromLedger /\ SessionsOfItems /\ CorrectedOnce
    /\ DeletionHolds /\ Forgets

Identity == [exists : BOOLEAN, enabled : BOOLEAN, blocked : BOOLEAN]
Linked == {"none", "confirmed", "revoked"}

\* What typing says, part by part, of a state and of the next one.
LEMMA TypedParts ==
    ASSUME MemoryTyped
    PROVE  /\ identity \in Identity /\ links \in [Subjects -> Linked]
           /\ \A event \in ledger : /\ event.id \in 1..appended /\ event.supersedes \in Nat
                                    /\ event.supersedes < event.id
           /\ appended \in Nat /\ appended <= MaxEvents
           /\ erasures \in Nat /\ erasures <= Cardinality(Deletions)
           /\ items \in [Items -> {NoItem} \cup Item] /\ retests \in Seq(Retest)
           /\ audits \in [Deletions -> {NoAudit} \cup Audit] /\ forgotten \in BOOLEAN
PROOF BY DEF MemoryTyped, MemoryTypeOK, Identity, Linked

LEMMA TypedNext ==
    ASSUME identity' \in Identity, links' \in [Subjects -> Linked],
           \A event \in ledger' : /\ event.id \in 1..appended' /\ event.supersedes \in Nat
                                  /\ event.supersedes < event.id,
           appended' \in Nat, appended' <= MaxEvents,
           erasures' \in Nat, erasures' <= Cardinality(Deletions),
           items' \in [Items -> {NoItem} \cup Item], retests' \in Seq(Retest),
           audits' \in [Deletions -> {NoAudit} \cup Audit], forgotten' \in BOOLEAN
    PROVE  MemoryTyped'
PROOF
<1>1. \A i \in Items : items'[i].status \in Statuses
  <2>1. NoItem.status \in Statuses /\ \A item \in Item : item.status \in Statuses
    BY DEF NoItem, Item, Statuses
  <2> QED BY <2>1
<1> QED BY <1>1 DEF MemoryTyped, MemoryTypeOK, Identity, Linked

LEMMA IdleWriters == Idle.op = "idle" /\ \A w \in Writers : writers[w].op # "idle" => writers[w] # Idle
PROOF BY DEF Idle

\* Requests that end, or go on as they are, carry what they carried.
LEMMA WritersGoOn ==
    ASSUME MemoryInvariant, erasures' \in Nat, erasures' >= erasures,
           DOMAIN retests \subseteq DOMAIN retests',
           \A a \in Deletions : audits[a] # NoAudit => audits'[a] # NoAudit,
           DOMAIN writers' = Writers, \A w \in Writers : writers'[w] \in {Idle, writers[w]}
    PROVE  WritersCarry'
PROOF
<1>0. WritersCarry /\ erasures \in Nat
  BY DEF MemoryInvariant, MemoryTyped
<1>1. ASSUME NEW w \in Writers, writers'[w] # Idle
      PROVE  /\ writers'[w].since \in Nat /\ writers'[w].since <= erasures' /\ Carries(writers[w])'
  <2>1. writers'[w] = writers[w]
    BY <1>1
  <2>2. writers[w].since \in Nat /\ writers[w].since <= erasures /\ Carries(writers[w])
    BY <2>1, <1>0, <1>1 DEF WritersCarry
  <2> QED BY <2>1, <2>2, <1>0 DEF Carries
<1> QED BY <1>1 DEF WritersCarry

\* A request begins to carry something.
LEMMA WritersBegin ==
    ASSUME MemoryInvariant, NEW w \in Writers, NEW op, NEW carried,
           writers' = [writers EXCEPT ![w] = [op |-> op, found |-> carried, since |-> erasures]],
           UNCHANGED <<erasures, retests>>,
           \A a \in Deletions : audits[a] # NoAudit => audits'[a] # NoAudit,
           op = "enqueue" => carried \in Deletions /\ audits'[carried] # NoAudit,
           op # "enqueue" => Carries([op |-> op, found |-> carried, since |-> erasures])
    PROVE  WritersCarry'
PROOF
<1> DEFINE writer == [op |-> op, found |-> carried, since |-> erasures]
<1>0. WritersCarry /\ erasures \in Nat
  BY DEF MemoryInvariant, MemoryTyped
<1>1. writer.op = op /\ writer.found = carried /\ writer.since = erasures
  OBVIOUS
<1>2. DOMAIN writers' = Writers /\ writers'[w] = writer
        /\ \A v \in Writers : v # w => writers'[v] = writers[v]
  BY <1>0 DEF WritersCarry
<1> HIDE DEF writer
<1>3. Carries(writers[w])'
  <2>1. CASE op = "enqueue"
    BY <2>1, <1>1, <1>2 DEF Carries
  <2>2. CASE op # "enqueue"
    <3>1. Carries(writer)
      BY <2>2 DEF writer
    <3> QED BY <3>1, <2>2, <1>1, <1>2 DEF Carries
  <2> QED BY <2>1, <2>2
<1>4. ASSUME NEW v \in Writers, writers'[v] # Idle
      PROVE  /\ writers'[v].since \in Nat /\ writers'[v].since <= erasures' /\ Carries(writers[v])'
  <2>1. CASE v = w
    BY <2>1, <1>0, <1>1, <1>2, <1>3
  <2>2. CASE v # w
    <3>1. writers[v].since \in Nat /\ writers[v].since <= erasures /\ Carries(writers[v])
          /\ writers'[v] = writers[v]
      BY <2>2, <1>0, <1>2, <1>4 DEF WritersCarry
    <3> QED BY <3>1 DEF Carries
  <2> QED BY <2>1, <2>2
<1> QED BY <1>2, <1>4 DEF WritersCarry

\* What was decided on before the memory was forgotten is the end of that when it commits.
LEMMA DoneForgets ==
    ASSUME MemoryInvariant, NEW w \in Writers, Done(w),
           writers[w].op \notin {"idle", "settings", "rebuild", "export", "deletion", "enqueue"}
    PROVE  forgotten' = FALSE
PROOF
<1>1. Forgets /\ forgotten' = (forgotten /\ writers[w].since = erasures) /\ writers[w] # Idle
  BY IdleWriters DEF MemoryInvariant, Done
<1>2. forgotten => writers[w].since # erasures
  BY <1>1 DEF Forgets, BringsNothing
<1> QED BY <1>1, <1>2

LEMMA RebuiltCounts ==
    ASSUME states' = Rebuilt(ledger')
    PROVE  StatesFromLedger'
PROOF
<1>1. ASSUME NEW c \in Concepts, NEW id \in states'[c]
      PROVE  /\ \E e \in ledger' : e.id = id /\ e.concept = c
             /\ \A e \in ledger' : e.supersedes # id
  <2>1. states'[c] = Ids({e \in Current(ledger') : e.concept = c})
    BY DEF Rebuilt
  <2>2. PICK e \in Current(ledger') : e.concept = c /\ e.id = id
    BY <2>1 DEF Ids
  <2>3. e \in ledger' /\ \A f \in ledger' : f.supersedes # e.id
    BY <2>2 DEF Current, Superseded
  <2> QED BY <2>2, <2>3
<1> QED BY <1>1 DEF StatesFromLedger

LEMMA StatesStay ==
    ASSUME MemoryInvariant, UNCHANGED <<states, stale>>, ledger \subseteq ledger',
           \A e \in ledger' : e \in ledger \/ e.supersedes = 0
    PROVE  StatesFromLedger'
PROOF
<1>0. StatesFromLedger /\ MemoryTyped
  BY DEF MemoryInvariant
<1>1. ASSUME ~stale, NEW c \in Concepts, NEW id \in states[c]
      PROVE  /\ \E e \in ledger' : e.id = id /\ e.concept = c
             /\ \A e \in ledger' : e.supersedes # id
  <2>1. PICK e \in ledger : e.id = id /\ e.concept = c
    BY <1>0, <1>1 DEF StatesFromLedger
  <2>2. id # 0
    BY <2>1, <1>0, TypedParts
  <2>3. \A f \in ledger : f.supersedes # id
    BY <1>0, <1>1 DEF StatesFromLedger
  <2> QED BY <2>1, <2>2, <2>3
<1> QED BY <1>1 DEF StatesFromLedger

LEMMA SessionsStay ==
    ASSUME MemoryInvariant, retests' = retests, crossed \subseteq crossed',
           \A i \in Items : items[i] # NoItem =>
             /\ items'[i] # NoItem /\ items'[i].session = items[i].session
             /\ items'[i].status = "started" => items[i].status = "started"
    PROVE  SessionsOfItems'
PROOF
<1>0. SessionsOfItems /\ MemoryTyped
  BY DEF MemoryInvariant
<1>1. \A n \in DOMAIN retests : retests[n].item \in Items
  <2>1. \A n \in DOMAIN retests : retests[n] \in Retest
    BY <1>0 DEF MemoryTyped
  <2> QED BY <2>1 DEF Retest
<1> QED BY <1>0, <1>1 DEF SessionsOfItems

LEMMA CorrectionsStay ==
    ASSUME MemoryInvariant, crossed \subseteq crossed',
           \A e \in ledger' : e \in ledger \/ e.supersedes = 0
    PROVE  CorrectedOnce'
PROOF
<1>1. CorrectedOnce
  BY DEF MemoryInvariant
<1> QED BY <1>1 DEF CorrectedOnce

LEMMA BlocksStay ==
    ASSUME MemoryInvariant, crossed \subseteq crossed',
           \A a \in Deletions : Outstanding(a)' => Outstanding(a),
           identity'.exists => identity.exists, identity.blocked => identity'.blocked
    PROVE  DeletionHolds'
PROOF
<1>1. DeletionHolds
  BY DEF MemoryInvariant
<1> QED BY <1>1 DEF DeletionHolds

\* A request reads.
LEMMA ReadKeeps ==
    ASSUME MemoryInvariant, NEW w \in Writers, NEW op, NEW carried, Read(w, op, carried),
           op # "enqueue", Carries([op |-> op, found |-> carried, since |-> erasures]),
           forgotten => BringsNothing([op |-> op, found |-> carried, since |-> erasures])
    PROVE  MemoryInvariant'
PROOF
<1> DEFINE writer == [op |-> op, found |-> carried, since |-> erasures]
<1>0. /\ MemoryTyped /\ WritersCarry /\ StatesFromLedger /\ SessionsOfItems /\ CorrectedOnce
      /\ DeletionHolds /\ Forgets
  BY DEF MemoryInvariant
<1>1. /\ writers' = [writers EXCEPT ![w] = writer]
      /\ UNCHANGED <<identity, links, mapping, ledger, appended, states, preference, items,
                     retests, exports, audits, erasures, forgotten, stale, crossed>>
  BY DEF Read, rowVars, noteVars
<1>2. MemoryTyped'
  BY <1>0, <1>1 DEF MemoryTyped, MemoryTypeOK
<1>3. WritersCarry'
  BY <1>1, WritersBegin
<1>4. StatesFromLedger' /\ SessionsOfItems' /\ CorrectedOnce' /\ DeletionHolds'
  BY <1>0, <1>1 DEF StatesFromLedger, SessionsOfItems, CorrectedOnce, DeletionHolds, Outstanding
<1>5. Forgets'
  <2>1. ForgottenStaysForgotten => ForgottenStaysForgotten'
    BY <1>1 DEF ForgottenStaysForgotten, Live
  <2>2. forgotten => BringsNothing(writer)
    OBVIOUS
  <2> HIDE DEF writer
  <2>3. \A v \in Writers : writers'[v] \in {writers[v], writer}
    BY <1>0, <1>1 DEF WritersCarry
  <2>4. ASSUME forgotten, NEW v \in Writers, writers'[v] # Idle, writers'[v].since = erasures
        PROVE  BringsNothing(writers'[v])
    BY <2>2, <2>3, <2>4, <1>0 DEF Forgets
  <2>5. \A any : BringsNothing(any)' <=> BringsNothing(any)
    BY DEF BringsNothing
  <2> QED BY <2>1, <2>4, <1>0, <1>1 DEF Forgets, BringsNothing
<1> QED BY <1>2, <1>3, <1>4, <1>5 DEF MemoryInvariant

\* A forgotten memory is disabled, and there is nothing in it to decide on.
LEMMA NothingToRead ==
    ASSUME MemoryInvariant, forgotten
    PROVE  /\ ~identity.enabled /\ ledger = {}
           /\ \A c \in Concepts : states[c] = {}
           /\ \A i \in Items : ~Live(i)
PROOF BY DEF MemoryInvariant, Forgets, ForgottenStaysForgotten

LEMMA RetestsTyped ==
    ASSUME MemoryInvariant
    PROVE  \A n \in DOMAIN retests : /\ n \in Nat \ {0} /\ retests[n] \in Retest
                                     /\ retests[n].item \in Items /\ retests[n].outcomes \in Nat
                                     /\ retests[n].subject \in Subjects
PROOF
<1>1. retests \in Seq(Retest)
  BY DEF MemoryInvariant, MemoryTyped
<1>2. \A n \in DOMAIN retests : n \in Nat \ {0} /\ retests[n] \in Retest
  BY <1>1
<1> QED BY <1>2 DEF Retest

LEMMA ReadSteps ==
    ASSUME MemoryInvariant, NEW w \in Writers,
           \/ \E enabled \in BOOLEAN : ReadSettings(w, enabled)
           \/ \E step \in PreferenceSteps : ReadPreference(w, step)
           \/ \E e \in Evidence : ReadImport(w, e)
           \/ \E event \in ledger : ReadCorrection(w, event)
           \/ \E i \in Items : ReadStart(w, i)
           \/ \E i \in Items, c \in Concepts : ReadPlan(w, i, c)
           \/ \E i \in Items, step \in Decisions : ReadDecision(w, i, step)
           \/ \E n \in DOMAIN retests : ReadOutcome(w, n)
           \/ \E a \in Deletions, scope \in Scopes : ReadDeletion(w, a, scope)
           \/ ReadRebuild(w) \/ ReadExport(w)
    PROVE  MemoryInvariant'
PROOF
<1>1. ASSUME NEW enabled \in BOOLEAN, ReadSettings(w, enabled)  PROVE MemoryInvariant'
  <2>1. Read(w, "settings", [identity |-> identity, enabled |-> enabled])
    BY <1>1 DEF ReadSettings
  <2> QED BY <2>1, ReadKeeps DEF Carries, BringsNothing
<1>2. ASSUME NEW step \in PreferenceSteps, ReadPreference(w, step)  PROVE MemoryInvariant'
  <2>1. Read(w, "preference", step) /\ ~forgotten
    BY <1>2, NothingToRead DEF ReadPreference
  <2> QED BY <2>1, ReadKeeps DEF Carries
<1>3. ASSUME NEW e \in Evidence, ReadImport(w, e)  PROVE MemoryInvariant'
  <2>1. Read(w, "import", e) /\ ~forgotten
    BY <1>3, NothingToRead DEF ReadImport
  <2> QED BY <2>1, ReadKeeps DEF Carries
<1>4. ASSUME NEW event \in ledger, ReadCorrection(w, event)  PROVE MemoryInvariant'
  <2>1. /\ Read(w, "correction", [event |-> event, before |-> Superseded(ledger)])
        /\ event.id \notin Superseded(ledger) /\ ~forgotten
    BY <1>4, NothingToRead DEF ReadCorrection, Correctable
  <2> QED BY <2>1, ReadKeeps DEF Carries
<1>5. ASSUME NEW i \in Items, ReadStart(w, i)  PROVE MemoryInvariant'
  <2>1. /\ Read(w, "start", [item |-> i, row |-> items[i]])
        /\ items[i].session = 0 /\ ~forgotten
    BY <1>5, NothingToRead DEF ReadStart, Startable
  <2> QED BY <2>1, ReadKeeps DEF Carries
<1>6. ASSUME NEW i \in Items, NEW c \in Concepts, ReadPlan(w, i, c)  PROVE MemoryInvariant'
  <2>1. Read(w, "plan", <<i, c>>) /\ ~forgotten
    BY <1>6, NothingToRead DEF ReadPlan
  <2> QED BY <2>1, ReadKeeps DEF Carries
<1>7. ASSUME NEW i \in Items, NEW step \in Decisions, ReadDecision(w, i, step)
      PROVE  MemoryInvariant'
  <2>1. Read(w, "decision", <<i, step[2]>>) /\ ~forgotten
    BY <1>7, NothingToRead DEF ReadDecision
  <2>2. step[2] \in {"accepted", "dismissed"}
    BY DEF Decisions
  <2> QED BY <2>1, <2>2, ReadKeeps DEF Carries
<1>8. ASSUME NEW n \in DOMAIN retests, ReadOutcome(w, n)  PROVE MemoryInvariant'
  <2>1. /\ Read(w, "outcome", [number |-> n, row |-> items[retests[n].item]])
        /\ items[retests[n].item].status = "started" /\ retests[n].item \in Items
    BY <1>8, RetestsTyped DEF ReadOutcome, Awaiting
  <2>2. ~forgotten
    BY <2>1, NothingToRead DEF Live
  <2> QED BY <2>1, <2>2, ReadKeeps DEF Carries
<1>9. ASSUME NEW a \in Deletions, NEW scope \in Scopes, ReadDeletion(w, a, scope)
      PROVE  MemoryInvariant'
  <2>1. Read(w, "deletion", <<a, scope>>)
    BY <1>9 DEF ReadDeletion
  <2> QED BY <2>1, ReadKeeps DEF Carries, BringsNothing
<1>10. CASE ReadRebuild(w)
  <2>1. Read(w, "rebuild", [states |-> states, ledger |-> ledger])
    BY <1>10 DEF ReadRebuild
  <2> QED BY <2>1, NothingToRead, ReadKeeps DEF Carries, BringsNothing
<1>11. CASE ReadExport(w)
  <2>1. Read(w, "export", Ids(ledger)) /\ (forgotten => Ids(ledger) = {})
    BY <1>11, NothingToRead DEF ReadExport, Ids
  <2> QED BY <2>1, ReadKeeps DEF Carries, BringsNothing
<1> QED BY <1>1, <1>2, <1>3, <1>4, <1>5, <1>6, <1>7, <1>8, <1>9, <1>10, <1>11

\* The rows without events: links, mappings, cooldowns, and a request that fails.
LEMMA RowSteps ==
    ASSUME MemoryInvariant,
           \/ \E s \in Subjects : LinkSubject(s) \/ RevokeLink(s)
           \/ \E c \in Concepts, status \in {"accepted", "rejected"} : ReviewMapping(c, status)
           \/ \E i \in Items : CooldownEnds(i)
           \/ \E w \in Writers : Fails(w)
    PROVE  MemoryInvariant'
PROOF
<1>0. /\ MemoryTyped /\ WritersCarry /\ StatesFromLedger /\ SessionsOfItems /\ CorrectedOnce
      /\ DeletionHolds /\ Forgets
  BY DEF MemoryInvariant
<1>1. CASE \/ \E s \in Subjects : LinkSubject(s) \/ RevokeLink(s)
           \/ \E c \in Concepts, status \in {"accepted", "rejected"} : ReviewMapping(c, status)
  <2>1. /\ links' \in [Subjects -> Linked]
        /\ UNCHANGED <<identity, ledger, appended, states, preference, items, retests, exports,
                       audits, writers, noteVars>>
    <3>1. links \in [Subjects -> Linked]
      BY <1>0, TypedParts
    <3> QED BY <1>1, <3>1 DEF LinkSubject, RevokeLink, ReviewMapping, Linked
  <2>2. MemoryTyped'
    BY <2>1, <1>0 DEF MemoryTyped, MemoryTypeOK, noteVars, Linked
  <2>3. WritersCarry'
    BY <2>1, <1>0 DEF WritersCarry, Carries, noteVars
  <2>4. StatesFromLedger' /\ SessionsOfItems' /\ CorrectedOnce' /\ DeletionHolds'
    BY <1>0, <2>1 DEF StatesFromLedger, SessionsOfItems, CorrectedOnce, DeletionHolds, Outstanding,
                     noteVars
  <2>5. Forgets'
    BY <1>0, <2>1 DEF Forgets, ForgottenStaysForgotten, Live, BringsNothing, noteVars
  <2> QED BY <2>2, <2>3, <2>4, <2>5 DEF MemoryInvariant
<1>2. ASSUME NEW i \in Items, CooldownEnds(i)  PROVE MemoryInvariant'
  <2>1. /\ items' = [items EXCEPT ![i].status = "lapsed"] /\ items[i].status = "dismissed"
        /\ UNCHANGED <<identity, links, ledger, appended, states, preference, retests, exports,
                       audits, writers, noteVars>>
    BY <1>2 DEF CooldownEnds
  <2>2. items \in [Items -> {NoItem} \cup Item] /\ items[i] \in Item
    BY <1>0, <2>1 DEF MemoryTyped, NoItem
  <2>3. /\ items' \in [Items -> {NoItem} \cup Item] /\ items'[i] # NoItem /\ Live(i)
        /\ items'[i].session = items[i].session /\ items'[i].status = "lapsed"
        /\ \A j \in Items : j # i => items'[j] = items[j]
    BY <2>1, <2>2 DEF Item, Statuses, NoItem, Live
  <2>4. MemoryTyped'
    BY <2>1, <2>3, <1>0, TypedParts, TypedNext DEF noteVars
  <2>5. WritersCarry'
    BY <2>1, <1>0 DEF WritersCarry, Carries, noteVars
  <2>6. SessionsOfItems'
    BY <2>1, <2>3, SessionsStay DEF noteVars
  <2>7. StatesFromLedger' /\ CorrectedOnce' /\ DeletionHolds'
    BY <1>0, <2>1 DEF StatesFromLedger, CorrectedOnce, DeletionHolds, Outstanding, noteVars
  <2>8. ~forgotten /\ forgotten' = forgotten
    BY <2>1, <2>3, NothingToRead DEF noteVars
  <2> QED BY <2>4, <2>5, <2>6, <2>7, <2>8 DEF MemoryInvariant, Forgets
<1>3. ASSUME NEW w \in Writers, Fails(w)  PROVE MemoryInvariant'
  <2>1. /\ writers' = [writers EXCEPT ![w] = Idle]
        /\ UNCHANGED <<identity, links, mapping, ledger, appended, states, preference, items,
                       retests, exports, audits, erasures, forgotten, stale, crossed>>
    BY <1>3 DEF Fails, rowVars, noteVars
  <2>2. DOMAIN writers' = Writers /\ \A v \in Writers : writers'[v] \in {Idle, writers[v]}
    BY <2>1, <1>0 DEF WritersCarry
  <2>3. WritersCarry'
    BY <2>1, <2>2, <1>0, WritersGoOn DEF MemoryTyped
  <2>4. MemoryTyped'
    BY <2>1, <1>0 DEF MemoryTyped, MemoryTypeOK
  <2>5. StatesFromLedger' /\ SessionsOfItems' /\ CorrectedOnce' /\ DeletionHolds'
    BY <1>0, <2>1 DEF StatesFromLedger, SessionsOfItems, CorrectedOnce, DeletionHolds, Outstanding
  <2>6. Forgets'
    BY <1>0, <2>1, <2>2 DEF Forgets, ForgottenStaysForgotten, Live, BringsNothing
  <2> QED BY <2>3, <2>4, <2>5, <2>6 DEF MemoryInvariant
<1> QED BY <1>1, <1>2, <1>3

LEMMA RequestDone ==
    ASSUME MemoryInvariant, NEW w \in Writers, Done(w)
    PROVE  /\ DOMAIN writers' = Writers /\ \A v \in Writers : writers'[v] \in {Idle, writers[v]}
           /\ erasures' = erasures /\ forgotten' \in BOOLEAN
           /\ forgotten' => forgotten /\ writers[w].since = erasures
PROOF
<1>1. WritersCarry
  BY DEF MemoryInvariant
<1> QED BY <1>1 DEF Done, WritersCarry

\* A request at work carries what its operation reads.
LEMMA AtWork ==
    ASSUME MemoryInvariant, NEW w \in Writers, NEW op, writers[w].op = op, op # "idle"
    PROVE  /\ Carries(writers[w]) /\ writers[w] # Idle
           /\ writers[w].since \in Nat /\ writers[w].since <= erasures
           /\ forgotten /\ writers[w].since = erasures => BringsNothing(writers[w])
PROOF BY IdleWriters DEF MemoryInvariant, WritersCarry, Forgets

LEMMA EventAppended ==
    ASSUME MemoryInvariant, NEW event, AppendEvent(event), event.id = appended + 1,
           event.supersedes \in 0..appended
    PROVE  /\ \A e \in ledger' : /\ e.id \in 1..appended' /\ e.supersedes \in Nat
                                 /\ e.supersedes < e.id
           /\ appended' \in Nat /\ appended' <= MaxEvents
           /\ ledger' = ledger \cup {event}
PROOF
<1>1. MemoryTyped
  BY DEF MemoryInvariant
<1>2. /\ appended \in Nat /\ MaxEvents \in Nat
      /\ \A e \in ledger : e.id \in 1..appended /\ e.supersedes \in Nat /\ e.supersedes < e.id
  BY <1>1, TypedParts, MemoryAssumption
<1>3. appended < MaxEvents /\ ledger' = ledger \cup {event} /\ appended' = appended + 1
  BY DEF AppendEvent
<1> QED BY <1>2, <1>3

LEMMA NewEventParts ==
    ASSUME NEW kind, NEW concept, NEW subject, NEW source, NEW supersedes
    PROVE  LET event == NewEvent(kind, concept, subject, source, supersedes) IN
           event.id = appended + 1 /\ event.supersedes = supersedes
PROOF BY DEF NewEvent

LEMMA SettingsKeep ==
    ASSUME MemoryInvariant, NEW w \in Writers, CommitSettings(w)
    PROVE  MemoryInvariant'
PROOF
<1>0. /\ MemoryTyped /\ WritersCarry /\ StatesFromLedger /\ SessionsOfItems /\ CorrectedOnce
      /\ DeletionHolds /\ Forgets
  BY DEF MemoryInvariant
<1>1. /\ writers[w].op = "settings" /\ writers' = [writers EXCEPT ![w] = Idle]
      /\ identity' = [identity EXCEPT !.enabled = writers[w].found.enabled]
      /\ forgotten' = (forgotten /\ ~writers[w].found.enabled /\ writers[w].since = erasures)
      /\ UNCHANGED <<links, ledger, appended, states, preference, items, retests, exports,
                     audits, erasures, stale, crossed>>
  BY DEF CommitSettings, Doing, Found, Configured
<1>2. writers[w].found.enabled \in BOOLEAN
  BY <1>1, AtWork DEF Carries
<1>3. /\ identity' \in Identity /\ identity'.enabled = writers[w].found.enabled
      /\ identity'.exists = identity.exists /\ identity'.blocked = identity.blocked
  BY <1>0, <1>1, <1>2 DEF MemoryTyped, MemoryTypeOK, Identity
<1>4. MemoryTyped'
  <2>1. forgotten' \in BOOLEAN
    BY <1>1
  <2> QED BY <2>1, <1>0, <1>1, <1>3, TypedParts, TypedNext
<1>5. DOMAIN writers' = Writers /\ \A v \in Writers : writers'[v] \in {Idle, writers[v]}
  BY <1>0, <1>1 DEF WritersCarry
<1>6. WritersCarry'
  BY <1>0, <1>1, <1>5, WritersGoOn DEF MemoryTyped
<1>7. StatesFromLedger' /\ SessionsOfItems' /\ CorrectedOnce' /\ DeletionHolds'
  BY <1>0, <1>1, <1>3 DEF StatesFromLedger, SessionsOfItems, CorrectedOnce, DeletionHolds, Outstanding
<1>8. Forgets'
  <2>1. SUFFICES ASSUME forgotten'  PROVE Forgets'
    BY DEF Forgets
  <2>2. forgotten /\ ~writers[w].found.enabled
    BY <2>1, <1>1
  <2>3. ForgottenStaysForgotten' /\ ~identity'.enabled
    BY <2>2, <1>0, <1>1, <1>3 DEF Forgets, ForgottenStaysForgotten, Live
  <2>4. \A v \in Writers : writers'[v] # Idle /\ writers'[v].since = erasures'
                             => BringsNothing(writers'[v])
    BY <2>2, <1>0, <1>1, <1>5 DEF Forgets
  <2> QED BY <2>3, <2>4 DEF Forgets, BringsNothing
<1> QED BY <1>4, <1>6, <1>7, <1>8 DEF MemoryInvariant

LEMMA PreferenceKeeps ==
    ASSUME MemoryInvariant, NEW w \in Writers, CommitPreference(w)
    PROVE  MemoryInvariant'
PROOF
<1>0. MemoryTyped /\ SessionsOfItems /\ DeletionHolds
  BY DEF MemoryInvariant
<1>1. /\ writers[w].op = "preference" /\ Done(w)
      /\ UNCHANGED <<identity, links, mapping, states, items, retests, exports, audits,
                     stale, crossed>>
  BY DEF CommitPreference, Doing
<1>2. forgotten' = FALSE
  BY <1>1, DoneForgets
<1>3. /\ \A e \in ledger' : /\ e.id \in 1..appended' /\ e.supersedes \in Nat
                            /\ e.supersedes < e.id
      /\ appended' \in Nat /\ appended' <= MaxEvents
      /\ ledger \subseteq ledger' /\ \A e \in ledger' : e \in ledger \/ e.supersedes = 0
  <2> DEFINE event == NewEvent("preference", "none", "none", "none", 0)
  <2>1. CASE AppendEvent(event)
    <3>1. event.id = appended + 1 /\ event.supersedes = 0
      BY NewEventParts
    <3> HIDE DEF event
    <3>2. event.supersedes \in 0..appended
      BY <3>1, <1>0, TypedParts
    <3> QED BY <2>1, <3>1, <3>2, EventAppended
  <2>2. CASE UNCHANGED <<ledger, appended>>
    BY <2>2, <1>0, TypedParts
  <2> QED BY <2>1, <2>2 DEF CommitPreference
<1>4. MemoryTyped'
  BY <1>0, <1>1, <1>2, <1>3, RequestDone, TypedParts, TypedNext
<1>5. WritersCarry'
  BY <1>0, <1>1, RequestDone, WritersGoOn DEF MemoryTyped
<1>6. StatesFromLedger' /\ CorrectedOnce'
  BY <1>1, <1>3, StatesStay, CorrectionsStay
<1>7. SessionsOfItems' /\ DeletionHolds'
  BY <1>0, <1>1 DEF SessionsOfItems, DeletionHolds, Outstanding
<1> QED BY <1>2, <1>4, <1>5, <1>6, <1>7 DEF MemoryInvariant, Forgets

LEMMA ImportKeeps ==
    ASSUME MemoryInvariant, NEW w \in Writers, CommitImport(w)
    PROVE  MemoryInvariant'
PROOF
<1>0. MemoryTyped /\ SessionsOfItems /\ DeletionHolds
  BY DEF MemoryInvariant
<1> DEFINE e == Found(w)
           event == NewEvent("evidence", ConceptOf[e], SubjectOf[e], e, 0)
<1>1. /\ writers[w].op = "import" /\ Done(w) /\ AppendEvent(event)
      /\ UNCHANGED <<identity, links, mapping, states, preference, items, retests, exports,
                     audits, stale, crossed>>
  BY DEF CommitImport, Doing
<1>2. forgotten' = FALSE
  BY <1>1, DoneForgets
<1>3. event.id = appended + 1 /\ event.supersedes = 0
  BY NewEventParts
<1> HIDE DEF event
<1>4. /\ \A f \in ledger' : /\ f.id \in 1..appended' /\ f.supersedes \in Nat
                            /\ f.supersedes < f.id
      /\ appended' \in Nat /\ appended' <= MaxEvents
      /\ ledger \subseteq ledger' /\ \A f \in ledger' : f \in ledger \/ f.supersedes = 0
  <2>1. event.supersedes \in 0..appended
    BY <1>3, <1>0, TypedParts
  <2> QED BY <2>1, <1>1, <1>3, EventAppended
<1>5. MemoryTyped'
  BY <1>0, <1>1, <1>2, <1>4, RequestDone, TypedParts, TypedNext
<1>6. WritersCarry'
  BY <1>0, <1>1, RequestDone, WritersGoOn DEF MemoryTyped
<1>7. StatesFromLedger' /\ CorrectedOnce'
  BY <1>1, <1>4, StatesStay, CorrectionsStay
<1>8. SessionsOfItems' /\ DeletionHolds'
  BY <1>0, <1>1 DEF SessionsOfItems, DeletionHolds, Outstanding
<1> QED BY <1>2, <1>5, <1>6, <1>7, <1>8 DEF MemoryInvariant, Forgets

LEMMA RebuiltNothing == \A c \in Concepts : Rebuilt({})[c] = {}
PROOF BY DEF Rebuilt, Ids, Current

LEMMA RebuildKeeps ==
    ASSUME MemoryInvariant, NEW w \in Writers, CommitRebuild(w)
    PROVE  MemoryInvariant'
PROOF
<1>0. /\ MemoryTyped /\ SessionsOfItems /\ CorrectedOnce /\ DeletionHolds /\ Forgets
  BY DEF MemoryInvariant
<1> DEFINE found == writers[w].found
<1>1. /\ writers[w].op = "rebuild" /\ Done(w)
      /\ states' = [c \in Concepts |->
           IF Rebuilt(found.ledger)[c] = {} /\ found.states[c] = {}
           THEN states[c] ELSE Rebuilt(found.ledger)[c]]
      /\ stale' = (found # [states |-> states, ledger |-> ledger])
      /\ UNCHANGED <<identity, links, mapping, ledger, appended, preference, items, retests,
                     exports, audits, crossed>>
  BY DEF CommitRebuild, Doing, Found
<1>2. MemoryTyped'
  BY <1>0, <1>1, RequestDone, TypedParts, TypedNext
<1>3. WritersCarry'
  BY <1>0, <1>1, RequestDone, WritersGoOn DEF MemoryTyped
<1>4. StatesFromLedger'
  <2>1. CASE found = [states |-> states, ledger |-> ledger]
    <3>1. found.states = states /\ found.ledger = ledger
      BY <2>1
    <3>2. states' = [c \in Concepts |-> Rebuilt(ledger)[c]]
      BY <1>1, <3>1
    <3>3. states' = Rebuilt(ledger')
      BY <3>2, <1>1 DEF Rebuilt
    <3> QED BY <3>3, RebuiltCounts
  <2>2. CASE found # [states |-> states, ledger |-> ledger]
    BY <2>2, <1>1 DEF StatesFromLedger
  <2> QED BY <2>1, <2>2
<1>5. SessionsOfItems' /\ CorrectedOnce' /\ DeletionHolds'
  BY <1>0, <1>1 DEF SessionsOfItems, CorrectedOnce, DeletionHolds, Outstanding
<1>6. Forgets'
  <2>1. SUFFICES ASSUME forgotten'  PROVE Forgets'
    BY DEF Forgets
  <2>2. forgotten /\ BringsNothing(writers[w])
    BY <2>1, <1>1, RequestDone, AtWork
  <2>3. \A c \in Concepts : states'[c] = {}
    BY <2>2, <1>0, <1>1, RebuiltNothing DEF BringsNothing, Forgets, ForgottenStaysForgotten
  <2>4. /\ DOMAIN writers' = Writers /\ \A v \in Writers : writers'[v] \in {Idle, writers[v]}
        /\ erasures' = erasures
    BY <1>1, RequestDone
  <2>5. ForgottenStaysForgotten' /\ ~identity'.enabled
    BY <2>2, <2>3, <1>0, <1>1 DEF Forgets, ForgottenStaysForgotten, Live
  <2>6. \A v \in Writers : writers'[v] # Idle /\ writers'[v].since = erasures'
                             => BringsNothing(writers'[v])
    BY <2>2, <2>4, <1>0 DEF Forgets
  <2> QED BY <2>5, <2>6 DEF Forgets, BringsNothing
<1> QED BY <1>2, <1>3, <1>4, <1>5, <1>6 DEF MemoryInvariant

LEMMA ExportKeeps ==
    ASSUME MemoryInvariant, NEW w \in Writers, CommitExport(w)
    PROVE  MemoryInvariant'
PROOF
<1>0. /\ MemoryTyped /\ StatesFromLedger /\ SessionsOfItems /\ CorrectedOnce /\ DeletionHolds
      /\ Forgets
  BY DEF MemoryInvariant
<1>1. /\ writers[w].op = "export" /\ Done(w) /\ exports' = exports \cup {writers[w].found}
      /\ UNCHANGED <<identity, links, mapping, ledger, appended, states, preference, items,
                     retests, audits, stale, crossed>>
  BY DEF CommitExport, Doing, Found
<1>2. MemoryTyped'
  BY <1>0, <1>1, RequestDone, TypedParts, TypedNext
<1>3. WritersCarry'
  BY <1>0, <1>1, RequestDone, WritersGoOn DEF MemoryTyped
<1>4. StatesFromLedger' /\ SessionsOfItems' /\ CorrectedOnce' /\ DeletionHolds'
  BY <1>0, <1>1 DEF StatesFromLedger, SessionsOfItems, CorrectedOnce, DeletionHolds, Outstanding
<1>5. Forgets'
  <2>1. SUFFICES ASSUME forgotten'  PROVE Forgets'
    BY DEF Forgets
  <2>2. forgotten /\ BringsNothing(writers[w])
    BY <2>1, <1>1, RequestDone, AtWork
  <2>3. exports' \subseteq {{}}
    BY <2>2, <1>0, <1>1 DEF BringsNothing, Forgets, ForgottenStaysForgotten
  <2>4. \A v \in Writers : writers'[v] \in {Idle, writers[v]} /\ erasures' = erasures
    BY <1>1, RequestDone
  <2>5. ForgottenStaysForgotten' /\ ~identity'.enabled
    BY <2>2, <2>3, <1>0, <1>1 DEF Forgets, ForgottenStaysForgotten, Live
  <2>6. \A v \in Writers : writers'[v] # Idle /\ writers'[v].since = erasures'
                             => BringsNothing(writers'[v])
    BY <2>2, <2>4, <1>0 DEF Forgets
  <2> QED BY <2>5, <2>6 DEF Forgets, BringsNothing
<1> QED BY <1>2, <1>3, <1>4, <1>5 DEF MemoryInvariant

LEMMA CorrectionKeeps ==
    ASSUME MemoryInvariant, NEW w \in Writers, CommitCorrection(w)
    PROVE  MemoryInvariant'
PROOF
<1>0. MemoryTyped /\ SessionsOfItems /\ DeletionHolds /\ CorrectedOnce
  BY DEF MemoryInvariant
<1> DEFINE old == writers[w].found.event
           event == NewEvent("correction", old.concept, old.subject, "none", old.id)
<1>1. /\ writers[w].op = "correction" /\ Done(w) /\ old \in ledger /\ AppendEvent(event)
      /\ states' = Rebuilt(ledger')
      /\ crossed' = IF old.id \in Superseded(ledger) \ writers[w].found.before
                    THEN crossed \cup {<<"event", old.id>>} ELSE crossed
      /\ UNCHANGED <<identity, links, mapping, preference, items, retests, exports, audits>>
  BY DEF CommitCorrection, Doing, Found
<1>2. forgotten' = FALSE
  BY <1>1, DoneForgets
<1>3. event.id = appended + 1 /\ event.supersedes = old.id
  BY NewEventParts
<1> HIDE DEF event
<1>4. /\ \A f \in ledger' : /\ f.id \in 1..appended' /\ f.supersedes \in Nat
                            /\ f.supersedes < f.id
      /\ appended' \in Nat /\ appended' <= MaxEvents
      /\ ledger' = ledger \cup {event}
  <2>1. event.supersedes \in 0..appended
    BY <1>1, <1>3, <1>0, TypedParts
  <2> QED BY <2>1, <1>1, <1>3, EventAppended
<1>5. MemoryTyped'
  BY <1>0, <1>1, <1>2, <1>4, RequestDone, TypedParts, TypedNext
<1>6. WritersCarry'
  BY <1>0, <1>1, RequestDone, WritersGoOn DEF MemoryTyped
<1>7. StatesFromLedger'
  BY <1>1, RebuiltCounts
<1>8. CorrectedOnce'
  <2>1. old.id \notin writers[w].found.before
    BY <1>1, AtWork DEF Carries
  <2>2. ASSUME NEW f \in ledger, f.supersedes = old.id
        PROVE  <<"event", old.id>> \in crossed'
    BY <2>1, <2>2, <1>1 DEF Superseded
  <2>3. crossed \subseteq crossed'
    BY <1>1
  <2> QED BY <2>2, <2>3, <1>0, <1>3, <1>4 DEF CorrectedOnce
<1>9. SessionsOfItems' /\ DeletionHolds'
  BY <1>0, <1>1 DEF SessionsOfItems, DeletionHolds, Outstanding
<1> QED BY <1>2, <1>5, <1>6, <1>7, <1>8, <1>9 DEF MemoryInvariant, Forgets

LEMMA PlanKeeps ==
    ASSUME MemoryInvariant, NEW w \in Writers, CommitPlan(w)
    PROVE  MemoryInvariant'
PROOF
<1>0. MemoryTyped /\ StatesFromLedger /\ DeletionHolds /\ CorrectedOnce
  BY DEF MemoryInvariant
<1> DEFINE i == writers[w].found[1]
           item == [status |-> "proposed", concept |-> writers[w].found[2], session |-> 0]
<1>1. /\ writers[w].op = "plan" /\ Done(w) /\ items[i] = NoItem
      /\ items' = [items EXCEPT ![i] = item]
      /\ UNCHANGED <<identity, links, mapping, ledger, appended, states, preference, retests,
                     exports, audits, stale, crossed>>
  BY DEF CommitPlan, Doing, Found
<1>2. forgotten' = FALSE
  BY <1>1, DoneForgets
<1>3. i \in Items /\ writers[w].found[2] \in Concepts
  BY <1>1, AtWork DEF Carries
<1>4. item \in Item
  BY <1>3 DEF Item, Statuses
<1> HIDE DEF item
<1>5. items \in [Items -> {NoItem} \cup Item] /\ items' \in [Items -> {NoItem} \cup Item]
  BY <1>0, <1>1, <1>4 DEF MemoryTyped
<1>6. MemoryTyped'
  BY <1>0, <1>1, <1>2, <1>5, RequestDone, TypedParts, TypedNext
<1>7. WritersCarry'
  BY <1>0, <1>1, RequestDone, WritersGoOn DEF MemoryTyped
<1>8. SessionsOfItems'
  <2>1. \A j \in Items : items[j] # NoItem => items'[j] = items[j]
    BY <1>1, <1>5
  <2> QED BY <2>1, <1>1, SessionsStay
<1>9. StatesFromLedger' /\ CorrectedOnce' /\ DeletionHolds'
  BY <1>0, <1>1 DEF StatesFromLedger, CorrectedOnce, DeletionHolds, Outstanding
<1> QED BY <1>2, <1>6, <1>7, <1>8, <1>9 DEF MemoryInvariant, Forgets

\* The columns of an item that an update may set.
LEMMA ItemSet ==
    ASSUME MemoryInvariant, NEW i \in Items, Live(i), NEW status \in Statuses \ {"none"},
           NEW session \in Nat
    PROVE  /\ items[i] # NoItem
           /\ [items EXCEPT ![i].status = status] \in [Items -> {NoItem} \cup Item]
           /\ [items EXCEPT ![i].status = status, ![i].session = session]
                \in [Items -> {NoItem} \cup Item]
           /\ [items EXCEPT ![i].status = status][i] # NoItem
           /\ [items EXCEPT ![i].status = status, ![i].session = session][i] # NoItem
PROOF
<1>1. items \in [Items -> {NoItem} \cup Item] /\ items[i] # NoItem
  BY DEF MemoryInvariant, MemoryTyped, Live, NoItem
<1>2. items[i] \in Item
  BY <1>1
<1>3. /\ [items[i] EXCEPT !.status = status] \in Item
      /\ [items[i] EXCEPT !.status = status, !.session = session] \in Item
  BY <1>2 DEF Item
<1>4. \A item \in Item : item # NoItem
  BY DEF Item, NoItem
<1> QED BY <1>1, <1>3, <1>4

LEMMA DecisionKeeps ==
    ASSUME MemoryInvariant, NEW w \in Writers, CommitDecision(w)
    PROVE  MemoryInvariant'
PROOF
<1>0. MemoryTyped /\ StatesFromLedger /\ DeletionHolds /\ CorrectedOnce
  BY DEF MemoryInvariant
<1> DEFINE i == writers[w].found[1]
           status == writers[w].found[2]
<1>1. /\ writers[w].op = "decision" /\ Done(w) /\ Live(i)
      /\ items' = [items EXCEPT ![i].status = status]
      /\ UNCHANGED <<identity, links, mapping, ledger, appended, states, preference, retests,
                     exports, audits, stale, crossed>>
  BY DEF CommitDecision, Doing, Found
<1>2. forgotten' = FALSE
  BY <1>1, DoneForgets
<1>3. i \in Items /\ status \in {"accepted", "dismissed"}
  BY <1>1, AtWork DEF Carries
<1> HIDE DEF status
<1>4. /\ items \in [Items -> {NoItem} \cup Item] /\ items' \in [Items -> {NoItem} \cup Item]
      /\ items[i] # NoItem /\ items'[i] # NoItem
  BY <1>0, <1>1, <1>3, ItemSet DEF MemoryTyped, Statuses
<1>5. MemoryTyped'
  BY <1>0, <1>1, <1>2, <1>4, RequestDone, TypedParts, TypedNext
<1>6. WritersCarry'
  BY <1>0, <1>1, RequestDone, WritersGoOn DEF MemoryTyped
<1>7. SessionsOfItems'
  <2>1. /\ \A j \in Items : j # i => items'[j] = items[j]
        /\ items'[i].session = items[i].session /\ items'[i].status # "started"
    <3>1. items[i] \in Item
      BY <1>3, <1>4
    <3> QED BY <3>1, <1>1, <1>3, <1>4 DEF Item
  <2> QED BY <2>1, <1>1, <1>4, SessionsStay
<1>8. StatesFromLedger' /\ CorrectedOnce' /\ DeletionHolds'
  BY <1>0, <1>1 DEF StatesFromLedger, CorrectedOnce, DeletionHolds, Outstanding
<1> QED BY <1>2, <1>5, <1>6, <1>7, <1>8 DEF MemoryInvariant, Forgets

LEMMA StartKeeps ==
    ASSUME MemoryInvariant, NEW w \in Writers, CommitStart(w)
    PROVE  MemoryInvariant'
PROOF
<1>0. MemoryTyped /\ StatesFromLedger /\ DeletionHolds /\ CorrectedOnce /\ SessionsOfItems
  BY DEF MemoryInvariant
<1> DEFINE i == writers[w].found.item
<1>1. /\ writers[w].op = "start" /\ Done(w) /\ Live(i)
      /\ items' = [items EXCEPT ![i].status = "started", ![i].session = Len(retests')]
      /\ crossed' = IF items[i].session # writers[w].found.row.session
                    THEN crossed \cup {<<"item", i>>} ELSE crossed
      /\ UNCHANGED <<identity, links, mapping, ledger, appended, states, preference, exports,
                     audits, stale>>
  BY DEF CommitStart, Doing, Found
<1>2. PICK s \in Subjects : retests' = Append(retests, [item |-> i, subject |-> s, outcomes |-> 0])
  BY DEF CommitStart, Found
<1>3. forgotten' = FALSE
  BY <1>1, DoneForgets
<1>4. i \in Items /\ writers[w].found.row.session = 0
  BY <1>1, AtWork DEF Carries
<1> DEFINE retest == [item |-> i, subject |-> s, outcomes |-> 0]
           last == Len(retests) + 1
<1>5. retest \in Retest /\ retest.item = i /\ retest.outcomes = 0
  BY <1>4 DEF Retest
<1> HIDE DEF retest
<1>6. /\ retests \in Seq(Retest) /\ retests' = Append(retests, retest)
  BY <1>0, <1>2 DEF MemoryTyped, retest
<1>7. /\ retests' \in Seq(Retest) /\ Len(retests') = last /\ last \in Nat /\ last \notin DOMAIN retests
      /\ DOMAIN retests' = DOMAIN retests \cup {last} /\ retests'[last] = retest
      /\ \A n \in DOMAIN retests : retests'[n] = retests[n] /\ n # 0
  BY <1>5, <1>6
<1> HIDE DEF last
<1>8. /\ items \in [Items -> {NoItem} \cup Item] /\ items' \in [Items -> {NoItem} \cup Item]
      /\ items[i] # NoItem /\ items'[i] # NoItem
  <2> DEFINE row == [items EXCEPT ![i].status = "started", ![i].session = last]
  <2>1. items' = row
    BY <1>1, <1>7
  <2>2. "started" \in Statuses \ {"none"} /\ last \in Nat /\ i \in Items /\ Live(i)
    BY <1>1, <1>4, <1>7 DEF Statuses
  <2>3. row \in [Items -> {NoItem} \cup Item] /\ items[i] # NoItem /\ row[i] # NoItem
    BY <2>2, ItemSet
  <2> QED BY <2>1, <2>3, <1>0 DEF MemoryTyped
<1>9. MemoryTyped'
  BY <1>0, <1>1, <1>3, <1>7, <1>8, RequestDone, TypedParts, TypedNext
<1>10. WritersCarry'
  BY <1>0, <1>1, <1>7, RequestDone, WritersGoOn DEF MemoryTyped
<1>11. SessionsOfItems'
  <2>1. /\ items'[i].session = last /\ \A j \in Items : j # i => items'[j] = items[j]
    <3>1. items[i] \in Item
      BY <1>4, <1>8
    <3> QED BY <3>1, <1>1, <1>4, <1>7, <1>8 DEF Item
  <2>2. crossed \subseteq crossed' /\ (items[i].session # 0 => <<"item", i>> \in crossed')
    BY <1>1, <1>4
  <2>3. ASSUME NEW n \in DOMAIN retests', <<"item", retests'[n].item>> \notin crossed'
        PROVE  LET j == retests'[n].item IN
               /\ items'[j] # NoItem /\ items'[j].session = n /\ retests'[n].outcomes <= 1
               /\ items'[j].status = "started" => retests'[n].outcomes = 0
    <3>1. CASE n = last
      BY <3>1, <2>1, <1>5, <1>7, <1>8
    <3>2. CASE n \in DOMAIN retests
      <4>1. retests'[n] = retests[n] /\ n # 0 /\ retests[n].item \in Items
        BY <3>2, <1>7, RetestsTyped
      <4>2. /\ items[retests[n].item] # NoItem /\ items[retests[n].item].session = n
            /\ retests[n].outcomes <= 1
            /\ items[retests[n].item].status = "started" => retests[n].outcomes = 0
        BY <4>1, <3>2, <2>2, <2>3, <1>0 DEF SessionsOfItems
      <4>3. retests[n].item # i
        BY <4>1, <4>2, <2>2, <2>3
      <4> QED BY <4>1, <4>2, <4>3, <2>1
    <3> QED BY <3>1, <3>2, <1>7
  <2> QED BY <2>3 DEF SessionsOfItems
<1>12. StatesFromLedger' /\ CorrectedOnce' /\ DeletionHolds'
  BY <1>0, <1>1 DEF StatesFromLedger, CorrectedOnce, DeletionHolds, Outstanding
<1> QED BY <1>3, <1>9, <1>10, <1>11, <1>12 DEF MemoryInvariant, Forgets

LEMMA OutcomeKeeps ==
    ASSUME MemoryInvariant, NEW w \in Writers, CommitOutcome(w)
    PROVE  MemoryInvariant'
PROOF
<1>0. MemoryTyped /\ DeletionHolds /\ CorrectedOnce /\ SessionsOfItems
  BY DEF MemoryInvariant
<1> DEFINE n == writers[w].found.number
           i == retests[n].item
           event == NewEvent("outcome", items[i].concept, retests[n].subject, "none", 0)
<1>1. /\ writers[w].op = "outcome" /\ Done(w) /\ Live(i) /\ AppendEvent(event)
      /\ retests' = [retests EXCEPT ![n].outcomes = @ + 1]
      /\ items' = [items EXCEPT ![i].status = "completed"]
      /\ states' = Rebuilt(ledger')
      /\ crossed' = IF items[i] # writers[w].found.row THEN crossed \cup {<<"item", i>>} ELSE crossed
      /\ UNCHANGED <<identity, links, mapping, preference, exports, audits>>
  BY DEF CommitOutcome, Doing, Found
<1>2. forgotten' = FALSE
  BY <1>1, DoneForgets
<1>3. n \in DOMAIN retests /\ writers[w].found.row.status = "started"
  BY <1>1, AtWork DEF Carries
<1>4. event.id = appended + 1 /\ event.supersedes = 0
  BY NewEventParts
<1> HIDE DEF event
<1>5. /\ \A f \in ledger' : /\ f.id \in 1..appended' /\ f.supersedes \in Nat
                            /\ f.supersedes < f.id
      /\ appended' \in Nat /\ appended' <= MaxEvents
      /\ \A f \in ledger' : f \in ledger \/ f.supersedes = 0
  <2>1. event.supersedes \in 0..appended
    BY <1>4, <1>0, TypedParts
  <2> QED BY <2>1, <1>1, <1>4, EventAppended
<1>6. /\ retests \in Seq(Retest) /\ retests[n] \in Retest /\ i \in Items
      /\ retests[n].outcomes \in Nat
  BY <1>0, <1>3, RetestsTyped DEF MemoryTyped
<1> DEFINE retest == [retests[n] EXCEPT !.outcomes = @ + 1]
<1>7. retest \in Retest /\ retest.item = i /\ retest.outcomes = retests[n].outcomes + 1
  BY <1>6 DEF Retest
<1>8. retests' = [retests EXCEPT ![n] = retest]
  BY <1>1
<1> HIDE DEF retest
<1>9. /\ retests' \in Seq(Retest) /\ DOMAIN retests' = DOMAIN retests /\ retests'[n] = retest
      /\ \A m \in DOMAIN retests : m # n => retests'[m] = retests[m]
  BY <1>3, <1>6, <1>7, <1>8
<1> HIDE DEF n
<1>10. /\ items \in [Items -> {NoItem} \cup Item] /\ items' \in [Items -> {NoItem} \cup Item]
       /\ items[i] # NoItem /\ items'[i] # NoItem
  <2> DEFINE row == [items EXCEPT ![i].status = "completed"]
  <2>1. "completed" \in Statuses \ {"none"} /\ i \in Items /\ Live(i)
    BY <1>1, <1>6 DEF Statuses
  <2>2. row \in [Items -> {NoItem} \cup Item] /\ items[i] # NoItem /\ row[i] # NoItem
    <3>1. 0 \in Nat
      OBVIOUS
    <3> QED BY <2>1, <3>1, ItemSet
  <2> QED BY <2>2, <1>0, <1>1 DEF MemoryTyped
<1>11. MemoryTyped'
  BY <1>0, <1>1, <1>2, <1>5, <1>9, <1>10, RequestDone, TypedParts, TypedNext
<1>12. WritersCarry'
  BY <1>0, <1>1, <1>9, RequestDone, WritersGoOn DEF MemoryTyped
<1>13. SessionsOfItems'
  <2>1. /\ \A j \in Items : j # i => items'[j] = items[j]
        /\ items'[i].session = items[i].session /\ items'[i].status = "completed"
    <3>1. items[i] \in Item
      BY <1>6, <1>10
    <3> QED BY <3>1, <1>1, <1>6, <1>10 DEF Item
  <2>2. /\ crossed \subseteq crossed'
        /\ <<"item", i>> \notin crossed' => items[i].status = "started"
    BY <1>1, <1>3
  <2>3. ASSUME NEW m \in DOMAIN retests', <<"item", retests'[m].item>> \notin crossed'
        PROVE  LET j == retests'[m].item IN
               /\ items'[j] # NoItem /\ items'[j].session = m /\ retests'[m].outcomes <= 1
               /\ items'[j].status = "started" => retests'[m].outcomes = 0
    <3>1. CASE m = n
      <4>1. /\ items[i].session = n /\ retests[n].outcomes = 0
        BY <3>1, <2>2, <2>3, <1>0, <1>3, <1>7, <1>9 DEF SessionsOfItems
      <4> QED BY <4>1, <3>1, <2>1, <1>7, <1>9, <1>10
    <3>2. CASE m # n
      <4>1. retests'[m] = retests[m] /\ m \in DOMAIN retests /\ retests[m].item \in Items
        BY <3>2, <2>3, <1>9, RetestsTyped
      <4>2. /\ items[retests[m].item] # NoItem /\ items[retests[m].item].session = m
            /\ retests[m].outcomes <= 1
            /\ items[retests[m].item].status = "started" => retests[m].outcomes = 0
        BY <4>1, <2>2, <2>3, <1>0 DEF SessionsOfItems
      <4> QED BY <4>1, <4>2, <2>1, <1>10
    <3> QED BY <3>1, <3>2
  <2> QED BY <2>3 DEF SessionsOfItems
<1>14. StatesFromLedger' /\ CorrectedOnce'
  <2>1. crossed \subseteq crossed'
    BY <1>1
  <2> QED BY <2>1, <1>1, <1>5, RebuiltCounts, CorrectionsStay
<1>15. DeletionHolds'
  <2>1. \A a \in Deletions : <<"audit", a>> \in crossed => <<"audit", a>> \in crossed'
    BY <1>1
  <2> QED BY <2>1, <1>0, <1>1 DEF DeletionHolds, Outstanding
<1> QED BY <1>2, <1>11, <1>12, <1>13, <1>14, <1>15 DEF MemoryInvariant, Forgets

\* An audit opened, retried, queued, completed or failed keeps its scope.
LEMMA AuditSet ==
    ASSUME MemoryInvariant, NEW a \in Deletions, audits[a] # NoAudit
    PROVE  /\ audits \in [Deletions -> {NoAudit} \cup Audit] /\ audits[a] \in Audit
           /\ audits[a].scope \in Scopes
PROOF
<1>1. audits \in [Deletions -> {NoAudit} \cup Audit] /\ audits[a] \in Audit
  BY DEF MemoryInvariant, MemoryTyped
<1> QED BY <1>1 DEF Audit

LEMMA AuditsAreNot == NoAudit.status = "none" /\ \A audit \in Audit : audit # NoAudit
PROOF BY DEF Audit, NoAudit

\* A deletion is asked for, or asked for again: what is forgotten stays so.
LEMMA BeginKeeps ==
    ASSUME MemoryInvariant, NEW w \in Writers, NEW a \in Deletions, NEW audit \in Audit,
           audit.status = "pending", audits' = [audits EXCEPT ![a] = audit],
           Queueing(w, a), identity.exists, identity' = Blocked(identity),
           UNCHANGED <<links, mapping, ledger, appended, states, preference, items, retests,
                       exports, noteVars>>
    PROVE  MemoryInvariant'
PROOF
<1>0. /\ MemoryTyped /\ WritersCarry /\ StatesFromLedger /\ SessionsOfItems /\ CorrectedOnce
      /\ DeletionHolds /\ Forgets
  BY DEF MemoryInvariant
<1> DEFINE writer == [op |-> "enqueue", found |-> a, since |-> erasures]
<1>1. /\ writers' = [writers EXCEPT ![w] = writer]
      /\ UNCHANGED <<links, ledger, appended, states, preference, items, retests, exports,
                     erasures, forgotten, stale, crossed>>
  BY DEF Queueing, noteVars
<1>2. /\ identity' \in Identity /\ identity'.enabled = identity.enabled /\ identity'.blocked
  BY <1>0 DEF MemoryTyped, MemoryTypeOK, Identity, Blocked
<1>3. /\ audits \in [Deletions -> {NoAudit} \cup Audit] /\ audits'[a] = audit
      /\ audits' \in [Deletions -> {NoAudit} \cup Audit] /\ audit # NoAudit
      /\ \A b \in Deletions : b # a => audits'[b] = audits[b]
  BY <1>0, AuditsAreNot DEF MemoryTyped
<1>4. MemoryTyped'
  BY <1>0, <1>1, <1>2, <1>3, TypedParts, TypedNext
<1>5. WritersCarry'
  BY <1>1, <1>3, WritersBegin
<1>6. DeletionHolds'
  BY <1>2 DEF DeletionHolds
<1>7. StatesFromLedger' /\ SessionsOfItems' /\ CorrectedOnce'
  BY <1>0, <1>1 DEF StatesFromLedger, SessionsOfItems, CorrectedOnce
<1>8. Forgets'
  <2>1. ForgottenStaysForgotten => ForgottenStaysForgotten'
    BY <1>1 DEF ForgottenStaysForgotten, Live
  <2>2. BringsNothing(writer)
    BY DEF BringsNothing
  <2> HIDE DEF writer
  <2>3. \A v \in Writers : writers'[v] \in {writers[v], writer}
    BY <1>0, <1>1 DEF WritersCarry
  <2>4. ASSUME forgotten, NEW v \in Writers, writers'[v] # Idle, writers'[v].since = erasures
        PROVE  BringsNothing(writers'[v])
    BY <2>2, <2>3, <2>4, <1>0 DEF Forgets
  <2> QED BY <2>1, <2>4, <1>0, <1>1, <1>2 DEF Forgets, BringsNothing
<1> QED BY <1>4, <1>5, <1>6, <1>7, <1>8 DEF MemoryInvariant

LEMMA DeletionKeeps ==
    ASSUME MemoryInvariant, NEW w \in Writers, CommitDeletion(w)
    PROVE  MemoryInvariant'
PROOF
<1> DEFINE a == writers[w].found[1]
           audit == [status |-> "pending", scope |-> writers[w].found[2], queued |-> FALSE]
<1>1. /\ writers[w].op = "deletion" /\ identity.exists /\ Queueing(w, a)
      /\ audits' = [audits EXCEPT ![a] = audit] /\ identity' = Blocked(identity)
      /\ UNCHANGED <<links, mapping, ledger, appended, states, preference, items, retests,
                     exports, noteVars>>
  BY DEF CommitDeletion, Doing, Found
<1>2. a \in Deletions /\ writers[w].found[2] \in Scopes
  BY <1>1, AtWork DEF Carries
<1>3. audit \in Audit /\ audit.status = "pending"
  BY <1>2 DEF Audit
<1> QED BY <1>1, <1>2, <1>3, BeginKeeps

LEMMA RetryKeeps ==
    ASSUME MemoryInvariant, NEW w \in Writers, NEW a \in Deletions, RetryDeletion(w, a)
    PROVE  MemoryInvariant'
PROOF
<1>1. /\ identity.exists /\ audits[a].status = "failed" /\ Queueing(w, a)
      /\ audits' = [audits EXCEPT ![a].status = "pending"] /\ identity' = Blocked(identity)
      /\ UNCHANGED <<links, mapping, ledger, appended, states, preference, items, retests,
                     exports, noteVars>>
  BY DEF RetryDeletion
<1> DEFINE audit == [audits[a] EXCEPT !.status = "pending"]
<1>2. audits[a] \in Audit
  BY <1>1, AuditSet, AuditsAreNot
<1>3. audit \in Audit /\ audit.status = "pending"
  BY <1>2 DEF Audit
<1>4. audits' = [audits EXCEPT ![a] = audit]
  BY <1>1
<1> QED BY <1>1, <1>3, <1>4, BeginKeeps

LEMMA EnqueueKeeps ==
    ASSUME MemoryInvariant, NEW w \in Writers, Enqueue(w)
    PROVE  MemoryInvariant'
PROOF
<1>0. /\ MemoryTyped /\ WritersCarry /\ StatesFromLedger /\ SessionsOfItems /\ CorrectedOnce
      /\ DeletionHolds /\ Forgets
  BY DEF MemoryInvariant
<1> DEFINE a == writers[w].found
           audit == [audits[a] EXCEPT !.queued = TRUE]
<1>1. /\ writers[w].op = "enqueue" /\ writers' = [writers EXCEPT ![w] = Idle]
      /\ audits' = [audits EXCEPT ![a] = audit]
      /\ UNCHANGED <<identity, links, mapping, ledger, appended, states, preference, items,
                     retests, exports, erasures, forgotten, stale, crossed>>
  BY DEF Enqueue, Found, noteVars
<1>2. a \in Deletions /\ audits[a] \in Audit
  BY <1>1, AtWork, AuditSet DEF Carries
<1>3. audit \in Audit /\ audit.status = audits[a].status
  BY <1>2 DEF Audit
<1> HIDE DEF audit
<1>4. /\ audits \in [Deletions -> {NoAudit} \cup Audit]
      /\ audits' \in [Deletions -> {NoAudit} \cup Audit] /\ audits'[a] = audit /\ audit # NoAudit
      /\ \A b \in Deletions : b # a => audits'[b] = audits[b]
  BY <1>0, <1>1, <1>2, <1>3, AuditsAreNot DEF MemoryTyped
<1>5. MemoryTyped'
  BY <1>0, <1>1, <1>4, TypedParts, TypedNext
<1>6. DOMAIN writers' = Writers /\ \A v \in Writers : writers'[v] \in {Idle, writers[v]}
  BY <1>0, <1>1 DEF WritersCarry
<1>7. WritersCarry'
  BY <1>0, <1>1, <1>4, <1>6, WritersGoOn DEF MemoryTyped
<1>8. StatesFromLedger' /\ SessionsOfItems' /\ CorrectedOnce'
  BY <1>0, <1>1 DEF StatesFromLedger, SessionsOfItems, CorrectedOnce
<1>9. DeletionHolds'
  BY <1>0, <1>1, <1>3, <1>4 DEF DeletionHolds, Outstanding
<1>10. Forgets'
  BY <1>0, <1>1, <1>6 DEF Forgets, ForgottenStaysForgotten, Live, BringsNothing
<1> QED BY <1>5, <1>7, <1>8, <1>9, <1>10 DEF MemoryInvariant

\* What a deletion of the whole memory takes.
LEMMA WholeErases ==
    ASSUME NEW scope, Whole(scope)
    PROVE  /\ \A event : Erases(scope, event)
           /\ \A i \in Items : Live(i) => ErasesItem(scope, i)
PROOF BY DEF Whole, Erases, ErasesItem

LEMMA ExecuteKeeps ==
    ASSUME MemoryInvariant, NEW a \in Deletions, NEW again \in BOOLEAN, ExecuteDeletion(a, again)
    PROVE  MemoryInvariant'
PROOF
<1>0. /\ MemoryTyped /\ WritersCarry /\ SessionsOfItems /\ CorrectedOnce /\ Forgets
  BY DEF MemoryInvariant
<1> DEFINE scope == audits[a].scope
<1>1. /\ audits[a] # NoAudit /\ identity.exists
      /\ Whole(scope) => erasures < Cardinality(Deletions)
      /\ Erase(scope)
      /\ audits' = [audits EXCEPT ![a].status = "completed", ![a].queued = again]
      /\ crossed' = crossed \cup {<<"audit", b>> : b \in {b \in Deletions \ {a} : Outstanding(b)}}
      /\ UNCHANGED <<mapping, appended, retests, writers>>
  BY DEF ExecuteDeletion
<1>2. scope \in Scopes /\ audits[a] \in Audit
  BY <1>1, AuditSet
<1> DEFINE audit == [audits[a] EXCEPT !.status = "completed", !.queued = again]
<1>3. audit \in Audit /\ audit.status = "completed"
  BY <1>2 DEF Audit
<1>4. audits' = [audits EXCEPT ![a] = audit]
  BY <1>1
<1> HIDE DEF audit
<1>5. /\ audits \in [Deletions -> {NoAudit} \cup Audit]
      /\ audits' \in [Deletions -> {NoAudit} \cup Audit] /\ audits'[a] = audit /\ audit # NoAudit
      /\ \A b \in Deletions : b # a => audits'[b] = audits[b]
  BY <1>0, <1>3, <1>4, AuditsAreNot DEF MemoryTyped
<1> HIDE DEF scope
<1>6. /\ ledger' = {event \in ledger : ~Erases(scope, event)}
      /\ states' = Rebuilt(ledger') /\ stale' = FALSE
      /\ items' = [i \in Items |-> IF ErasesItem(scope, i) THEN [items[i] EXCEPT !.status = "deleted"]
                                   ELSE items[i]]
      /\ preference' = IF scope.kind = "preference" \/ Whole(scope) THEN "none" ELSE preference
      /\ links' = [s \in Subjects |->
           IF scope.kind = "identity_and_memory" \/ scope.target = s THEN "none" ELSE links[s]]
      /\ exports' = {}
      /\ identity' = [exists |-> scope.kind # "identity_and_memory",
                      enabled |-> identity.enabled /\ ~Whole(scope),
                      blocked |-> FALSE]
      /\ erasures' = IF Whole(scope) THEN erasures + 1 ELSE erasures
      /\ forgotten' = (forgotten \/ Whole(scope))
  BY <1>1 DEF Erase
<1>7. /\ items \in [Items -> {NoItem} \cup Item] /\ items' \in [Items -> {NoItem} \cup Item]
      /\ \A i \in Items : items[i] # NoItem =>
           /\ items'[i] # NoItem /\ items'[i].session = items[i].session
           /\ items'[i].status = "started" => items[i].status = "started"
      /\ \A i \in Items : (Live(i) => ErasesItem(scope, i)) => ~Live(i)'
      /\ \A i \in Items : ~Live(i) => ~Live(i)'
  <2>1. items \in [Items -> {NoItem} \cup Item]
    BY <1>0 DEF MemoryTyped
  <2>2. ASSUME NEW i \in Items, ErasesItem(scope, i)
        PROVE  /\ items'[i] \in Item /\ items'[i] # NoItem /\ items'[i].session = items[i].session
               /\ items'[i].status = "deleted"
    <3>1. items[i] \in Item
      BY <2>1, <2>2 DEF ErasesItem, Live, NoItem
    <3>2. items'[i] = [items[i] EXCEPT !.status = "deleted"]
      BY <2>2, <1>6
    <3> QED BY <3>1, <3>2 DEF Item, Statuses, NoItem
  <2>3. \A i \in Items : ~ErasesItem(scope, i) => items'[i] = items[i]
    BY <1>6
  <2>4. items' = [i \in Items |-> items'[i]]
    BY <1>6
  <2>5. items' \in [Items -> {NoItem} \cup Item]
    BY <2>1, <2>2, <2>3, <2>4
  <2> QED BY <2>1, <2>2, <2>3, <2>5 DEF Live, ErasesItem
<1>8. /\ erasures \in Nat /\ erasures' \in Nat /\ erasures' >= erasures
      /\ erasures' <= Cardinality(Deletions)
  <2>1. Cardinality(Deletions) \in Nat
    BY MemoryAssumption, FS_CardinalityType
  <2> QED BY <2>1, <1>0, <1>1, <1>6, TypedParts
<1>9. MemoryTyped'
  <2>1. /\ identity' \in Identity /\ links' \in [Subjects -> Linked] /\ forgotten' \in BOOLEAN
    <3>1. identity \in Identity /\ links \in [Subjects -> Linked]
      BY <1>0, TypedParts
    <3>2. links' \in [Subjects -> Linked]
      BY <3>1, <1>6 DEF Linked
    <3>3. identity.enabled \in BOOLEAN
      BY <3>1 DEF Identity
    <3>4. identity' \in Identity
      BY <3>3, <1>6 DEF Identity
    <3> QED BY <3>2, <3>4, <1>6
  <2>2. \A event \in ledger' : /\ event.id \in 1..appended /\ event.supersedes \in Nat
                               /\ event.supersedes < event.id
    BY <1>0, <1>6, TypedParts
  <2> QED BY <2>1, <2>2, <1>0, <1>1, <1>5, <1>7, <1>8, TypedParts, TypedNext
<1>10. WritersCarry'
  <2>1. DOMAIN writers' = Writers /\ \A v \in Writers : writers'[v] \in {Idle, writers[v]}
    BY <1>0, <1>1 DEF WritersCarry
  <2> QED BY <2>1, <1>1, <1>5, <1>8, WritersGoOn
<1>11. StatesFromLedger'
  BY <1>6, RebuiltCounts
<1>12. SessionsOfItems' /\ CorrectedOnce'
  <2>1. \A e \in ledger' : e \in ledger
    BY <1>6
  <2> QED BY <2>1, <1>1, <1>7, SessionsStay, CorrectionsStay
<1>13. DeletionHolds'
  <2>1. ASSUME NEW b \in Deletions, Outstanding(b)'  PROVE <<"audit", b>> \in crossed'
    BY <2>1, <1>1, <1>3, <1>5 DEF Outstanding
  <2> QED BY <2>1 DEF DeletionHolds
<1>14. Forgets'
  <2>1. SUFFICES ASSUME forgotten'  PROVE Forgets'
    BY DEF Forgets
  <2>2. /\ ledger' = {} /\ preference' = "none" /\ ~identity'.enabled
        /\ \A i \in Items : ~Live(i)'
    <3>1. CASE Whole(scope)
      <4>1. \A i \in Items : ~Live(i)'
        BY <3>1, <1>7, WholeErases
      <4>2. ledger' = {}
        BY <3>1, <1>6, WholeErases
      <4> QED BY <3>1, <4>1, <4>2, <1>6
    <3>2. CASE ~Whole(scope)
      <4>1. forgotten
        BY <3>2, <2>1, <1>6
      <4>2. /\ ledger = {} /\ preference = "none" /\ ~identity.enabled
            /\ \A i \in Items : ~Live(i)
        BY <4>1, <1>0 DEF Forgets, ForgottenStaysForgotten
      <4> QED BY <4>2, <1>6, <1>7
    <3> QED BY <3>1, <3>2
  <2>3. \A c \in Concepts : states'[c] = {}
    BY <2>2, <1>6, RebuiltNothing
  <2>4. ForgottenStaysForgotten'
    BY <2>2, <2>3, <1>6 DEF ForgottenStaysForgotten
  <2>5. ASSUME NEW v \in Writers, writers'[v] # Idle, writers'[v].since = erasures'
        PROVE  BringsNothing(writers'[v])
    <3>1. writers'[v] = writers[v] /\ writers[v].since \in Nat /\ writers[v].since <= erasures
      BY <2>5, <1>0, <1>1 DEF WritersCarry
    <3>2. ~Whole(scope) /\ erasures' = erasures
      BY <3>1, <2>5, <1>6, <1>8
    <3> QED BY <3>1, <3>2, <2>1, <2>5, <1>0, <1>6 DEF Forgets
  <2> QED BY <2>2, <2>4, <2>5 DEF Forgets, BringsNothing
<1> QED BY <1>9, <1>10, <1>11, <1>12, <1>13, <1>14 DEF MemoryInvariant

LEMMA FailureKeeps ==
    ASSUME MemoryInvariant, NEW a \in Deletions, NEW again \in BOOLEAN, DeletionFails(a, again)
    PROVE  MemoryInvariant'
PROOF
<1>0. /\ MemoryTyped /\ WritersCarry /\ StatesFromLedger /\ SessionsOfItems /\ CorrectedOnce
      /\ DeletionHolds /\ Forgets
  BY DEF MemoryInvariant
<1> DEFINE audit == [audits[a] EXCEPT !.status = "failed", !.queued = again]
<1>1. /\ audits[a] # NoAudit /\ audits' = [audits EXCEPT ![a] = audit]
      /\ crossed' = IF audits[a].status = "completed" THEN crossed \cup {<<"audit", a>>} ELSE crossed
      /\ UNCHANGED <<identity, links, mapping, ledger, appended, states, preference, items, retests,
                     exports, writers, erasures, forgotten, stale>>
  BY DEF DeletionFails
<1>2. audits[a] \in Audit
  BY <1>1, AuditSet
<1>3. audit \in Audit /\ audits[a].status \in {"pending", "failed", "completed"}
  BY <1>2 DEF Audit
<1> HIDE DEF audit
<1>4. /\ audits \in [Deletions -> {NoAudit} \cup Audit]
      /\ audits' \in [Deletions -> {NoAudit} \cup Audit] /\ audit # NoAudit
      /\ \A b \in Deletions : b # a => audits'[b] = audits[b]
      /\ audits'[a] = audit
  BY <1>0, <1>1, <1>3, AuditsAreNot DEF MemoryTyped
<1>5. MemoryTyped'
  BY <1>0, <1>1, <1>4, TypedParts, TypedNext
<1>6. WritersCarry'
  <2>1. DOMAIN writers' = Writers /\ \A v \in Writers : writers'[v] \in {Idle, writers[v]}
    BY <1>0, <1>1 DEF WritersCarry
  <2> QED BY <2>1, <1>0, <1>1, <1>4, WritersGoOn DEF MemoryTyped
<1>7. crossed \subseteq crossed'
  BY <1>1
<1>8. StatesFromLedger' /\ SessionsOfItems' /\ CorrectedOnce'
  BY <1>0, <1>1, <1>7 DEF StatesFromLedger, SessionsOfItems, CorrectedOnce
<1>9. DeletionHolds'
  BY <1>0, <1>1, <1>3, <1>4, <1>7 DEF DeletionHolds, Outstanding
<1>10. Forgets'
  BY <1>0, <1>1 DEF Forgets, ForgottenStaysForgotten, Live, BringsNothing
<1> QED BY <1>5, <1>6, <1>8, <1>9, <1>10 DEF MemoryInvariant

LEMMA MemoryStarts == InitMemory => MemoryInvariant
PROOF
<1> SUFFICES ASSUME InitMemory  PROVE MemoryInvariant
  OBVIOUS
<1>1. Cardinality(Deletions) \in Nat /\ MaxEvents \in Nat
  BY MemoryAssumption, FS_CardinalityType
<1>2. MemoryTyped
  <2>1. identity \in [exists : BOOLEAN, enabled : BOOLEAN, blocked : BOOLEAN]
        /\ links \in [Subjects -> {"none", "confirmed", "revoked"}]
    BY DEF InitMemory
  <2>2. ledger = {} /\ appended = 0 /\ erasures = 0 /\ forgotten = FALSE
    BY DEF InitMemory
  <2>3. items \in [Items -> {NoItem} \cup Item] /\ \A i \in Items : items[i].status \in Statuses
    BY DEF InitMemory, NoItem, Statuses
  <2>4. retests \in Seq(Retest) /\ audits \in [Deletions -> {NoAudit} \cup Audit]
    BY DEF InitMemory
  <2>5. MemoryTypeOK
    BY <1>1, <2>1, <2>2, <2>3 DEF MemoryTypeOK
  <2> QED BY <2>2, <2>3, <2>4, <2>5 DEF MemoryTyped
<1>3. WritersCarry
  BY DEF InitMemory, WritersCarry
<1>4. StatesFromLedger /\ SessionsOfItems /\ CorrectedOnce /\ Forgets
  BY DEF InitMemory, StatesFromLedger, SessionsOfItems, CorrectedOnce, Forgets
<1>5. DeletionHolds
  BY DEF InitMemory, DeletionHolds, Outstanding, NoAudit
<1> QED BY <1>2, <1>3, <1>4, <1>5 DEF MemoryInvariant

LEMMA MemorySteps == MemoryInvariant /\ [NextMemory]_memoryVars => MemoryInvariant'
PROOF
<1> SUFFICES ASSUME MemoryInvariant, [NextMemory]_memoryVars  PROVE MemoryInvariant'
  OBVIOUS
<1>1. CASE UNCHANGED memoryVars
  BY <1>1 DEF memoryVars, MemoryInvariant, MemoryTyped, MemoryTypeOK, WritersCarry, Carries,
              StatesFromLedger, SessionsOfItems, CorrectedOnce, DeletionHolds, Outstanding, Forgets,
              ForgottenStaysForgotten, Live, BringsNothing
<1>2. CASE \/ \E s \in Subjects : LinkSubject(s) \/ RevokeLink(s)
           \/ \E c \in Concepts, status \in {"accepted", "rejected"} : ReviewMapping(c, status)
           \/ \E i \in Items : CooldownEnds(i)
           \/ \E w \in Writers : Fails(w)
  BY <1>2, RowSteps
<1>3. ASSUME NEW w \in Writers,
             \/ \E enabled \in BOOLEAN : ReadSettings(w, enabled)
             \/ \E step \in PreferenceSteps : ReadPreference(w, step)
             \/ \E e \in Evidence : ReadImport(w, e)
             \/ \E event \in ledger : ReadCorrection(w, event)
             \/ \E i \in Items : ReadStart(w, i)
             \/ \E i \in Items, c \in Concepts : ReadPlan(w, i, c)
             \/ \E i \in Items, step \in Decisions : ReadDecision(w, i, step)
             \/ \E n \in DOMAIN retests : ReadOutcome(w, n)
             \/ \E a \in Deletions, scope \in Scopes : ReadDeletion(w, a, scope)
             \/ ReadRebuild(w) \/ ReadExport(w)
      PROVE  MemoryInvariant'
  BY <1>3, ReadSteps
<1>4. ASSUME NEW w \in Writers,
             \/ \E a \in Deletions : RetryDeletion(w, a)
             \/ CommitSettings(w) \/ CommitPreference(w) \/ CommitImport(w) \/ CommitRebuild(w)
             \/ CommitCorrection(w) \/ CommitPlan(w) \/ CommitDecision(w) \/ CommitStart(w)
             \/ CommitOutcome(w) \/ CommitExport(w) \/ CommitDeletion(w) \/ Enqueue(w)
      PROVE  MemoryInvariant'
  BY <1>4, RetryKeeps, SettingsKeep, PreferenceKeeps, ImportKeeps, RebuildKeeps, CorrectionKeeps,
     PlanKeeps, DecisionKeeps, StartKeeps, OutcomeKeeps, ExportKeeps, DeletionKeeps, EnqueueKeeps
<1>5. CASE \E a \in Deletions, again \in BOOLEAN : ExecuteDeletion(a, again) \/ DeletionFails(a, again)
  BY <1>5, ExecuteKeeps, FailureKeeps
<1> QED BY <1>1, <1>2, <1>3, <1>4, <1>5 DEF NextMemory

LEMMA MemoryHolds == MemoryInvariant => MemorySound
PROOF
<1> SUFFICES ASSUME MemoryInvariant  PROVE MemorySound
  OBVIOUS
<1>1. /\ MemoryTyped /\ StatesFromLedger /\ SessionsOfItems /\ CorrectedOnce /\ DeletionHolds
      /\ Forgets
  BY DEF MemoryInvariant
<1>2. ASSUME NEW i \in Items, <<"item", i>> \notin crossed
      PROVE  /\ Cardinality({n \in DOMAIN retests : retests[n].item = i}) <= 1
             /\ \A n \in DOMAIN retests : retests[n].item = i => retests[n].outcomes <= 1
  <2> DEFINE sessions == {n \in DOMAIN retests : retests[n].item = i}
  <2>1. sessions \subseteq {items[i].session}
    BY <1>1, <1>2 DEF SessionsOfItems
  <2>2. Cardinality(sessions) <= 1
    <3> HIDE DEF sessions
    <3>1. IsFiniteSet({items[i].session}) /\ Cardinality({items[i].session}) = 1
      BY FS_Singleton
    <3> QED BY <2>1, <3>1, FS_Subset
  <2> QED BY <2>2, <1>1, <1>2 DEF SessionsOfItems
<1>3. AdvancedOnce
  BY <1>1, <1>2 DEF AdvancedOnce, CorrectedOnce
<1>4. ForgottenStaysForgotten
  BY <1>1 DEF Forgets, ForgottenStaysForgotten
<1> QED BY <1>1, <1>3, <1>4 DEF MemorySound, MemoryTyped

\* The long-term memory keeps its promises, whatever its requests, its deletion
\* jobs and the actors beside them interleave: states count what the ledger
\* holds, an item has one session and outcome, a deletion holds, and what a
\* deletion of everything removed stays away (longitudinal.py:66-139,
\* retest.py:88-204, memory_control.py:54-320).
THEOREM MemoryIsSound == MemorySpec => []MemorySound
PROOF
<1>1. InitMemory => MemoryInvariant
  BY MemoryStarts
<1>2. MemoryInvariant /\ [NextMemory]_memoryVars => MemoryInvariant'
  BY MemorySteps
<1>3. MemoryInvariant => MemorySound
  BY MemoryHolds
<1> QED BY <1>1, <1>2, <1>3, PTL DEF MemorySpec

----------------------------------------------------------------------------
(* Sums over finite sets *)

\* A set of naturals that is not empty has a least one.
LEMMA LeastNatural ==
  ASSUME NEW S, S \subseteq Nat, S # {}
  PROVE  \E n \in S : \A m \in S : n <= m
<1> DEFINE initial == {0..n : n \in S}
<1>1. initial \subseteq FiniteSubsetsOf(Nat) /\ initial # {}
  <2>1. ASSUME NEW n \in S
        PROVE  0..n \subseteq Nat /\ IsFiniteSet(0..n)
    BY FS_Interval
  <2>2. QED
    BY <2>1 DEF FiniteSubsetsOf
<1>2. PICK s \in initial : \A t \in initial : ~ (<<t, s>> \in StrictSubsetOrdering(Nat))
  BY <1>1, FS_StrictSubsetOrderingWellFounded, WFMin
<1>3. PICK n \in S : s = 0..n
  BY <1>2
<1>4. ASSUME NEW m \in S, m < n
      PROVE  FALSE
  <2>1. 0..m \subseteq 0..n /\ 0..m # 0..n /\ 0..m \subseteq Nat /\ 0..n \subseteq Nat
    BY <1>4
  <2>2. <<0..m, s>> \in StrictSubsetOrdering(Nat)
    BY <1>3, <2>1 DEF StrictSubsetOrdering
  <2>3. QED
    BY <1>2, <2>2
<1>5. QED
  BY <1>4

Some(s) == CHOOSE x \in s : TRUE

\* sums gives each subset of S the sum of the amounts of its elements.
Sums(sums, amount, S) ==
    sums = [s \in SUBSET S |->
              IF s = {} THEN 0 ELSE amount[Some(s)] + sums[s \ {Some(s)}]]

LEMMA Subsets ==
  ASSUME NEW S, IsFiniteSet(S), NEW s \in SUBSET S
  PROVE  /\ IsFiniteSet(s) /\ Cardinality(s) \in Nat /\ Cardinality(s) <= Cardinality(S)
         /\ s # {} => /\ Some(s) \in s /\ s \ {Some(s)} \in SUBSET S
                      /\ Cardinality(s) # 0
                      /\ Cardinality(s \ {Some(s)}) = Cardinality(s) - 1
<1>1. IsFiniteSet(s) /\ Cardinality(s) \in Nat /\ Cardinality(s) <= Cardinality(S)
  BY FS_Subset, FS_CardinalityType
<1>2. s # {} => Some(s) \in s
  BY DEF Some
<1>3. s # {} => Cardinality(s) # 0
  BY <1>1, FS_EmptySet
<1>4. s # {} => Cardinality(s \ {Some(s)}) = Cardinality(s) - 1
  BY <1>1, <1>2, FS_RemoveElement
<1>5. QED
  BY <1>1, <1>2, <1>3, <1>4

\* There is such a function, built for larger and larger subsets.
LEMMA SumsExist ==
  ASSUME NEW S, IsFiniteSet(S), NEW amount \in [S -> Nat]
  PROVE  \E sums \in [SUBSET S -> Nat] : Sums(sums, amount, S)
<1> DEFINE Value(sums, s) == IF s = {} THEN 0 ELSE amount[Some(s)] + sums[s \ {Some(s)}]
           UpTo(sums, n) == \A s \in SUBSET S : Cardinality(s) <= n => sums[s] = Value(sums, s)
           Missing == {n \in Nat : ~ \E sums \in [SUBSET S -> Nat] : UpTo(sums, n)}
<1>1. Missing = {}
  <2> SUFFICES ASSUME Missing # {} PROVE FALSE
    OBVIOUS
  <2>1. PICK n \in Missing : \A m \in Missing : n <= m
    BY LeastNatural
  <2>2. n # 0
    <3>1. UpTo([s \in SUBSET S |-> 0], 0)
      <4>1. ASSUME NEW s \in SUBSET S, Cardinality(s) <= 0
            PROVE  s = {}
        <5>1. Cardinality(s) \in Nat /\ (s # {} => Cardinality(s) # 0)
          BY Subsets
        <5>2. QED
          BY <4>1, <5>1
      <4>2. QED
        BY <4>1
    <3>2. [s \in SUBSET S |-> 0] \in [SUBSET S -> Nat]
      OBVIOUS
    <3>3. 0 \notin Missing
      BY <3>1, <3>2, ZenonT(40)
    <3> HIDE DEF Missing
    <3>4. QED
      BY <3>3
  <2>3. PICK less \in [SUBSET S -> Nat] : UpTo(less, n - 1)
    <3>1. n \in Nat /\ n - 1 \in Nat
      BY <2>2
    <3> HIDE DEF Missing
    <3>2. n - 1 \notin Missing
      BY <2>1, <3>1
    <3>3. QED
      BY <3>1, <3>2 DEF Missing
  <2> DEFINE more == [s \in SUBSET S |-> IF Cardinality(s) = n THEN Value(less, s) ELSE less[s]]
  <2>4. more \in [SUBSET S -> Nat]
    BY Subsets
  <2>5. \A s \in SUBSET S : Cardinality(s) <= n => more[s] = Value(more, s)
    <3> TAKE s \in SUBSET S
    <3> HAVE Cardinality(s) <= n
    <3>1. CASE s = {}
      BY <2>2, <2>3, <3>1, Subsets, FS_EmptySet
    <3>2. CASE s # {}
      <4>1. /\ s \ {Some(s)} \in SUBSET S
            /\ Cardinality(s \ {Some(s)}) = Cardinality(s) - 1
            /\ Cardinality(s) \in Nat
        BY <3>2, Subsets
      <4>2. more[s \ {Some(s)}] = less[s \ {Some(s)}]
        BY <4>1
      <4>3. more[s] = Value(less, s)
        BY <2>3, <4>1
      <4>4. QED
        BY <3>2, <4>2, <4>3
    <3>3. QED
      BY <3>1, <3>2
  <2>6. QED
    BY <2>1, <2>4, <2>5
<1>2. Cardinality(S) \in Nat
  BY FS_CardinalityType
<1>3. PICK sums \in [SUBSET S -> Nat] : UpTo(sums, Cardinality(S))
  BY <1>1, <1>2
<1>4. \A s \in SUBSET S : sums[s] = Value(sums, s)
  BY <1>3, Subsets
<1>5. QED
  BY <1>4 DEF Sums

LEMMA MinimalSubset ==
  ASSUME NEW S, IsFiniteSet(S), NEW B, B \subseteq SUBSET S, B # {}
  PROVE  \E s \in B : \A t \in B : t \subseteq s => t = s
<1>1. \E s \in B : \A t \in B : ~ (<<t, s>> \in StrictSubsetOrdering(S))
  BY FS_StrictSubsetOrderingWellFounded, FS_FiniteSubsetsOfFinite, WFMin
<1>2. QED
  BY <1>1 DEF StrictSubsetOrdering

\* The sum of a set depends on the amounts of its elements, and on nothing else.
LEMMA SumsAgree ==
  ASSUME NEW S, IsFiniteSet(S), NEW T, IsFiniteSet(T), NEW a, NEW b, NEW f, NEW g,
         Sums(a, f, S), Sums(b, g, T), NEW U, U \subseteq S, U \subseteq T,
         \A x \in U : f[x] = g[x]
  PROVE  a[U] = b[U]
<1> DEFINE Differ == {s \in SUBSET U : a[s] # b[s]}
<1>1. Differ = {}
  <2> SUFFICES ASSUME Differ # {} PROVE FALSE
    OBVIOUS
  <2>1. IsFiniteSet(U)
    BY FS_Subset
  <2>2. Differ \subseteq SUBSET U
    OBVIOUS
  <2> HIDE DEF Differ
  <2>3. PICK s \in Differ : \A t \in Differ : t \subseteq s => t = s
    BY <2>1, <2>2, MinimalSubset
  <2>4. s \in SUBSET U /\ s \in SUBSET S /\ s \in SUBSET T /\ a[s] # b[s]
    BY <2>3 DEF Differ
  <2>5. CASE s = {}
    BY <2>4, <2>5 DEF Sums
  <2>6. CASE s # {}
    <3>1. Some(s) \in s
      BY <2>6 DEF Some
    <3>2. s \ {Some(s)} \in SUBSET U /\ s \ {Some(s)} # s
      BY <2>4, <3>1
    <3>3. a[s \ {Some(s)}] = b[s \ {Some(s)}]
      BY <2>3, <3>2 DEF Differ
    <3>4. f[Some(s)] = g[Some(s)]
      BY <2>4, <3>1
    <3>5. a[s] = f[Some(s)] + a[s \ {Some(s)}] /\ b[s] = g[Some(s)] + b[s \ {Some(s)}]
      BY <2>4, <2>6 DEF Sums
    <3>6. QED
      BY <2>4, <3>3, <3>4, <3>5
  <2>7. QED
    BY <2>5, <2>6
<1>2. QED
  BY <1>1

LEMMA SumsType ==
  ASSUME NEW S, IsFiniteSet(S), NEW amount \in [S -> Nat], NEW sums, Sums(sums, amount, S)
  PROVE  \A s \in SUBSET S : sums[s] \in Nat
<1>1. PICK known \in [SUBSET S -> Nat] : Sums(known, amount, S)
  BY SumsExist
<1>2. ASSUME NEW s \in SUBSET S
      PROVE  sums[s] = known[s]
  BY <1>1, SumsAgree
<1>3. QED
  BY <1>2

\* Any element may be taken first.
LEMMA SumsSplit ==
  ASSUME NEW S, IsFiniteSet(S), NEW amount \in [S -> Nat], NEW sums, Sums(sums, amount, S),
         NEW y \in S
  PROVE  sums[S] = amount[y] + sums[S \ {y}]
<1> DEFINE Wrong == {s \in SUBSET S : \E x \in s : sums[s] # amount[x] + sums[s \ {x}]}
<1>1. Wrong = {}
  <2> SUFFICES ASSUME Wrong # {} PROVE FALSE
    OBVIOUS
  <2>0. Wrong \subseteq SUBSET S
    OBVIOUS
  <2> HIDE DEF Wrong
  <2>1. PICK s \in Wrong : \A t \in Wrong : t \subseteq s => t = s
    BY <2>0, MinimalSubset
  <2>2. PICK x \in s : sums[s] # amount[x] + sums[s \ {x}]
    BY <2>1 DEF Wrong
  <2> DEFINE z == Some(s)
  <2>3. s \in SUBSET S /\ s # {} /\ z \in s /\ x \in S
    BY <2>0, <2>2 DEF Some
  <2>4. sums[s] = amount[z] + sums[s \ {z}]
    BY <2>3 DEF Sums
  <2> HIDE DEF z
  <2>5. x # z
    BY <2>2, <2>4
  <2>6. s \ {z} \notin Wrong /\ s \ {x} \notin Wrong
    BY <2>1, <2>2, <2>3
  <2>7. /\ sums[s \ {z}] = amount[x] + sums[(s \ {z}) \ {x}]
        /\ sums[s \ {x}] = amount[z] + sums[(s \ {x}) \ {z}]
    BY <2>2, <2>3, <2>5, <2>6 DEF Wrong
  <2>8. (s \ {z}) \ {x} = (s \ {x}) \ {z} /\ (s \ {x}) \ {z} \in SUBSET S
    BY <2>3
  <2>9. /\ sums[(s \ {x}) \ {z}] \in Nat /\ amount[x] \in Nat /\ amount[z] \in Nat
    BY <2>3, <2>8, SumsType
  <2>10. \A a, b, c \in Nat : a + (b + c) = b + (a + c)
    OBVIOUS
  <2>11. sums[s] = amount[z] + (amount[x] + sums[(s \ {x}) \ {z}])
    BY <2>4, <2>7, <2>8
  <2>12. amount[x] + sums[s \ {x}] = amount[x] + (amount[z] + sums[(s \ {x}) \ {z}])
    BY <2>7
  <2>13. QED
    BY <2>2, <2>9, <2>10, <2>11, <2>12
<1>2. QED
  BY <1>1

\* A sum of the community's Functions is one of these.
LEMMA SumIs ==
  ASSUME NEW S, IsFiniteSet(S), NEW f \in [S -> Nat]
  PROVE  \E sums : Sums(sums, f, S) /\ SumFunction(f) = sums[S]
<1> DEFINE body(iter) == [s \in SUBSET S |->
                            IF s = {} THEN 0 ELSE f[Some(s)] + iter[s \ {Some(s)}]]
           iter == CHOOSE it : it = body(it)
<1>1. PICK sums \in [SUBSET S -> Nat] : Sums(sums, f, S)
  BY SumsExist
<1>2. \A it : Sums(it, f, S) <=> it = body(it)
  BY DEF Sums
<1>3. Sums(iter, f, S)
  <2>1. sums = body(sums)
    BY <1>1, <1>2
  <2> HIDE DEF body
  <2>2. iter = body(iter)
    BY <2>1
  <2>3. QED
    BY <1>2, <2>2
<1>4. SumFunction(f) = iter[S]
  BY DEF SumFunction, SumFunctionOnSet, FoldFunctionOnSet, MapThenFoldSet, Some
<1> HIDE DEF iter
<1>5. QED
  BY <1>3, <1>4

LEMMA SumType ==
  ASSUME NEW S, IsFiniteSet(S), NEW f \in [S -> Nat]
  PROVE  SumFunction(f) \in Nat
<1>1. PICK sums : Sums(sums, f, S) /\ SumFunction(f) = sums[S]
  BY SumIs
<1>2. QED
  BY <1>1, SumsType

LEMMA SumEmpty ==
  ASSUME NEW f, f \in [{} -> Nat]
  PROVE  SumFunction(f) = 0
<1>1. PICK sums : Sums(sums, f, {}) /\ SumFunction(f) = sums[{}]
  BY SumIs, FS_EmptySet
<1>2. QED
  BY <1>1 DEF Sums

LEMMA SumOfNone ==
  ASSUME NEW S, NEW h \in [S -> Nat]
  PROVE  SumFunction(Restrict(h, {})) = 0
<1>1. Restrict(h, {}) \in [{} -> Nat]
  BY DEF Restrict
<1>2. QED
  BY <1>1, SumEmpty

LEMMA SumSplit ==
  ASSUME NEW S, IsFiniteSet(S), NEW f \in [S -> Nat], NEW x \in S
  PROVE  SumFunction(f) = f[x] + SumFunction(Restrict(f, S \ {x}))
<1> DEFINE rest == S \ {x}
<1>1. IsFiniteSet(rest) /\ rest \subseteq S
  BY FS_Subset
<1>2. Restrict(f, rest) \in [rest -> Nat] /\ \A y \in rest : f[y] = Restrict(f, rest)[y]
  BY DEF Restrict
<1>3. PICK a : Sums(a, f, S) /\ SumFunction(f) = a[S]
  BY SumIs
<1>4. PICK b : Sums(b, Restrict(f, rest), rest) /\ SumFunction(Restrict(f, rest)) = b[rest]
  BY <1>1, <1>2, SumIs
<1>5. a[rest] = b[rest]
  <2> HIDE DEF rest
  <2>1. QED
    BY <1>1, <1>2, <1>3, <1>4, SumsAgree
<1>6. a[S] = f[x] + a[rest]
  BY <1>3, SumsSplit
<1>7. QED
  BY <1>3, <1>4, <1>5, <1>6

LEMMA SumOn ==
  ASSUME NEW S, IsFiniteSet(S), NEW h \in [S -> Nat], NEW s \in SUBSET S, NEW x \in s
  PROVE  /\ SumFunction(Restrict(h, s)) = h[x] + SumFunction(Restrict(h, s \ {x}))
         /\ SumFunction(Restrict(h, s \ {x})) \in Nat
<1> DEFINE part == Restrict(h, s)
<1>1. IsFiniteSet(s) /\ IsFiniteSet(s \ {x})
  BY FS_Subset
<1>2. part \in [s -> Nat] /\ part[x] = h[x] /\ Restrict(part, s \ {x}) = Restrict(h, s \ {x})
  BY DEF Restrict
<1>3. Restrict(h, s \ {x}) \in [s \ {x} -> Nat]
  BY DEF Restrict
<1>4. SumFunction(part) = part[x] + SumFunction(Restrict(part, s \ {x}))
  <2> HIDE DEF part
  <2>1. QED
    BY <1>1, <1>2, SumSplit
<1>5. SumFunction(Restrict(h, s \ {x})) \in Nat
  BY <1>1, <1>3, SumType
<1>6. QED
  BY <1>2, <1>4, <1>5

\* Amounts that differ by 15,000 of something each give sums that differ by
\* 15,000 of its sum.
LEMMA SumsApart ==
  ASSUME NEW S, IsFiniteSet(S), NEW f \in [S -> Nat], NEW g \in [S -> Nat], NEW w \in [S -> Nat],
         \A x \in S : f[x] <= g[x] + 15000 * w[x]
  PROVE  SumFunction(f) <= SumFunction(g) + 15000 * SumFunction(w)
<1> DEFINE Apart(s) == SumFunction(Restrict(f, s))
                         <= SumFunction(Restrict(g, s)) + 15000 * SumFunction(Restrict(w, s))
           Wrong == {s \in SUBSET S : ~Apart(s)}
<1>1. Wrong = {}
  <2> SUFFICES ASSUME Wrong # {} PROVE FALSE
    OBVIOUS
  <2>1. Wrong \subseteq SUBSET S
    OBVIOUS
  <2> HIDE DEF Wrong
  <2>2. PICK s \in Wrong : \A t \in Wrong : t \subseteq s => t = s
    BY <2>1, MinimalSubset
  <2>3. s \in SUBSET S /\ ~Apart(s)
    BY <2>2 DEF Wrong
  <2>4. CASE s = {}
    <3>1. /\ SumFunction(Restrict(f, {})) = 0 /\ SumFunction(Restrict(g, {})) = 0
          /\ SumFunction(Restrict(w, {})) = 0
      BY SumOfNone
    <3>2. QED
      BY <2>3, <2>4, <3>1
  <2>5. CASE s # {}
    <3>1. PICK x \in s : TRUE
      BY <2>5
    <3> DEFINE t == s \ {x}
    <3>2. t \in SUBSET S /\ t # s /\ x \in S
      BY <2>3, <3>1
    <3>3. Apart(t)
      BY <2>2, <3>2 DEF Wrong
    <3>4. \A h \in [S -> Nat] :
            /\ SumFunction(Restrict(h, s)) = h[x] + SumFunction(Restrict(h, t))
            /\ SumFunction(Restrict(h, t)) \in Nat
      <4>1. s \in SUBSET S /\ x \in s
        BY <2>3
      <4>2. ASSUME NEW h \in [S -> Nat]
            PROVE  SumFunction(Restrict(h, s)) = h[x] + SumFunction(Restrict(h, s \ {x}))
        BY ONLY <4>1, <4>2, SumOn, IsFiniteSet(S)
      <4>3. ASSUME NEW h \in [S -> Nat]
            PROVE  SumFunction(Restrict(h, s \ {x})) \in Nat
        BY ONLY <4>1, <4>3, SumOn, IsFiniteSet(S)
      <4>4. QED
        BY ONLY <4>2, <4>3
    <3> HIDE DEF t
    <3> DEFINE F == SumFunction(Restrict(f, t))
               G == SumFunction(Restrict(g, t))
               W == SumFunction(Restrict(w, t))
    <3>5. F \in Nat /\ G \in Nat /\ W \in Nat /\ F <= G + 15000 * W
      BY <3>3, <3>4
    <3>6. f[x] \in Nat /\ g[x] \in Nat /\ w[x] \in Nat /\ f[x] <= g[x] + 15000 * w[x]
      BY <3>2
    <3>7. ~(f[x] + F <= (g[x] + G) + 15000 * (w[x] + W))
      BY <2>3, <3>4
    <3> HIDE DEF F, G, W
    <3>8. QED
      BY <3>5, <3>6, <3>7
  <2>6. QED
    BY <2>4, <2>5
<1>2. Apart(S)
  BY <1>1
<1>3. Restrict(f, S) = f /\ Restrict(g, S) = g /\ Restrict(w, S) = w
  BY DEF Restrict
<1>4. QED
  BY <1>2, <1>3

LEMMA SumOnes ==
  ASSUME NEW S, IsFiniteSet(S)
  PROVE  SumFunction([x \in S |-> 1]) = Cardinality(S)
<1> DEFINE one == [x \in S |-> 1]
           Wrong == {s \in SUBSET S : SumFunction(Restrict(one, s)) # Cardinality(s)}
<1>0. one \in [S -> Nat] /\ \A x \in S : one[x] = 1
  OBVIOUS
<1>00. Restrict(one, S) = one
  BY DEF Restrict
<1> HIDE DEF one
<1>1. Wrong = {}
  <2> SUFFICES ASSUME Wrong # {} PROVE FALSE
    OBVIOUS
  <2>1. Wrong \subseteq SUBSET S
    OBVIOUS
  <2> HIDE DEF Wrong
  <2>2. PICK s \in Wrong : \A t \in Wrong : t \subseteq s => t = s
    BY <2>1, MinimalSubset
  <2>3. s \in SUBSET S /\ SumFunction(Restrict(one, s)) # Cardinality(s)
    BY <2>2 DEF Wrong
  <2>4. CASE s = {}
    <3>1. Restrict(one, s) \in [{} -> Nat]
      BY <1>0, <2>4 DEF Restrict
    <3>2. QED
      BY <2>3, <2>4, <3>1, SumEmpty, FS_EmptySet
  <2>5. CASE s # {}
    <3>1. PICK x \in s : TRUE
      BY <2>5
    <3> DEFINE t == s \ {x}
    <3>2. t \in SUBSET S /\ t # s /\ x \in S
      BY <2>3, <3>1
    <3>3. SumFunction(Restrict(one, t)) = Cardinality(t)
      BY <2>2, <3>2 DEF Wrong
    <3>4. SumFunction(Restrict(one, s)) = one[x] + SumFunction(Restrict(one, t))
      BY <1>0, <2>3, <3>1, SumOn
    <3>5. Cardinality(t) = Cardinality(s) - 1 /\ Cardinality(s) \in Nat
      <4>1. IsFiniteSet(s)
        BY <2>3, FS_Subset
      <4>2. QED
        BY <4>1, FS_RemoveElement, FS_CardinalityType
    <3>6. QED
      BY <1>0, <2>3, <3>2, <3>3, <3>4, <3>5
  <2>6. QED
    BY <2>4, <2>5
<1>2. SumFunction(Restrict(one, S)) = Cardinality(S)
  BY <1>1
<1>3. QED
  BY <1>00, <1>2 DEF one

----------------------------------------------------------------------------
(* Quotients *)

LEMMA Quotient ==
  ASSUME NEW a \in Int, NEW d \in Nat, d > 0
  PROVE  /\ a \div d \in Int
         /\ d * (a \div d) <= a /\ a < d * ((a \div d) + 1)
         /\ a >= 0 => a \div d >= 0
<1>1. a \div d \in Int /\ d * (a \div d) <= a /\ a < d * ((a \div d) + 1)
  BY SMT
<1>2. ASSUME a >= 0 PROVE a \div d >= 0
  BY <1>1, <1>2, SMT
<1>3. QED
  BY <1>1, <1>2

LEMMA Factor ==
  ASSUME NEW d \in Nat, d > 0, NEW x \in Int, NEW y \in Int, d * x < d * y
  PROVE  x < y
<1> SUFFICES ASSUME x >= y PROVE FALSE
  OBVIOUS
<1>1. PICK z \in Nat : x = y + z
  <2>1. x - y \in Nat /\ x = y + (x - y)
    OBVIOUS
  <2>2. QED
    BY <2>1
<1>2. d * x = d * y + d * z
  BY <1>1
<1>3. d * z \in Nat /\ d * y \in Int
  OBVIOUS
<1>4. QED
  BY <1>2, <1>3

LEMMA QuotientsApart ==
  ASSUME NEW a \in Nat, NEW b \in Nat, NEW d \in Nat, d > 0, NEW k \in Nat, a <= b + d * k
  PROVE  a \div d <= (b \div d) + k
<1> DEFINE p == a \div d
           q == b \div d
<1>1. p \in Int /\ d * p <= a /\ q \in Int /\ b < d * (q + 1)
  BY Quotient
<1> HIDE DEF p, q
<1>2. d * (q + 1 + k) = d * (q + 1) + d * k
  BY <1>1
<1>3. d * p < d * (q + 1 + k)
  BY <1>1, <1>2
<1>4. p < q + 1 + k
  BY <1>1, <1>3, Factor
<1>5. QED
  BY <1>1, <1>4 DEF p, q

LEMMA HundredthsType ==
  ASSUME NEW sum \in Nat, NEW count \in Nat, count > 0
  PROVE  Hundredths(sum, count) \in Nat
<1>1. 2 * sum + 100 * count \in Nat /\ 200 * count \in Nat /\ 200 * count > 0
  OBVIOUS
<1>2. (2 * sum + 100 * count) \div (200 * count) \in Nat
  BY <1>1, Quotient
<1>3. QED
  BY <1>2 DEF Hundredths

LEMMA HundredthsApart ==
  ASSUME NEW a \in Nat, NEW b \in Nat, NEW count \in Nat, count > 0, a <= b + 15000 * count
  PROVE  Hundredths(a, count) <= Hundredths(b, count) + 15000
<1> DEFINE d == 200 * count
           x == 2 * a + 100 * count
           y == 2 * b + 100 * count
<1>1. d \in Nat /\ d > 0 /\ x \in Nat /\ y \in Nat /\ x <= y + d * 150
  OBVIOUS
<1>2. x \div d \in Int /\ y \div d \in Int
  <2> HIDE DEF d, x, y
  <2>1. QED
    BY <1>1, Quotient
<1>3. x \div d <= (y \div d) + 150
  <2> HIDE DEF d, x, y
  <2>1. QED
    BY <1>1, QuotientsApart
<1>4. Hundredths(a, count) = 100 * (x \div d) /\ Hundredths(b, count) = 100 * (y \div d)
  BY DEF Hundredths
<1> HIDE DEF d, x, y
<1>5. QED
  BY <1>2, <1>3, <1>4

----------------------------------------------------------------------------
(* Sums over a few *)

LEMMA FewFinite ==
  ASSUME NEW a, NEW b, NEW c, NEW d, NEW e
  PROVE  /\ IsFiniteSet({a}) /\ IsFiniteSet({a, b}) /\ IsFiniteSet({a, b, c, d})
         /\ IsFiniteSet({a, b, c, d, e})
<1>1. {a, b} = {a} \cup {b} /\ {a, b, c} = {a, b} \cup {c} /\ {a, b, c, d} = {a, b, c} \cup {d}
      /\ {a, b, c, d, e} = {a, b, c, d} \cup {e}
  OBVIOUS
<1>2. IsFiniteSet({a})
  BY FS_Singleton
<1>3. IsFiniteSet({a, b})
  BY <1>1, <1>2, FS_AddElement
<1>4. IsFiniteSet({a, b, c})
  BY <1>1, <1>3, FS_AddElement
<1>5. IsFiniteSet({a, b, c, d})
  BY <1>1, <1>4, FS_AddElement
<1>6. IsFiniteSet({a, b, c, d, e})
  BY <1>1, <1>5, FS_AddElement
<1>7. QED
  BY <1>2, <1>3, <1>5, <1>6

LEMMA SumNext ==
  ASSUME NEW S, IsFiniteSet(S), NEW h \in [S -> Nat], NEW s \in SUBSET S, NEW x \in s,
         NEW t, t = s \ {x}
  PROVE  SumFunction(Restrict(h, s)) = h[x] + SumFunction(Restrict(h, t))
BY SumOn

LEMMA SumTwo ==
  ASSUME NEW a, NEW b,
         a # b,
         NEW h \in [{a, b} -> Nat]
  PROVE  SumFunction(h) = h[a] + h[b]
<1> DEFINE s2 == {a, b}
           s1 == {b}
           s0 == {}
<1>0. IsFiniteSet(s2) /\ h \in [s2 -> Nat] /\ Restrict(h, s2) = h /\ s0 = {}
  BY FewFinite DEF Restrict
<1>1. s2 \in SUBSET s2 /\ a \in s2 /\ s1 = s2 \ {a} /\ h[a] \in Nat
  OBVIOUS
<1>2. s1 \in SUBSET s2 /\ b \in s1 /\ s0 = s1 \ {b} /\ h[b] \in Nat
  OBVIOUS
<1> HIDE DEF s0, s1, s2
<1>3. SumFunction(Restrict(h, s2)) = h[a] + SumFunction(Restrict(h, s1))
  BY ONLY <1>0, <1>1, SumNext
<1>4. SumFunction(Restrict(h, s1)) = h[b] + SumFunction(Restrict(h, s0))
  BY ONLY <1>0, <1>2, SumNext
<1>5. SumFunction(Restrict(h, s0)) = 0
  BY ONLY <1>0, SumOfNone
<1>6. QED
  BY ONLY <1>0, <1>1, <1>2, <1>3, <1>4, <1>5

----------------------------------------------------------------------------
(* The judgement of an answer *)

Said == Wordings \cup {"brief"}
Covered == [PointsOf("main") -> PointStatuses] \cup [PointsOf("followup") -> PointStatuses]
Judgement == [at : {"adjudicating", "judged"}, topic : Topics, wording : Said,
              context : {"main", "followup"}, points : Covered,
              label : DOMAIN CorrectnessValue, errors : BOOLEAN, relevance : 0..100,
              direct : BOOLEAN, marks : [{"grounding", "reasoning", "boundary"} -> 0..100]]
Asked == [at : {"analyzing", "correcting"}, topic : Topics, wording : Said,
          context : {"main", "followup"}]

LEMMA PointsFinite ==
  ASSUME NEW context \in {"main", "followup"}
  PROVE  IsFiniteSet(PointsOf(context)) /\ PointsOf(context) # {}
BY AssessmentAssumption, FS_Singleton DEF PointsOf

LEMMA CoverageType ==
  ASSUME NEW points \in Covered
  PROVE  Coverage(points) \in Nat
<1>1. PICK context \in {"main", "followup"} : points \in [PointsOf(context) -> PointStatuses]
  BY DEF Covered
<1> DEFINE P == PointsOf(context)
           f == [p \in P |-> PointStatusValue[points[p]]]
<1>2. DOMAIN points = P /\ IsFiniteSet(P) /\ P # {}
  BY <1>1, PointsFinite
<1>3. \A p \in P : PointStatusValue[points[p]] \in Nat
  BY <1>1 DEF PointStatuses, PointStatusValue
<1>4. f \in [P -> Nat]
  <2> HIDE DEF P
  <2>1. QED
    BY <1>3
<1>5. Coverage(points) = SumFunction(f) \div Cardinality(P)
  BY <1>2 DEF Coverage
<1> HIDE DEF f, P
<1>6. SumFunction(f) \in Nat
  BY <1>2, <1>4, SumType
<1>7. Cardinality(P) \in Nat /\ Cardinality(P) > 0
  BY <1>2, FS_CardinalityType, FS_EmptySet
<1>8. QED
  BY <1>5, <1>6, <1>7, Quotient

\* The components of an answer.
Parts(answer) ==
    /\ CorrectnessValue[answer.label] \in Nat /\ Coverage(answer.points) \in Nat
    /\ answer.marks["grounding"] \in Nat /\ answer.marks["reasoning"] \in Nat
    /\ answer.marks["boundary"] \in Nat

LEMMA JudgedParts == ASSUME NEW answer \in Judgement PROVE Parts(answer)
<1>1. Coverage(answer.points) \in Nat
  <2>1. answer.points \in Covered
    BY DEF Judgement
  <2>2. QED
    BY <2>1, CoverageType
<1>2. CorrectnessValue[answer.label] \in Nat
  <2>1. answer.label \in DOMAIN CorrectnessValue
    BY DEF Judgement
  <2>2. QED
    BY <2>1 DEF CorrectnessValue
<1>3. answer.marks \in [{"grounding", "reasoning", "boundary"} -> 0..100]
  BY DEF Judgement
<1>4. QED
  BY <1>1, <1>2, <1>3 DEF Parts

LEMMA QualityIs ==
  ASSUME NEW answer, Parts(answer)
  PROVE  Quality(answer) =
           35 * CorrectnessValue[answer.label] + (25 * Coverage(answer.points)
             + (15 * answer.marks["grounding"] + (15 * answer.marks["reasoning"]
                  + 10 * answer.marks["boundary"])))
<1> DEFINE h == [id \in DOMAIN ComponentWeight |-> ComponentWeight[id] * Component(id, answer)]
<1>1. DOMAIN ComponentWeight = {"correctness", "coverage", "grounding", "reasoning", "boundary"}
  BY DEF ComponentWeight
<1>2. /\ h["correctness"] = 35 * CorrectnessValue[answer.label]
      /\ h["coverage"] = 25 * Coverage(answer.points)
      /\ h["grounding"] = 15 * answer.marks["grounding"]
      /\ h["reasoning"] = 15 * answer.marks["reasoning"]
      /\ h["boundary"] = 10 * answer.marks["boundary"]
  BY <1>1 DEF ComponentWeight, Component
<1>3. Quality(answer) = SumFunction(h)
  BY DEF Quality
<1>4. /\ h["correctness"] \in Nat /\ h["coverage"] \in Nat /\ h["grounding"] \in Nat
      /\ h["reasoning"] \in Nat /\ h["boundary"] \in Nat
  <2> HIDE DEF h
  <2>1. QED
    BY <1>2 DEF Parts
<1>5. h \in [{"correctness", "coverage", "grounding", "reasoning", "boundary"} -> Nat]
  BY <1>1, <1>4
<1> HIDE DEF h
<1>6. SumFunction(h) = h["correctness"] + (h["coverage"] + (h["grounding"] + (h["reasoning"] + h["boundary"])))
  <2> DEFINE s5 == {"correctness", "coverage", "grounding", "reasoning", "boundary"}
             s4 == {"coverage", "grounding", "reasoning", "boundary"}
             s3 == {"grounding", "reasoning", "boundary"}
             s2 == {"reasoning", "boundary"}
             s1 == {"boundary"}
             s0 == {}
  <2>0. IsFiniteSet(s5) /\ h \in [s5 -> Nat] /\ Restrict(h, s5) = h /\ s0 = {}
    BY <1>5, FewFinite DEF Restrict
  <2>1. s5 \in SUBSET s5 /\ "correctness" \in s5 /\ s4 = s5 \ {"correctness"}
    OBVIOUS
  <2>2. s4 \in SUBSET s5 /\ "coverage" \in s4 /\ s3 = s4 \ {"coverage"}
    OBVIOUS
  <2>3. s3 \in SUBSET s5 /\ "grounding" \in s3 /\ s2 = s3 \ {"grounding"}
    OBVIOUS
  <2>4. s2 \in SUBSET s5 /\ "reasoning" \in s2 /\ s1 = s2 \ {"reasoning"}
    OBVIOUS
  <2>5. s1 \in SUBSET s5 /\ "boundary" \in s1 /\ s0 = s1 \ {"boundary"}
    OBVIOUS
  <2>6. h["correctness"] \in Nat /\ h["coverage"] \in Nat /\ h["grounding"] \in Nat
        /\ h["reasoning"] \in Nat /\ h["boundary"] \in Nat
    BY <1>5
  <2> HIDE DEF s0, s1, s2, s3, s4, s5
  <2>7. SumFunction(Restrict(h, s5)) = h["correctness"] + SumFunction(Restrict(h, s4))
    BY ONLY <2>0, <2>1, SumNext
  <2>8. SumFunction(Restrict(h, s4)) = h["coverage"] + SumFunction(Restrict(h, s3))
    BY ONLY <2>0, <2>2, SumNext
  <2>9. SumFunction(Restrict(h, s3)) = h["grounding"] + SumFunction(Restrict(h, s2))
    BY ONLY <2>0, <2>3, SumNext
  <2>10. SumFunction(Restrict(h, s2)) = h["reasoning"] + SumFunction(Restrict(h, s1))
    BY ONLY <2>0, <2>4, SumNext
  <2>11. SumFunction(Restrict(h, s1)) = h["boundary"] + SumFunction(Restrict(h, s0))
    BY ONLY <2>0, <2>5, SumNext
  <2>12. SumFunction(Restrict(h, s0)) = 0
    BY ONLY <2>0, SumOfNone
  <2>13. QED
    BY ONLY <2>0, <2>6, <2>7, <2>8, <2>9, <2>10, <2>11, <2>12
<1>7. QED
  BY <1>2, <1>3, <1>6

LEMMA DimensionIs ==
  ASSUME NEW answer, Parts(answer)
  PROVE  /\ Dimension("correctness", answer) = 2 * CorrectnessValue[answer.label]
         /\ Dimension("completeness", answer) = 2 * Coverage(answer.points)
         /\ Dimension("evidence_reasoning", answer) =
              answer.marks["grounding"] + answer.marks["reasoning"]
         /\ Dimension("boundary_awareness", answer) = 2 * answer.marks["boundary"]
<1>1. ASSUME NEW id, NEW c, ComponentsOf[id] = {c}, Component(c, answer) \in Nat
      PROVE  Dimension(id, answer) = 2 * Component(c, answer)
  <2> DEFINE h == [d \in ComponentsOf[id] |-> Component(d, answer)]
  <2>1. h \in [{c} -> Nat] /\ h[c] = Component(c, answer)
    BY <1>1
  <2>2. Dimension(id, answer) = (2 * SumFunction(h)) \div Cardinality(ComponentsOf[id])
    BY DEF Dimension
  <2> HIDE DEF h
  <2>3. IsFiniteSet({c}) /\ Cardinality({c}) = 1 /\ c \in {c}
    BY FS_Singleton
  <2>4. SumFunction(h) = h[c] + SumFunction(Restrict(h, {c} \ {c}))
    BY <2>1, <2>3, SumSplit
  <2>5. SumFunction(Restrict(h, {c} \ {c})) = 0
    <3>1. {c} \ {c} = {}
      OBVIOUS
    <3>2. QED
      BY <2>1, <3>1, SumOfNone
  <2>6. QED
    BY <1>1, <2>1, <2>2, <2>3, <2>4, <2>5
<1>2. /\ ComponentsOf["correctness"] = {"correctness"} /\ ComponentsOf["completeness"] = {"coverage"}
      /\ ComponentsOf["evidence_reasoning"] = {"grounding", "reasoning"}
      /\ ComponentsOf["boundary_awareness"] = {"boundary"}
  BY DEF ComponentsOf
<1>3. /\ Component("correctness", answer) = CorrectnessValue[answer.label]
      /\ Component("coverage", answer) = Coverage(answer.points)
      /\ Component("grounding", answer) = answer.marks["grounding"]
      /\ Component("reasoning", answer) = answer.marks["reasoning"]
      /\ Component("boundary", answer) = answer.marks["boundary"]
  BY DEF Component
<1>4. Dimension("correctness", answer) = 2 * CorrectnessValue[answer.label]
  BY <1>1, <1>2, <1>3 DEF Parts
<1>5. Dimension("completeness", answer) = 2 * Coverage(answer.points)
  BY <1>1, <1>2, <1>3 DEF Parts
<1>6. Dimension("boundary_awareness", answer) = 2 * answer.marks["boundary"]
  BY <1>1, <1>2, <1>3 DEF Parts
<1>7. Dimension("evidence_reasoning", answer) = answer.marks["grounding"] + answer.marks["reasoning"]
  <2> DEFINE h == [d \in ComponentsOf["evidence_reasoning"] |-> Component(d, answer)]
  <2>1. /\ h["grounding"] = answer.marks["grounding"] /\ h["reasoning"] = answer.marks["reasoning"]
        /\ DOMAIN h = {"grounding", "reasoning"}
    BY <1>2, <1>3
  <2>2. Dimension("evidence_reasoning", answer)
          = (2 * SumFunction(h)) \div Cardinality({"grounding", "reasoning"})
    BY <1>2 DEF Dimension
  <2>3. h \in [{"grounding", "reasoning"} -> Nat]
    BY <1>2, <1>3 DEF Parts
  <2> HIDE DEF h
  <2>4. SumFunction(h) = h["grounding"] + h["reasoning"]
    BY <2>3, SumTwo
  <2>5. Cardinality({"grounding", "reasoning"}) = 2
    <3>1. {"grounding", "reasoning"} = {"grounding"} \cup {"reasoning"} /\ "reasoning" \notin {"grounding"}
      OBVIOUS
    <3>2. IsFiniteSet({"grounding"}) /\ Cardinality({"grounding"}) = 1
      BY FS_Singleton
    <3>3. QED
      BY <3>1, <3>2, FS_AddElement
  <2>6. QED
    BY <2>1, <2>2, <2>4, <2>5 DEF Parts
<1>8. QED
  BY <1>4, <1>5, <1>6, <1>7

LEMMA ScoreIs ==
  ASSUME NEW answer, Parts(answer), NEW cap \in Nat
  PROVE  /\ Quality(answer) \in Nat
         /\ Score(answer, cap) = IF 5 * Quality(answer) > 500 * cap THEN 500 * cap
                                                                   ELSE 5 * Quality(answer)
<1> DEFINE h == [id \in DOMAIN DimensionWeight |-> DimensionWeight[id] * Dimension(id, answer)]
           c == CorrectnessValue[answer.label]
           v == Coverage(answer.points)
           g == answer.marks["grounding"]
           r == answer.marks["reasoning"]
           b == answer.marks["boundary"]
<1>1. DOMAIN DimensionWeight = {"correctness", "completeness", "evidence_reasoning", "boundary_awareness"}
  BY DEF DimensionWeight
<1>2. c \in Nat /\ v \in Nat /\ g \in Nat /\ r \in Nat /\ b \in Nat
  BY DEF Parts
<1>3. Quality(answer) = 35 * c + (25 * v + (15 * g + (15 * r + 10 * b)))
  BY QualityIs
<1>4. /\ Dimension("correctness", answer) = 2 * c /\ Dimension("completeness", answer) = 2 * v
      /\ Dimension("evidence_reasoning", answer) = g + r
      /\ Dimension("boundary_awareness", answer) = 2 * b
  BY DimensionIs
<1>5. Weighed(answer) = SumFunction(h)
  BY DEF Weighed
<1>6. /\ h["correctness"] = 35 * Dimension("correctness", answer)
      /\ h["completeness"] = 25 * Dimension("completeness", answer)
      /\ h["evidence_reasoning"] = 30 * Dimension("evidence_reasoning", answer)
      /\ h["boundary_awareness"] = 10 * Dimension("boundary_awareness", answer)
      /\ h = [id \in DOMAIN DimensionWeight |-> h[id]]
  BY <1>1 DEF DimensionWeight
<1> HIDE DEF h, c, v, g, r, b
<1>7. /\ h["correctness"] = 35 * (2 * c) /\ h["completeness"] = 25 * (2 * v)
      /\ h["evidence_reasoning"] = 30 * (g + r) /\ h["boundary_awareness"] = 10 * (2 * b)
  BY <1>4, <1>6
<1>8. /\ h["correctness"] \in Nat /\ h["completeness"] \in Nat
      /\ h["evidence_reasoning"] \in Nat /\ h["boundary_awareness"] \in Nat
  BY <1>2, <1>7
<1>9. h \in [{"correctness", "completeness", "evidence_reasoning", "boundary_awareness"} -> Nat]
  BY <1>1, <1>6, <1>8
<1>10. SumFunction(h) = h["correctness"] + (h["completeness"]
                          + (h["evidence_reasoning"] + h["boundary_awareness"]))
  <2> DEFINE s4 == {"correctness", "completeness", "evidence_reasoning", "boundary_awareness"}
             s3 == {"completeness", "evidence_reasoning", "boundary_awareness"}
             s2 == {"evidence_reasoning", "boundary_awareness"}
             s1 == {"boundary_awareness"}
             s0 == {}
  <2>0. IsFiniteSet(s4) /\ h \in [s4 -> Nat] /\ Restrict(h, s4) = h /\ s0 = {}
    BY <1>9, FewFinite DEF Restrict
  <2>1. s4 \in SUBSET s4 /\ "correctness" \in s4 /\ s3 = s4 \ {"correctness"}
    OBVIOUS
  <2>2. s3 \in SUBSET s4 /\ "completeness" \in s3 /\ s2 = s3 \ {"completeness"}
    OBVIOUS
  <2>3. s2 \in SUBSET s4 /\ "evidence_reasoning" \in s2 /\ s1 = s2 \ {"evidence_reasoning"}
    OBVIOUS
  <2>4. s1 \in SUBSET s4 /\ "boundary_awareness" \in s1 /\ s0 = s1 \ {"boundary_awareness"}
    OBVIOUS
  <2>5. h["correctness"] \in Nat /\ h["completeness"] \in Nat /\ h["evidence_reasoning"] \in Nat
        /\ h["boundary_awareness"] \in Nat
    BY <1>9
  <2> HIDE DEF s0, s1, s2, s3, s4
  <2>6. SumFunction(Restrict(h, s4)) = h["correctness"] + SumFunction(Restrict(h, s3))
    BY ONLY <2>0, <2>1, SumNext
  <2>7. SumFunction(Restrict(h, s3)) = h["completeness"] + SumFunction(Restrict(h, s2))
    BY ONLY <2>0, <2>2, SumNext
  <2>8. SumFunction(Restrict(h, s2)) = h["evidence_reasoning"] + SumFunction(Restrict(h, s1))
    BY ONLY <2>0, <2>3, SumNext
  <2>9. SumFunction(Restrict(h, s1)) = h["boundary_awareness"] + SumFunction(Restrict(h, s0))
    BY ONLY <2>0, <2>4, SumNext
  <2>10. SumFunction(Restrict(h, s0)) = 0
    BY ONLY <2>0, SumOfNone
  <2>11. QED
    BY ONLY <2>0, <2>5, <2>6, <2>7, <2>8, <2>9, <2>10
<1>11. Weighed(answer) = 2 * Quality(answer) /\ Quality(answer) \in Nat
  BY <1>2, <1>3, <1>5, <1>7, <1>10
<1>12. (5 * Weighed(answer)) \div 2 = 5 * Quality(answer)
  <2>1. \A q \in Nat : (5 * (2 * q)) \div 2 = 5 * q
    OBVIOUS
  <2>2. QED
    BY <1>11, <2>1
<1>13. QED
  BY <1>11, <1>12 DEF Score

\* What the guard makes of a judgement.
Caps == {25, 45, 65, NoCap}

LEMMA CapIs ==
  ASSUME NEW answer \in Judgement
  PROVE  /\ Cap(answer) \in Caps /\ Cap(answer) \in Nat
         /\ Repeats(answer) \/ answer.relevance < 40 \/ ~answer.direct => Cap(answer) \in {25, 45}
<1>1. answer.relevance \in 0..100 /\ answer.direct \in BOOLEAN
  BY DEF Judgement
<1>2. Relevance(answer) \in 0..100 /\ Relevance(answer) <= answer.relevance
  BY <1>1 DEF Relevance
<1>3. Repeats(answer) \/ ~answer.direct => ~Direct(answer)
  BY DEF Direct
<1>4. Cap(answer) \in Caps /\ Cap(answer) \in Nat
  BY DEF Cap, Caps, NoCap
<1>5. Relevance(answer) < 40 \/ ~Direct(answer) => Cap(answer) \in {25, 45}
  BY DEF Cap
<1>6. QED
  BY <1>1, <1>2, <1>3, <1>4, <1>5

LEMMA CoveredTyped ==
  ASSUME NEW points \in Covered
  PROVE  \A p \in DOMAIN points : points[p] \in PointStatuses
BY DEF Covered

LEMMA CoveredAgain ==
  ASSUME NEW points \in Covered, NEW more \in [DOMAIN points -> PointStatuses]
  PROVE  more \in Covered
<1>1. CASE points \in [PointsOf("main") -> PointStatuses]
  BY <1>1 DEF Covered
<1>2. CASE points \in [PointsOf("followup") -> PointStatuses]
  BY <1>2 DEF Covered
<1>3. QED
  BY <1>1, <1>2 DEF Covered

LEMMA GuardIs ==
  ASSUME NEW answer \in Judgement
  PROVE  /\ Guarded(answer) \in Judgement
         /\ Guarded(answer).topic = answer.topic /\ Guarded(answer).wording = answer.wording
         /\ Guarded(answer).context = answer.context
         /\ Cap(answer) # NoCap =>
              /\ \A p \in DOMAIN Guarded(answer).points : Guarded(answer).points[p] # "covered"
              /\ Guarded(answer).label # "supported"
<1>1. CASE Cap(answer) = NoCap
  BY <1>1 DEF Guarded
<1>2. CASE Cap(answer) # NoCap
  <2> DEFINE points == [p \in DOMAIN answer.points |->
                          IF answer.points[p] = "covered" THEN "partial" ELSE answer.points[p]]
             label == IF answer.label = "supported" THEN "partially_supported" ELSE answer.label
  <2>1. Guarded(answer) = [answer EXCEPT !.points = points, !.label = label]
    BY <1>2 DEF Guarded
  <2>2. points \in Covered /\ \A p \in DOMAIN points : points[p] # "covered"
    <3>1. answer.points \in Covered
      BY DEF Judgement
    <3>2. \A p \in DOMAIN answer.points : answer.points[p] \in PointStatuses
      BY <3>1, CoveredTyped
    <3>3. points \in [DOMAIN answer.points -> PointStatuses]
      BY <3>2 DEF PointStatuses
    <3>4. QED
      BY <3>1, <3>3, CoveredAgain
  <2>3. label \in DOMAIN CorrectnessValue /\ label # "supported"
    BY DEF Judgement, CorrectnessValue
  <2> HIDE DEF points, label
  <2>4. [answer EXCEPT !.points = points, !.label = label] \in Judgement
    BY <2>2, <2>3 DEF Judgement
  <2>5. /\ Guarded(answer).points = points /\ Guarded(answer).label = label
        /\ Guarded(answer).topic = answer.topic /\ Guarded(answer).wording = answer.wording
        /\ Guarded(answer).context = answer.context
    BY <2>1 DEF Judgement
  <2>6. QED
    BY <2>1, <2>2, <2>3, <2>4, <2>5
<1>3. QED
  BY <1>1, <1>2

----------------------------------------------------------------------------
(* The inductive invariant of the judgement of answers *)

AnswerTold == [topic : Topics, context : {"main", "followup"}, wording : Said, cap : Caps, score : Nat]

\* A turn was scored up to its cap; an early repetition was capped low; and the
\* first answer to a question was to its own text.
RepeatsAnother(i) ==
    \E j \in DOMAIN turns : /\ j < i /\ i <= j + 3 /\ turns[j].topic # turns[i].topic
                            /\ turns[j].wording = turns[i].wording /\ turns[i].wording \in Wordings
FirstOn(i) == \A j \in 1..i - 1 : turns[j].topic # turns[i].topic

TurnKept(i) ==
    /\ turns[i].score <= 500 * turns[i].cap
    /\ RepeatsAnother(i) => turns[i].cap \in {25, 45}
    /\ FirstOn(i) => turns[i].context = "main"

TurnsKept == turns \in Seq(AnswerTold) /\ \A i \in DOMAIN turns : TurnKept(i)

JudgedTyped ==
    \/ judged = NoAnswerYet
    \/ /\ judged \in Asked \cup Judgement
       /\ judged.context = "followup" => \E i \in DOMAIN turns : turns[i].topic = judged.topic

FullIsCorrect ==
    judged.at \in {"adjudicating", "judged"} =>
        (Coverage(judged.points) = 100 /\ ~judged.errors => judged.label = "supported")

AssessmentKept == blend \in Blends /\ TurnsKept /\ JudgedTyped /\ FullIsCorrect

LEMMA AssessmentStarts == ASSUME InitAssessment PROVE AssessmentKept
<1>1. turns \in Seq(AnswerTold) /\ DOMAIN turns = {}
  BY DEF InitAssessment
<1>2. judged.at = "none"
  BY DEF InitAssessment, NoAnswerYet
<1>3. QED
  BY <1>1, <1>2 DEF InitAssessment, AssessmentKept, TurnsKept, JudgedTyped, FullIsCorrect

LEMMA JudgedIs ==
  ASSUME JudgedTyped
  PROVE  /\ judged.at = "none" => judged = NoAnswerYet
         /\ judged.at \in {"analyzing", "correcting"} => judged \in Asked
         /\ judged.at \in {"adjudicating", "judged"} => judged \in Judgement
         /\ judged.at \in {"none", "analyzing", "correcting", "adjudicating", "judged"}
BY DEF JudgedTyped, NoAnswerYet, Asked, Judgement

LEMMA AnsweringKeeps ==
  ASSUME AssessmentKept, NEW topic \in Topics, NEW wording \in Said, Answering(topic, wording)
  PROVE  AssessmentKept'
<1>1. PICK context \in Contexts(topic) :
        judged' = [at |-> "analyzing", topic |-> topic, wording |-> wording, context |-> context]
  BY DEF Answering
<1>2. turns' = turns /\ blend' = blend
  BY DEF Answering
<1>3. context \in {"main", "followup"}
      /\ (context = "followup" => \E i \in DOMAIN turns : turns[i].topic = topic)
  BY DEF Contexts
<1>4. JudgedTyped'
  BY <1>1, <1>2, <1>3 DEF JudgedTyped, Asked
<1>5. FullIsCorrect'
  BY <1>1 DEF FullIsCorrect
<1>6. TurnsKept'
  BY <1>2 DEF AssessmentKept, TurnsKept, TurnKept, RepeatsAnother, FirstOn
<1>7. QED
  BY <1>2, <1>4, <1>5, <1>6 DEF AssessmentKept

LEMMA MisjudgedKeeps == ASSUME AssessmentKept, Misjudged PROVE AssessmentKept'
<1>1. judged \in Asked /\ judged' = [judged EXCEPT !.at = "correcting"]
  BY JudgedIs DEF Misjudged, AssessmentKept
<1>2. turns' = turns /\ blend' = blend
  BY DEF Misjudged
<1>3. judged' \in Asked /\ judged'.topic = judged.topic /\ judged'.context = judged.context
      /\ judged'.at = "correcting"
  BY <1>1 DEF Asked
<1>4. judged # NoAnswerYet
  BY <1>1 DEF Asked, NoAnswerYet
<1>5. JudgedTyped'
  BY <1>2, <1>3, <1>4 DEF JudgedTyped, AssessmentKept
<1>6. FullIsCorrect'
  BY <1>3 DEF FullIsCorrect
<1>7. TurnsKept'
  BY <1>2 DEF AssessmentKept, TurnsKept, TurnKept, RepeatsAnother, FirstOn
<1>8. QED
  BY <1>2, <1>5, <1>6, <1>7 DEF AssessmentKept

LEMMA NormalizedKeeps == ASSUME AssessmentKept, Normalized PROVE AssessmentKept'
<1>1. judged \in Asked /\ judged # NoAnswerYet
  <2>1. judged \in Asked
    BY JudgedIs DEF Normalized, AssessmentKept
  <2>2. QED
    BY <2>1 DEF Asked, NoAnswerYet
<1>2. turns' = turns /\ blend' = blend
  BY DEF Normalized
<1>3. PICK findings \in [PointsOf(judged.context) -> Findings], label \in Labels, errors \in BOOLEAN,
           relevance \in Relevances, direct \in BOOLEAN,
           marks \in [{"grounding", "reasoning", "boundary"} -> Marks] :
        LET points == [p \in DOMAIN findings |-> Reconciled(findings[p])]
            open == judged.topic \in OpenTopics
                    /\ \E p \in DOMAIN points : points[p] \in {"partial", "missing"}
                                                /\ ~findings[p].conflict
        IN judged' = [at |-> IF open THEN "adjudicating" ELSE "judged",
                      topic |-> judged.topic, wording |-> judged.wording,
                      context |-> judged.context, points |-> points,
                      label |-> Raised(label, points, errors), errors |-> errors,
                      relevance |-> relevance, direct |-> direct, marks |-> marks]
  BY ONLY Normalized DEF Normalized
<1> DEFINE points == [p \in DOMAIN findings |-> Reconciled(findings[p])]
           raised == Raised(label, points, errors)
<1>30. PICK at \in {"adjudicating", "judged"} :
         judged' = [at |-> at, topic |-> judged.topic, wording |-> judged.wording,
                    context |-> judged.context, points |-> points, label |-> raised,
                    errors |-> errors, relevance |-> relevance, direct |-> direct, marks |-> marks]
  BY <1>3
<1>4. judged.topic \in Topics /\ judged.wording \in Said /\ judged.context \in {"main", "followup"}
  BY <1>1 DEF Asked
<1>5. points \in Covered
  <2>1. \A p \in PointsOf(judged.context) : Reconciled(findings[p]) \in PointStatuses
    <3>1. \A f \in Findings : Reconciled(f) \in PointStatuses
      BY AssessmentAssumption DEF Reconciled, Finding, PointStatuses
    <3>2. QED
      BY <3>1
  <2>2. points \in [PointsOf(judged.context) -> PointStatuses]
    BY <2>1
  <2>3. QED
    BY <1>4, <2>2 DEF Covered
<1>6. raised \in DOMAIN CorrectnessValue /\ (Coverage(points) = 100 /\ ~errors => raised = "supported")
  <2>1. label \in DOMAIN CorrectnessValue /\ "supported" \in DOMAIN CorrectnessValue
    BY AssessmentAssumption DEF CorrectnessValue
  <2>2. QED
    BY <2>1 DEF Raised
<1>7. relevance \in 0..100 /\ marks \in [{"grounding", "reasoning", "boundary"} -> 0..100]
  BY AssessmentAssumption
<1> HIDE DEF points, raised
<1>9. judged' \in Judgement
  BY ONLY <1>4, <1>5, <1>6, <1>7, <1>30 DEF Judgement
<1>10. FullIsCorrect'
  BY <1>6, <1>30 DEF FullIsCorrect
<1>11. JudgedTyped'
  BY <1>1, <1>2, <1>9, <1>30 DEF JudgedTyped, AssessmentKept
<1>12. TurnsKept'
  BY <1>2 DEF AssessmentKept, TurnsKept, TurnKept, RepeatsAnother, FirstOn
<1>13. QED
  BY <1>2, <1>10, <1>11, <1>12 DEF AssessmentKept

LEMMA AdjudicatedKeeps == ASSUME AssessmentKept, Adjudicated PROVE AssessmentKept'
<1>1. judged \in Judgement /\ judged # NoAnswerYet
  <2>1. judged \in Judgement
    BY JudgedIs DEF Adjudicated, AssessmentKept
  <2>2. QED
    BY <2>1 DEF Judgement, NoAnswerYet
<1>2. turns' = turns /\ blend' = blend
  BY DEF Adjudicated
<1>3. PICK granted \in SUBSET DOMAIN judged.points :
        LET points == [p \in DOMAIN judged.points |->
                          IF p \in granted THEN "covered" ELSE judged.points[p]] IN
        judged' = [judged EXCEPT !.at = "judged", !.points = points,
                                 !.label = Raised(judged.label, points, judged.errors)]
  BY DEF Adjudicated
<1> DEFINE points == [p \in DOMAIN judged.points |->
                         IF p \in granted THEN "covered" ELSE judged.points[p]]
           raised == Raised(judged.label, points, judged.errors)
<1>4. points \in Covered
  <2>1. judged.points \in Covered
    BY <1>1 DEF Judgement
  <2>2. points \in [DOMAIN judged.points -> PointStatuses]
    BY <2>1, CoveredTyped DEF PointStatuses
  <2>3. QED
    BY <2>1, <2>2, CoveredAgain
<1>5. /\ raised \in DOMAIN CorrectnessValue
      /\ Coverage(points) = 100 /\ ~judged.errors => raised = "supported"
  <2>1. judged.label \in DOMAIN CorrectnessValue /\ "supported" \in DOMAIN CorrectnessValue
    BY <1>1 DEF Judgement, CorrectnessValue
  <2>2. QED
    BY <2>1 DEF Raised
<1>6. judged' = [judged EXCEPT !.at = "judged", !.points = points, !.label = raised]
  BY <1>3
<1> HIDE DEF points, raised
<1>7. judged' \in Judgement
  BY <1>1, <1>4, <1>5, <1>6 DEF Judgement
<1>8. /\ judged'.points = points /\ judged'.label = raised /\ judged'.errors = judged.errors
      /\ judged'.topic = judged.topic /\ judged'.context = judged.context
  BY <1>1, <1>6 DEF Judgement
<1>9. FullIsCorrect'
  BY <1>5, <1>8 DEF FullIsCorrect
<1>10. JudgedTyped'
  BY <1>1, <1>2, <1>7, <1>8 DEF JudgedTyped, AssessmentKept
<1>11. TurnsKept'
  BY <1>2 DEF AssessmentKept, TurnsKept, TurnKept, RepeatsAnother, FirstOn
<1>12. QED
  BY <1>2, <1>9, <1>10, <1>11 DEF AssessmentKept

LEMMA EvaluatedKeeps == ASSUME AssessmentKept, Evaluated PROVE AssessmentKept'
<1> DEFINE answer == Guarded(judged)
           cap == Cap(judged)
           score == Score(answer, cap)
           turn == [topic |-> answer.topic, context |-> answer.context, wording |-> answer.wording,
                    cap |-> cap, score |-> score]
<1>0. PICK last \in Nat : last = Len(turns) + 1 /\ turns \in Seq(AnswerTold)
  BY DEF AssessmentKept, TurnsKept
<1>1. /\ judged \in Judgement /\ judged' = NoAnswerYet /\ blend' = blend
      /\ turns' = Append(turns, turn)
  BY JudgedIs DEF Evaluated, AssessmentKept
<1>2. cap \in Caps /\ cap \in Nat /\ (Repeats(judged) => cap \in {25, 45})
  BY <1>1, CapIs
<1>3. /\ answer \in Judgement /\ answer.topic = judged.topic /\ answer.wording = judged.wording
      /\ answer.context = judged.context
  BY <1>1, GuardIs
<1>4. score \in Nat /\ score <= 500 * cap
  <2>1. Parts(answer)
    BY <1>3, JudgedParts
  <2> HIDE DEF answer, cap
  <2>2. /\ Quality(answer) \in Nat
        /\ score = IF 5 * Quality(answer) > 500 * cap THEN 500 * cap ELSE 5 * Quality(answer)
    BY <1>2, <2>1, ScoreIs
  <2> HIDE DEF score
  <2>3. QED
    BY <1>2, <2>2
<1> HIDE DEF answer, cap, score
<1>5. turn \in AnswerTold
  <2>1. answer.topic \in Topics /\ answer.wording \in Said /\ answer.context \in {"main", "followup"}
    BY <1>3 DEF Judgement
  <2>2. QED
    BY <1>2, <1>4, <2>1 DEF AnswerTold
<1>7. /\ turn.topic = judged.topic /\ turn.wording = judged.wording /\ turn.context = judged.context
      /\ turn.cap = cap /\ turn.score = score
  BY <1>3
<1> HIDE DEF turn
<1>8. /\ turns' \in Seq(AnswerTold) /\ DOMAIN turns' = 1..last /\ DOMAIN turns = 1..last - 1
      /\ last \in Nat \ {0} /\ turns'[last] = turn
      /\ \A i \in 1..last - 1 : turns'[i] = turns[i]
  BY <1>0, <1>1, <1>5
<1>9. ASSUME NEW i \in 1..last - 1 PROVE TurnKept(i)'
  <2>1. TurnKept(i)
    BY <1>8 DEF AssessmentKept, TurnsKept
  <2>2. RepeatsAnother(i)' => RepeatsAnother(i)
    <3>1. \A j \in 1..last : j < i => j \in 1..last - 1
      BY <1>8
    <3>2. QED
      BY <1>8, <3>1 DEF RepeatsAnother
  <2>3. FirstOn(i)' => FirstOn(i)
    <3>1. \A j \in 1..i - 1 : j \in 1..last - 1
      BY <1>8
    <3>2. QED
      BY <1>8, <3>1 DEF FirstOn
  <2>4. turns'[i] = turns[i]
    BY <1>8
  <2>5. QED
    BY <2>1, <2>2, <2>3, <2>4 DEF TurnKept
<1>10. TurnKept(last)'
  <2>1. ASSUME RepeatsAnother(last)' PROVE cap \in {25, 45}
    <3>1. PICK j \in DOMAIN turns' :
            /\ j < last /\ last <= j + 3 /\ turns'[j].topic # turns'[last].topic
            /\ turns'[j].wording = turns'[last].wording /\ turns'[last].wording \in Wordings
      BY <2>1 DEF RepeatsAnother
    <3>2. j \in DOMAIN turns /\ j > Len(turns) - 3 /\ turns'[j] = turns[j]
      BY <1>0, <1>8, <3>1
    <3>3. j \in Recent
      BY <3>2 DEF Recent
    <3>4. Repeats(judged)
      BY <1>7, <1>8, <3>1, <3>2, <3>3 DEF Repeats
    <3>5. QED
      BY <1>2, <3>4
  <2>2. ASSUME FirstOn(last)' PROVE turn.context = "main"
    <3>1. \A j \in DOMAIN turns : turns[j].topic # judged.topic
      BY <1>7, <1>8, <2>2 DEF FirstOn
    <3>2. judged # NoAnswerYet /\ judged.context \in {"main", "followup"}
      BY <1>1 DEF Judgement, NoAnswerYet
    <3>3. QED
      BY <1>7, <3>1, <3>2 DEF AssessmentKept, JudgedTyped
  <2>3. QED
    BY <1>4, <1>7, <1>8, <2>1, <2>2 DEF TurnKept
<1>11. TurnsKept'
  <2>1. \A i \in 1..last : i \in 1..last - 1 \/ i = last
    BY <1>8
  <2>2. QED
    BY <1>8, <1>9, <1>10, <2>1 DEF TurnsKept
<1>12. JudgedTyped' /\ FullIsCorrect'
  BY <1>1 DEF JudgedTyped, FullIsCorrect, NoAnswerYet
<1>13. QED
  BY <1>1, <1>11, <1>12 DEF AssessmentKept

LEMMA JudgingFailsKeeps == ASSUME AssessmentKept, JudgingFails PROVE AssessmentKept'
<1>1. turns' = turns /\ blend' = blend /\ judged' = NoAnswerYet
  BY DEF JudgingFails
<1>2. JudgedTyped' /\ FullIsCorrect'
  BY <1>1 DEF JudgedTyped, FullIsCorrect, NoAnswerYet
<1>3. TurnsKept'
  BY <1>1 DEF AssessmentKept, TurnsKept, TurnKept, RepeatsAnother, FirstOn
<1>4. QED
  BY <1>1, <1>2, <1>3 DEF AssessmentKept

LEMMA AssessmentSteps ==
  ASSUME AssessmentKept, [NextAssessment]_assessmentVars PROVE AssessmentKept'
<1>1. ASSUME NEW topic \in Topics, NEW wording \in Wordings \cup {"brief"}, Answering(topic, wording)
      PROVE  AssessmentKept'
  BY <1>1, AnsweringKeeps DEF Said
<1>2. ASSUME UNCHANGED assessmentVars PROVE AssessmentKept'
  BY <1>2 DEF assessmentVars, AssessmentKept, TurnsKept, TurnKept, RepeatsAnother, FirstOn,
              JudgedTyped, FullIsCorrect
<1>3. QED
  BY <1>1, <1>2, MisjudgedKeeps, NormalizedKeeps, AdjudicatedKeeps, EvaluatedKeeps,
     JudgingFailsKeeps DEF NextAssessment

LEMMA AnswersAreJudged == ASSUME AssessmentKept PROVE AssessmentTypeOK /\ AnswerJudged
<1>1. AssessmentTypeOK
  <2>1. \A i \in DOMAIN turns : turns[i].topic \in Topics /\ turns[i].score \in 0..TopScore
    <3> TAKE i \in DOMAIN turns
    <3>1. turns[i] \in AnswerTold /\ TurnKept(i)
      BY DEF AssessmentKept, TurnsKept
    <3>2. turns[i].topic \in Topics /\ turns[i].cap \in Caps /\ turns[i].score \in Nat
      BY <3>1 DEF AnswerTold
    <3>3. turns[i].cap \in Nat /\ turns[i].cap <= 100
      BY <3>2 DEF Caps, NoCap
    <3>4. turns[i].score <= 500 * turns[i].cap
      BY <3>1 DEF TurnKept
    <3>5. turns[i].score <= TopScore
      BY <3>2, <3>3, <3>4 DEF TopScore
    <3>6. TopScore \in Nat
      BY DEF TopScore
    <3>7. QED
      BY <3>2, <3>5, <3>6
  <2>2. QED
    BY <2>1, JudgedIs DEF AssessmentTypeOK, AssessmentKept
<1>2. AnswerJudged
  <2> SUFFICES ASSUME judged.at = "judged"
               PROVE  LET answer == Guarded(judged)
                          score == Score(answer, Cap(judged)) IN
                      /\ Repeats(judged) \/ judged.relevance < 40 \/ ~judged.direct =>
                           /\ \A p \in DOMAIN answer.points : answer.points[p] # "covered"
                           /\ answer.label # "supported" /\ score <= 22500
                      /\ Coverage(judged.points) = 100 /\ ~judged.errors => judged.label = "supported"
                      /\ score <= 5 * Quality(answer)
                      /\ score # 5 * Quality(answer) => score = 500 * Cap(judged)
    BY DEF AnswerJudged
  <2>1. judged \in Judgement
    BY JudgedIs DEF AssessmentKept
  <2> DEFINE answer == Guarded(judged)
             cap == Cap(judged)
             score == Score(answer, cap)
  <2>2. /\ cap \in Caps /\ cap \in Nat
        /\ Repeats(judged) \/ judged.relevance < 40 \/ ~judged.direct => cap \in {25, 45}
    BY <2>1, CapIs
  <2>3. /\ answer \in Judgement
        /\ cap # NoCap => /\ \A p \in DOMAIN answer.points : answer.points[p] # "covered"
                          /\ answer.label # "supported"
    BY <2>1, GuardIs
  <2>4. Parts(answer)
    BY <2>3, JudgedParts
  <2> HIDE DEF answer, cap
  <2>5. /\ Quality(answer) \in Nat
        /\ score = IF 5 * Quality(answer) > 500 * cap THEN 500 * cap ELSE 5 * Quality(answer)
    BY <2>2, <2>4, ScoreIs
  <2> HIDE DEF score
  <2>6. score <= 5 * Quality(answer) /\ (score # 5 * Quality(answer) => score = 500 * cap)
        /\ score <= 500 * cap
    BY <2>2, <2>5
  <2>7. cap \in {25, 45} => cap # NoCap /\ score <= 22500
    BY <2>2, <2>5, <2>6 DEF NoCap
  <2>8. Coverage(judged.points) = 100 /\ ~judged.errors => judged.label = "supported"
    BY DEF AssessmentKept, FullIsCorrect
  <2>9. QED
    BY <2>2, <2>3, <2>6, <2>7, <2>8 DEF answer, cap, score
<1>3. QED
  BY <1>1, <1>2

----------------------------------------------------------------------------
(* The report of the answers *)

LEMMA GreatestNatural ==
  ASSUME NEW n \in Nat, NEW S, S \subseteq 1..n, S # {}
  PROVE  \E i \in S : \A j \in S : i >= j
<1> DEFINE D == {m \in 0..n : n - m \in S}
<1>1. D \subseteq Nat /\ D # {}
  <2>1. PICK i \in S : TRUE
    OBVIOUS
  <2>2. n - i \in 0..n /\ n - (n - i) = i
    BY <2>1
  <2>3. n - i \in D
    BY <2>1, <2>2
  <2>4. D \subseteq Nat
    OBVIOUS
  <2> HIDE DEF D
  <2>5. QED
    BY <2>3, <2>4
<1>2. PICK m \in D : \A k \in D : m <= k
  <2> HIDE DEF D
  <2>1. QED
    BY <1>1, LeastNatural
<1>3. n - m \in S /\ m \in 0..n
  BY <1>2
<1>4. ASSUME NEW j \in S PROVE n - m >= j
  <2>1. j \in 1..n /\ n - j \in 0..n /\ n - (n - j) = j
    OBVIOUS
  <2>2. n - j \in D
    BY <2>1
  <2>3. m <= n - j
    BY <1>2, <2>2
  <2>4. QED
    BY <1>3, <2>1, <2>3
<1>5. QED
  BY <1>3, <1>4

\* The first and the last answer to a question.
LEMMA AnswersInOrder ==
  ASSUME TurnsKept, NEW t \in Answered(turns)
  PROVE  /\ Final(turns, t) \in AnswersTo(turns, t)
         /\ \A j \in AnswersTo(turns, t) : Final(turns, t) >= j
         /\ \E i \in AnswersTo(turns, t) : FirstOn(i) /\ \A j \in AnswersTo(turns, t) : i <= j
<1> DEFINE A == AnswersTo(turns, t)
<1>1. PICK n \in Nat : DOMAIN turns = 1..n
  BY DEF TurnsKept
<1>2. A \subseteq 1..n /\ A # {} /\ A \subseteq Nat
  BY <1>1 DEF Answered, AnswersTo
<1>3. \A i : i \in A <=> i \in 1..n /\ turns[i].topic = t
  BY <1>1 DEF AnswersTo
<1>4. Final(turns, t) = CHOOSE i \in A : \A j \in A : i >= j
  BY DEF Final, Maximum
<1> HIDE DEF A
<1>5. \E i \in A : \A j \in A : i >= j
  BY <1>2, GreatestNatural
<1>6. PICK i \in A : \A j \in A : i <= j
  BY <1>2, LeastNatural
<1>7. FirstOn(i)
  <2> SUFFICES ASSUME NEW j \in 1..i - 1, turns[j].topic = turns[i].topic PROVE FALSE
    BY DEF FirstOn
  <2>1. j \in A /\ j < i
    BY <1>3
  <2>2. QED
    BY <1>2, <1>6, <2>1
<1>8. Final(turns, t) \in A /\ \A j \in A : Final(turns, t) >= j
  BY <1>4, <1>5
<1>9. QED
  BY <1>6, <1>7, <1>8 DEF A

LEMMA FirstAnswersAre ==
  ASSUME TurnsKept
  PROVE  /\ DOMAIN FirstAnswers(turns) = {i \in DOMAIN turns : FirstOn(i)}
         /\ \A i \in DOMAIN turns : FirstOn(i) => FirstAnswers(turns)[i] = turns[i]
         /\ Answered(FirstAnswers(turns)) = Answered(turns)
<1> DEFINE first == FirstAnswers(turns)
<1>1. DOMAIN first = {i \in DOMAIN turns : FirstOn(i)}
  BY DEF FirstAnswers, Restrict, FirstOn
<1>2. \A i \in DOMAIN turns : FirstOn(i) => first[i] = turns[i]
  BY DEF FirstAnswers, Restrict, FirstOn
<1> HIDE DEF first
<1>3. ASSUME NEW t \in Answered(turns) PROVE t \in Answered(first)
  <2>1. PICK i \in AnswersTo(turns, t) : FirstOn(i)
    BY AnswersInOrder
  <2>2. i \in DOMAIN turns /\ turns[i].topic = t
    BY DEF AnswersTo
  <2>3. QED
    BY <1>1, <1>2, <2>1, <2>2 DEF Answered
<1>4. ASSUME NEW t \in Answered(first) PROVE t \in Answered(turns)
  BY <1>1, <1>2 DEF Answered
<1>5. QED
  BY <1>1, <1>2, <1>3, <1>4 DEF first

\* The first answer is the learner's own in both reports, and the last one in
\* the report of the first answers.
LEMMA OwnAnswer ==
  ASSUME TurnsKept, NEW t \in Answered(turns)
  PROVE  \E i \in DOMAIN turns :
            /\ Independent(turns, t) = i /\ Independent(FirstAnswers(turns), t) = i
            /\ Final(FirstAnswers(turns), t) = i /\ FirstAnswers(turns)[i] = turns[i]
<1> DEFINE first == FirstAnswers(turns)
<1>1. PICK i \in AnswersTo(turns, t) : FirstOn(i) /\ \A j \in AnswersTo(turns, t) : i <= j
  BY AnswersInOrder
<1>2. i \in DOMAIN turns /\ turns[i].topic = t /\ turns[i].context = "main"
  BY <1>1 DEF AnswersTo, TurnsKept, TurnKept
<1>3. PICK n \in Nat : DOMAIN turns = 1..n
  BY DEF TurnsKept
<1>4. /\ DOMAIN first = {j \in DOMAIN turns : FirstOn(j)}
      /\ \A j \in DOMAIN turns : FirstOn(j) => first[j] = turns[j]
  BY FirstAnswersAre
<1> HIDE DEF first
<1>5. AnswersTo(first, t) = {i}
  <2>1. ASSUME NEW j \in AnswersTo(first, t) PROVE j = i
    <3>1. j \in DOMAIN turns /\ FirstOn(j) /\ turns[j].topic = t
      BY <1>4 DEF AnswersTo
    <3>2. j \in AnswersTo(turns, t) /\ i <= j
      BY <1>1, <3>1 DEF AnswersTo
    <3>3. CASE i < j
      <4>1. i \in 1..j - 1
        BY <1>2, <1>3, <3>1, <3>3
      <4>2. QED
        BY <1>2, <3>1, <4>1 DEF FirstOn
    <3>4. QED
      BY <1>2, <1>3, <3>1, <3>2, <3>3
  <2>2. i \in AnswersTo(first, t)
    BY <1>1, <1>2, <1>4 DEF AnswersTo
  <2>3. QED
    BY <2>1, <2>2
<1>6. Mains(first, t) = {i}
  BY <1>1, <1>2, <1>4, <1>5 DEF Mains
<1>7. i \in Mains(turns, t) /\ \A j \in Mains(turns, t) : i <= j /\ j \in 1..n
  BY <1>1, <1>2, <1>3 DEF Mains, AnswersTo
<1>8. i \in 1..n
  BY <1>2, <1>3
<1>9. Minimum({i}) = i /\ Maximum({i}) = i
  BY <1>8 DEF Minimum, Maximum
<1>10. Minimum(Mains(turns, t)) = i
  <2> DEFINE M == Mains(turns, t)
             m == Minimum(M)
  <2>1. m = CHOOSE k \in M : \A j \in M : k <= j
    BY DEF Minimum
  <2>2. i \in M /\ \A j \in M : i <= j /\ j \in 1..n
    BY <1>7
  <2> HIDE DEF M, m
  <2>3. m \in M /\ \A j \in M : m <= j
    BY <2>1, <2>2
  <2>4. m <= i /\ i <= m /\ m \in 1..n
    BY <2>2, <2>3
  <2>5. m = i
    BY <1>8, <2>4
  <2>6. QED
    BY <2>5 DEF m, M
<1>11. Independent(turns, t) = i
  BY <1>7, <1>10 DEF Independent
<1>12. Independent(first, t) = i /\ Final(first, t) = i
  BY <1>5, <1>6, <1>9 DEF Independent, Final
<1>13. first[i] = turns[i]
  BY <1>1, <1>2, <1>4
<1>14. QED
  BY <1>2, <1>11, <1>12, <1>13 DEF first

LEMMA ScoreOfTurn ==
  ASSUME TurnsKept, NEW i \in DOMAIN turns
  PROVE  /\ turns[i].score \in Nat /\ turns[i].cap \in Caps
         /\ turns[i].score <= 500 * turns[i].cap /\ turns[i].score <= 50000
<1>1. turns[i] \in AnswerTold /\ TurnKept(i)
  BY DEF TurnsKept
<1>2. turns[i].score \in Nat /\ turns[i].cap \in Caps
  BY <1>1 DEF AnswerTold
<1>3. turns[i].score <= 500 * turns[i].cap
  BY <1>1 DEF TurnKept
<1>4. turns[i].cap \in Nat /\ turns[i].cap <= 100
  BY <1>2 DEF Caps, NoCap
<1>5. QED
  BY <1>2, <1>3, <1>4

LEMMA InHundredths ==
  ASSUME NEW score \in Nat, score <= 50000
  PROVE  /\ Hundredths(score, 1) \in Nat /\ Hundredths(score, 1) <= 50000
         /\ score <= 32500 => Hundredths(score, 1) <= 32500
<1>1. Hundredths(score, 1) = 100 * ((2 * score + 100) \div 200)
  BY DEF Hundredths
<1>2. QED
  BY <1>1

LEMMA AttemptsApart ==
  ASSUME TurnsKept, NEW t \in Answered(turns)
  PROVE  /\ AttemptScore(turns, t) \in Nat /\ AttemptScore(FirstAnswers(turns), t) \in Nat
         /\ blend # "blend_with_independent" =>
              AttemptScore(turns, t) = AttemptScore(FirstAnswers(turns), t)
         /\ AttemptScore(turns, t) <= AttemptScore(FirstAnswers(turns), t) + 15000
         /\ AttemptScore(FirstAnswers(turns), t) <= AttemptScore(turns, t) + 15000
<1> DEFINE first == FirstAnswers(turns)
           x == IndependentScore(turns, t)
           y == AssistedScore(turns, t)
<1>1. PICK i \in DOMAIN turns :
            /\ Independent(turns, t) = i /\ Independent(first, t) = i
            /\ Final(first, t) = i /\ first[i] = turns[i]
  BY OwnAnswer
<1>2. x = Hundredths(turns[i].score, 1) /\ y = Hundredths(turns[Final(turns, t)].score, 1)
      /\ IndependentScore(first, t) = x /\ AssistedScore(first, t) = x
  BY <1>1 DEF IndependentScore, AssistedScore
<1>3. Final(turns, t) \in DOMAIN turns
  BY AnswersInOrder DEF AnswersTo
<1>4. x \in Nat /\ x <= 50000
  <2>1. turns[i].score \in Nat /\ turns[i].score <= 50000
    BY ScoreOfTurn
  <2>2. QED
    BY <1>2, <2>1, InHundredths
<1>5. y \in Nat /\ y <= 50000
  <2>1. turns[Final(turns, t)].score \in Nat /\ turns[Final(turns, t)].score <= 50000
    BY <1>3, ScoreOfTurn
  <2>2. QED
    BY <1>2, <2>1, InHundredths
<1>6. /\ AttemptScore(turns, t) =
            IF blend = "blend_with_independent" THEN (7 * x + 3 * y) \div 10 ELSE x
      /\ AttemptScore(first, t) =
            IF blend = "blend_with_independent" THEN (7 * x + 3 * x) \div 10 ELSE x
  <2> HIDE DEF first
  <2>1. QED
    BY <1>2 DEF AttemptScore
<1> HIDE DEF x, y, first
<1>7. /\ (7 * x + 3 * y) \div 10 \in Nat /\ (7 * x + 3 * x) \div 10 = x
      /\ (7 * x + 3 * y) \div 10 <= x + 15000 /\ x <= (7 * x + 3 * y) \div 10 + 15000
  BY <1>4, <1>5
<1>8. QED
  BY <1>4, <1>6, <1>7 DEF first

LEMMA AnsweredFinite == ASSUME TurnsKept PROVE IsFiniteSet(Answered(turns))
<1> DEFINE f == [i \in DOMAIN turns |-> turns[i].topic]
<1>1. IsFiniteSet(DOMAIN turns)
  <2>1. PICK n \in Nat : DOMAIN turns = 1..n
    BY DEF TurnsKept
  <2>2. QED
    BY <2>1, FS_Interval
<1>2. f \in Surjection(DOMAIN turns, Answered(turns))
  BY DEF Answered, Surjection
<1>3. QED
  BY <1>1, <1>2, FS_Surjection

LEMMA AveragesApart ==
  ASSUME TurnsKept, NEW T \in SUBSET Answered(turns)
  PROVE  /\ Average(turns, T) \in Nat /\ Average(FirstAnswers(turns), T) \in Nat
         /\ blend # "blend_with_independent" =>
              Average(turns, T) = Average(FirstAnswers(turns), T)
         /\ Average(turns, T) <= Average(FirstAnswers(turns), T) + 15000
         /\ Average(FirstAnswers(turns), T) <= Average(turns, T) + 15000
<1> DEFINE first == FirstAnswers(turns)
           f == [t \in T |-> AttemptScore(turns, t)]
           g == [t \in T |-> AttemptScore(first, t)]
           one == [t \in T |-> 1]
           n == Cardinality(T)
<1>1. IsFiniteSet(T)
  BY AnsweredFinite, FS_Subset
<1>2. CASE T = {}
  BY <1>2 DEF Average
<1>3. CASE T # {}
  <2>1. n \in Nat /\ n > 0
    BY <1>1, <1>3, FS_CardinalityType, FS_EmptySet
  <2>2. /\ Average(turns, T) = Hundredths(SumFunction(f), n)
        /\ Average(first, T) = Hundredths(SumFunction(g), n)
    BY <1>3 DEF Average
  <2>3. \A t \in T : /\ AttemptScore(turns, t) \in Nat /\ AttemptScore(first, t) \in Nat
                     /\ blend # "blend_with_independent" =>
                          AttemptScore(turns, t) = AttemptScore(first, t)
                     /\ AttemptScore(turns, t) <= AttemptScore(first, t) + 15000
                     /\ AttemptScore(first, t) <= AttemptScore(turns, t) + 15000
    BY AttemptsApart
  <2> HIDE DEF first
  <2>4. f \in [T -> Nat] /\ g \in [T -> Nat] /\ one \in [T -> Nat]
    BY <2>3
  <2>5. blend # "blend_with_independent" => f = g
    BY <2>3
  <2>6. \A t \in T : /\ f[t] <= g[t] + 15000 * one[t] /\ g[t] <= f[t] + 15000 * one[t]
    BY <2>3
  <2>7. SumFunction(one) = n
    BY <1>1, SumOnes
  <2> HIDE DEF f, g, one, n
  <2>8. SumFunction(f) \in Nat /\ SumFunction(g) \in Nat
    BY <1>1, <2>4, SumType
  <2>9. SumFunction(f) <= SumFunction(g) + 15000 * SumFunction(one)
    BY ONLY <1>1, <2>4, <2>6, SumsApart
  <2>10. SumFunction(g) <= SumFunction(f) + 15000 * SumFunction(one)
    BY ONLY <1>1, <2>4, <2>6, SumsApart
  <2>11. Hundredths(SumFunction(f), n) \in Nat /\ Hundredths(SumFunction(g), n) \in Nat
    BY <2>1, <2>8, HundredthsType
  <2>12. Hundredths(SumFunction(f), n) <= Hundredths(SumFunction(g), n) + 15000
    BY <2>1, <2>7, <2>8, <2>9, HundredthsApart
  <2>13. Hundredths(SumFunction(g), n) <= Hundredths(SumFunction(f), n) + 15000
    BY <2>1, <2>7, <2>8, <2>10, HundredthsApart
  <2>14. QED
    BY <2>2, <2>5, <2>11, <2>12, <2>13 DEF first
<1>4. QED
  BY <1>2, <1>3

\* Averages of the same questions that are near each other give overall scores
\* that are.
LEMMA OverallApart ==
  ASSUME NEW l, NEW m, Answered(l) = Answered(m),
         \A T \in SUBSET Answered(l) : /\ Average(l, T) \in Nat /\ Average(m, T) \in Nat
                                       /\ Average(l, T) <= Average(m, T) + 15000
  PROVE  Overall(l) <= Overall(m) + 15000
<1> DEFINE S == Assessed(l)
           T(aim) == Eligible(l, aim)
           w == [aim \in S |-> aim.weight]
           f == [aim \in S |-> aim.weight * Average(l, T(aim))]
           g == [aim \in S |-> aim.weight * Average(m, T(aim))]
           weight == SumFunction(w)
           a == SumFunction(f)
           b == SumFunction(g)
<1>1. \A aim : Eligible(m, aim) = Eligible(l, aim)
  BY DEF Eligible
<1>2. Assessed(m) = S
  BY <1>1 DEF Assessed
<1>3. /\ Overall(l) = IF S = {} THEN Average(l, Answered(l))
                      ELSE IF weight = 0 THEN 0 ELSE (2 * a + weight) \div (2 * weight)
      /\ Overall(m) = IF S = {} THEN Average(m, Answered(l))
                      ELSE IF weight = 0 THEN 0 ELSE (2 * b + weight) \div (2 * weight)
  BY <1>1, <1>2 DEF Overall
<1>4. IsFiniteSet(S) /\ \A aim \in S : aim.weight \in Nat
  <2>1. S \subseteq Aims
    BY DEF Assessed
  <2>2. QED
    BY <2>1, AssessmentAssumption, FS_Subset
<1>5. \A aim \in S : /\ Average(l, T(aim)) \in Nat /\ Average(m, T(aim)) \in Nat
                     /\ Average(l, T(aim)) <= Average(m, T(aim)) + 15000
  BY DEF Eligible
<1>6. w \in [S -> Nat] /\ f \in [S -> Nat] /\ g \in [S -> Nat]
      /\ \A aim \in S : f[aim] <= g[aim] + 15000 * w[aim]
  <2> HIDE DEF S, T
  <2>1. \A x, y, z \in Nat : y <= z + 15000 => x * y \in Nat /\ x * z \in Nat /\ x * y <= x * z + 15000 * x
    <3> TAKE x, y, z \in Nat
    <3> HAVE y <= z + 15000
    <3>1. PICK d \in Nat : y + d = z + 15000
      <4>1. z + 15000 - y \in Nat /\ y + (z + 15000 - y) = z + 15000
        OBVIOUS
      <4>2. QED
        BY <4>1
    <3>2. x * y + x * d = x * z + 15000 * x
      <4>1. x * (y + d) = x * (z + 15000)
        BY <3>1
      <4>2. QED
        BY <4>1
    <3>3. x * d \in Nat /\ x * y \in Nat /\ x * z \in Nat
      OBVIOUS
    <3>4. QED
      BY <3>2, <3>3
  <2>2. QED
    BY <1>4, <1>5, <2>1
<1> HIDE DEF S, T, w, f, g
<1>7. weight \in Nat /\ a \in Nat /\ b \in Nat
  BY <1>4, <1>6, SumType
<1>8. a <= b + 15000 * weight
  BY ONLY <1>4, <1>6, SumsApart
<1>9. CASE S # {} /\ weight # 0
  <2> DEFINE d == 2 * weight
             p == 2 * a + weight
             q == 2 * b + weight
  <2>1. d \in Nat /\ d > 0 /\ p \in Nat /\ q \in Nat /\ p <= q + d * 15000
    <3> HIDE DEF weight, a, b
    <3>1. QED
      BY <1>7, <1>8, <1>9
  <2>2. Overall(l) = p \div d /\ Overall(m) = q \div d
    BY <1>3, <1>9
  <2> HIDE DEF d, p, q
  <2>3. p \div d <= q \div d + 15000
    BY <2>1, QuotientsApart
  <2>4. QED
    BY <2>2, <2>3
<1>10. CASE S = {}
  <2>1. Overall(l) = Average(l, Answered(l)) /\ Overall(m) = Average(m, Answered(l))
    BY <1>3, <1>10
  <2>2. QED
    BY <2>1
<1>11. CASE S # {} /\ weight = 0
  <2>1. Overall(l) = 0 /\ Overall(m) = 0
    BY <1>3, <1>11
  <2>2. QED
    BY <2>1
<1>12. QED
  BY <1>9, <1>10, <1>11

LEMMA OverallSame ==
  ASSUME NEW l, NEW m, Answered(l) = Answered(m),
         \A T \in SUBSET Answered(l) : Average(l, T) = Average(m, T)
  PROVE  Overall(l) = Overall(m)
<1>1. \A aim : Eligible(m, aim) = Eligible(l, aim) /\ Eligible(l, aim) \in SUBSET Answered(l)
  BY DEF Eligible
<1>2. Assessed(m) = Assessed(l)
  BY <1>1 DEF Assessed
<1>3. [aim \in Assessed(l) |-> aim.weight * Average(l, Eligible(l, aim))]
        = [aim \in Assessed(m) |-> aim.weight * Average(m, Eligible(m, aim))]
  BY <1>1, <1>2
<1>4. Average(l, Answered(l)) = Average(m, Answered(m))
  OBVIOUS
<1>5. QED
  BY <1>2, <1>3, <1>4 DEF Overall

LEMMA OverallType ==
  ASSUME TurnsKept
  PROVE  Overall(turns) \in Int /\ Overall(FirstAnswers(turns)) \in Int
<1> DEFINE S == Assessed(turns)
<1>0. Answered(FirstAnswers(turns)) = Answered(turns)
  BY FirstAnswersAre
<1>1. IsFiniteSet(S) /\ \A aim \in S : aim.weight \in Nat
  <2>1. S \subseteq Aims
    BY DEF Assessed
  <2>2. QED
    BY <2>1, AssessmentAssumption, FS_Subset
<1>2. ASSUME NEW l, Answered(l) = Answered(turns),
             \A T \in SUBSET Answered(turns) : Average(l, T) \in Nat
      PROVE  Overall(l) \in Int
  <2> DEFINE w == [aim \in S |-> aim.weight]
             f == [aim \in S |-> aim.weight * Average(l, Eligible(l, aim))]
             weight == SumFunction(w)
             a == SumFunction(f)
  <2>1. \A aim : Eligible(l, aim) \in SUBSET Answered(turns) /\ Eligible(l, aim) = Eligible(turns, aim)
    BY <1>2 DEF Eligible
  <2>2. Assessed(l) = S
    BY <2>1 DEF Assessed
  <2>3. Overall(l) = IF S = {} THEN Average(l, Answered(l))
                     ELSE IF weight = 0 THEN 0 ELSE (2 * a + weight) \div (2 * weight)
    BY <2>2 DEF Overall
  <2>4. \A aim \in S : aim.weight * Average(l, Eligible(l, aim)) \in Nat
    <3> TAKE aim \in S
    <3>1. aim.weight \in Nat /\ Average(l, Eligible(l, aim)) \in Nat
      BY <1>1, <1>2, <2>1
    <3>2. \A x, y \in Nat : x * y \in Nat
      OBVIOUS
    <3>3. QED
      BY <3>1, <3>2
  <2> HIDE DEF S
  <2>5. w \in [S -> Nat] /\ f \in [S -> Nat]
    BY <1>1, <2>4
  <2> HIDE DEF w, f
  <2>6. weight \in Nat /\ a \in Nat
    BY <1>1, <2>5, SumType
  <2>7. Average(l, Answered(l)) \in Nat
    BY <1>2
  <2> HIDE DEF weight, a
  <2>8. weight # 0 => (2 * a + weight) \div (2 * weight) \in Int
    <3> SUFFICES ASSUME weight # 0 PROVE (2 * a + weight) \div (2 * weight) \in Int
      OBVIOUS
    <3>1. 2 * a + weight \in Int /\ 2 * weight \in Nat /\ 2 * weight > 0
      BY <2>6
    <3>2. QED
      BY <3>1, Quotient
  <2>9. QED
    BY <2>3, <2>7, <2>8
<1>3. QED
  BY <1>0, <1>2, AveragesApart

LEMMA AssistanceIsApart == ASSUME AssessmentKept PROVE AssistanceApart
<1> DEFINE first == FirstAnswers(turns)
<1>1. TurnsKept
  BY DEF AssessmentKept
<1>2. Answered(first) = Answered(turns)
  BY <1>1, FirstAnswersAre
<1>3. \A T \in SUBSET Answered(turns) :
        /\ Average(turns, T) \in Nat /\ Average(first, T) \in Nat
        /\ blend # "blend_with_independent" => Average(turns, T) = Average(first, T)
        /\ Average(turns, T) <= Average(first, T) + 15000
        /\ Average(first, T) <= Average(turns, T) + 15000
  BY <1>1, AveragesApart
<1>4. Overall(turns) \in Int /\ Overall(first) \in Int
  BY <1>1, OverallType
<1> HIDE DEF first
<1>5. blend # "blend_with_independent" => Overall(turns) = Overall(first)
  BY <1>2, <1>3, OverallSame
<1>6. Overall(turns) <= Overall(first) + 15000
  BY <1>2, <1>3, OverallApart
<1>7. Overall(first) <= Overall(turns) + 15000
  BY <1>2, <1>3, OverallApart
<1>8. ASSUME NEW i \in DOMAIN turns, RepeatsAnother(i) PROVE turns[i].score <= 22500
  <2>1. TurnKept(i)
    BY <1>1 DEF TurnsKept
  <2>2. turns[i].cap \in {25, 45} /\ turns[i].score <= 500 * turns[i].cap /\ turns[i].score \in Nat
    BY <1>1, <1>8, <2>1, ScoreOfTurn DEF TurnKept
  <2>3. QED
    BY <2>2
<1>9. ASSUME NEW i \in DOMAIN turns, turns[i].cap # NoCap, i = Final(turns, turns[i].topic)
      PROVE  turns[i].topic \notin Strengths(turns)
  <2>1. turns[i].cap \in {25, 45, 65} /\ turns[i].score <= 500 * turns[i].cap
        /\ turns[i].score \in Nat /\ turns[i].score <= 50000
    BY <1>1, <1>9, ScoreOfTurn DEF Caps
  <2>2. turns[i].score <= 32500
    BY <2>1
  <2>3. Hundredths(turns[i].score, 1) \in Nat /\ Hundredths(turns[i].score, 1) <= 32500
    BY <2>1, <2>2, InHundredths
  <2>4. AssistedScore(turns, turns[i].topic) = Hundredths(turns[i].score, 1)
    BY <1>9 DEF AssistedScore
  <2>5. ~(AssistedScore(turns, turns[i].topic) >= 38000)
    BY <2>3, <2>4
  <2>6. QED
    BY <2>5 DEF Strengths
<1>10. /\ Overall(turns) <= Overall(first) + 15100
       /\ Overall(turns) >= Overall(first) - 15100
  BY <1>4, <1>6, <1>7
<1>11. QED
  BY <1>5, <1>8, <1>9, <1>10 DEF AssistanceApart, RepeatsAnother, first

----------------------------------------------------------------------------
(* The knowledge of a session *)

KnownState == {s \in [mass : Nat, weight : Nat, count : Nat, correct : Nat,
                      notions : [Misconceptions -> {"none", "active", "resolved"}]] :
                 s.mass <= 100 * s.weight}
Happening == [observation : 0..100, weight : Nat, errors : SUBSET Misconceptions,
              resolved : SUBSET Misconceptions]

\* An answer in progress took what it resolves from the state it read.
InProgress == {x \in [read : KnownState, event : Happening] :
                 x.event.resolved = Resolved(x.read, x.event.observation, x.event.errors)}

KnowledgeTyped ==
    /\ evidence \in Seq(Happening)
    /\ knowledge \in KnownState /\ knowledge.count <= Len(evidence)
    /\ answers \in [Answers -> InProgress \cup {NoAnswer}]
    /\ \A a \in Answers : answers[a] # NoAnswer => answers[a].read.count <= Len(evidence)
    /\ contended \in BOOLEAN

\* f gives the state after each number of the events.
Follows(f, events) ==
    f = [n \in 0..Len(events) |-> IF n = 0 THEN Unknown ELSE Applied(f[n - 1], events[n])]
FoldIs(f) ==
    /\ f \in [0..Len(evidence) -> KnownState] /\ Follows(f, evidence)
    /\ \A n \in 0..Len(evidence) : f[n].count = n
    /\ ~contended => knowledge = f[Len(evidence)]

WeightOf == [k \in DOMAIN evidence |-> evidence[k].weight]
MassOf == [k \in DOMAIN evidence |-> evidence[k].weight *
             (IF k = 1 THEN CappedFirst(evidence[k].observation) ELSE evidence[k].observation)]
Right == {k \in DOMAIN evidence : evidence[k].observation >= 70}
ErredOn(m) == {k \in DOMAIN evidence : m \in evidence[k].errors}
Mended(m) == \E j \in DOMAIN evidence : Clean(j) /\ \A k \in ErredOn(m) : k < j
NotionKept(m) ==
    /\ knowledge.notions[m] = IF ErredOn(m) = {} THEN "none"
                              ELSE IF Mended(m) THEN "resolved" ELSE "active"
    /\ Summarized(m) = knowledge.notions[m]

Matching ==
    /\ knowledge.count = Len(evidence)
    /\ knowledge.weight = SumFunction(WeightOf) /\ knowledge.mass = SumFunction(MassOf)
    /\ knowledge.correct = Cardinality(Right)
    /\ \A m \in Misconceptions : NotionKept(m)

KnowledgeKept ==
    KnowledgeTyped /\ (\E f : FoldIs(f)) /\ (~contended => Matching)

LEMMA UnknownTyped == Unknown \in KnownState /\ Unknown.count = 0
BY DEF Unknown, KnownState

LEMMA AppliedTyped ==
  ASSUME NEW state \in KnownState, NEW event \in Happening
  PROVE  Applied(state, event) \in KnownState /\ Applied(state, event).count = state.count + 1
<1> DEFINE o == event.observation
           w == event.weight
           mass == Mass(state, o, w)
           notions == Notions(state, o, event.errors)
           correct == state.correct + (IF o >= 70 THEN 1 ELSE 0)
<1>1. /\ o \in 0..100 /\ w \in Nat /\ state.mass \in Nat /\ state.weight \in Nat
      /\ state.count \in Nat /\ state.correct \in Nat /\ state.mass <= 100 * state.weight
      /\ state.notions \in [Misconceptions -> {"none", "active", "resolved"}]
  BY DEF KnownState, Happening
<1>2. notions \in [Misconceptions -> {"none", "active", "resolved"}]
  <2>1. \A m \in Misconceptions : state.notions[m] \in {"none", "active", "resolved"}
    BY <1>1
  <2>2. QED
    BY <2>1 DEF Notions
<1>3. Applied(state, event) = [mass |-> mass, weight |-> state.weight + w, count |-> state.count + 1,
                               correct |-> correct, notions |-> notions]
  BY DEF Applied
<1>4. correct \in Nat
  BY <1>1
<1>5. mass \in Nat /\ mass <= 100 * (state.weight + w)
  <2>1. \A x \in 0..100, y \in Nat : x * y \in Nat /\ x * y <= 100 * y
    <3> TAKE x \in 0..100, y \in Nat
    <3>1. PICK z \in Nat : x + z = 100
      <4>1. 100 - x \in Nat /\ x + (100 - x) = 100
        OBVIOUS
      <4>2. QED
        BY <4>1
    <3>2. (x + z) * y = 100 * y
      BY <3>1
    <3>3. x * y \in Nat /\ z * y \in Nat /\ x * y + z * y = 100 * y
      BY <3>2
    <3>4. QED
      BY <3>3
  <2>2. CappedFirst(o) \in 0..100
    BY <1>1 DEF CappedFirst
  <2>3. CappedFirst(o) * w \in Nat /\ CappedFirst(o) * w <= 100 * w
    BY <1>1, <2>1, <2>2
  <2>4. o * w \in Nat /\ o * w <= 100 * w
    BY <1>1, <2>1
  <2>5. mass = IF state.count = 0 THEN CappedFirst(o) * w ELSE state.mass + o * w
    BY DEF Mass
  <2> DEFINE c == CappedFirst(o) * w
             d == o * w
  <2> HIDE DEF c, d, mass, w
  <2>6. c \in Nat /\ c <= 100 * w /\ d \in Nat /\ d <= 100 * w
        /\ mass = IF state.count = 0 THEN c ELSE state.mass + d
    BY <2>3, <2>4, <2>5 DEF c, d
  <2>7. QED
    BY <1>1, <2>6
<1> HIDE DEF mass, notions, correct, w
<1>6. QED
  BY <1>1, <1>2, <1>3, <1>4, <1>5 DEF KnownState

\* There is one function that follows the events.
LEMMA OneFollows ==
  ASSUME NEW f, NEW g, NEW events, Len(events) \in Nat, Follows(f, events), Follows(g, events)
  PROVE  f = g
<1> DEFINE N == 0..Len(events)
           Differ == {n \in N : f[n] # g[n]}
<1>1. /\ \A n \in N : f[n] = IF n = 0 THEN Unknown ELSE Applied(f[n - 1], events[n])
      /\ \A n \in N : g[n] = IF n = 0 THEN Unknown ELSE Applied(g[n - 1], events[n])
  BY DEF Follows
<1>2. Differ = {}
  <2> SUFFICES ASSUME Differ # {} PROVE FALSE
    OBVIOUS
  <2>1. Differ \subseteq Nat
    OBVIOUS
  <2> HIDE DEF Differ
  <2>2. PICK n \in Differ : \A m \in Differ : n <= m
    BY <2>1, LeastNatural
  <2>3. n \in N /\ f[n] # g[n]
    BY <2>2 DEF Differ
  <2>4. n # 0
    BY <1>1, <2>3
  <2>5. n - 1 \in N /\ n - 1 < n
    BY <2>3, <2>4
  <2>6. n - 1 \notin Differ
    <3>1. n \in Nat /\ ~(n <= n - 1)
      BY <2>3
    <3>2. QED
      BY <2>2, <3>1
  <2>7. f[n - 1] = g[n - 1]
    BY <2>5, <2>6 DEF Differ
  <2>8. QED
    BY <1>1, <2>3, <2>4, <2>7
<1>3. \A n \in N : f[n] = g[n]
  BY <1>2
<1>4. f = [n \in N |-> f[n]] /\ g = [n \in N |-> g[n]]
  BY DEF Follows
<1> HIDE DEF N
<1>5. QED
  BY <1>3, <1>4

LEMMA FoldedIs ==
  ASSUME Len(evidence) \in Nat, NEW f, Follows(f, evidence)
  PROVE  Folded = f
<1> DEFINE body(g) == [n \in 0..Len(evidence) |->
                         IF n = 0 THEN Unknown ELSE Applied(g[n - 1], evidence[n])]
           chosen == CHOOSE g : g = body(g)
<1>1. Folded = chosen
  BY DEF Folded
<1>2. \A g : Follows(g, evidence) <=> g = body(g)
  BY DEF Follows
<1>3. f = body(f)
  BY <1>2
<1>4. chosen = body(chosen)
  <2> HIDE DEF body
  <2>1. QED
    BY <1>3
<1>5. Follows(chosen, evidence)
  BY <1>2, <1>4
<1> HIDE DEF chosen
<1>6. chosen = f
  BY <1>5, OneFollows
<1>7. QED
  BY <1>1, <1>6

LEMMA KnowledgeStarts == ASSUME InitKnowledge PROVE KnowledgeKept
<1>1. evidence = <<>> /\ knowledge = Unknown /\ contended = FALSE
      /\ answers = [a \in Answers |-> NoAnswer]
  BY DEF InitKnowledge
<1>2. evidence \in Seq(Happening) /\ Len(evidence) = 0 /\ DOMAIN evidence = {}
  BY <1>1
<1>3. KnowledgeTyped
  <2>1. knowledge \in KnownState /\ knowledge.count <= Len(evidence)
    BY <1>1, <1>2, UnknownTyped
  <2>2. answers \in [Answers -> InProgress \cup {NoAnswer}]
        /\ \A a \in Answers : answers[a] = NoAnswer
    BY <1>1
  <2>3. QED
    BY <1>1, <1>2, <2>1, <2>2 DEF KnowledgeTyped
<1>4. \E f : FoldIs(f)
  <2> DEFINE f == [n \in 0..0 |-> Unknown]
  <2>1. f \in [0..Len(evidence) -> KnownState] /\ (\A n \in 0..Len(evidence) : f[n].count = n)
    BY <1>2, UnknownTyped
  <2>2. Follows(f, evidence)
    <3>1. \A n \in 0..0 : n = 0
      OBVIOUS
    <3>2. QED
      BY <1>2, <3>1 DEF Follows
  <2>3. knowledge = f[Len(evidence)]
    BY <1>1, <1>2
  <2> HIDE DEF f
  <2>4. QED
    BY <2>1, <2>2, <2>3 DEF FoldIs
<1>5. Matching
  <2>1. WeightOf \in [{} -> Nat] /\ MassOf \in [{} -> Nat]
    BY <1>2 DEF WeightOf, MassOf
  <2>2. SumFunction(WeightOf) = 0 /\ SumFunction(MassOf) = 0
    <3>1. SumFunction(WeightOf) = 0
      BY <2>1, SumEmpty
    <3>2. SumFunction(MassOf) = 0
      BY <2>1, SumEmpty
    <3>3. QED
      BY <3>1, <3>2
  <2>3. Right = {} /\ Cardinality({}) = 0
    BY <1>2, FS_EmptySet DEF Right
  <2>4. \A m \in Misconceptions : NotionKept(m)
    BY <1>1, <1>2 DEF NotionKept, ErredOn, Summarized, Unknown
  <2>5. QED
    BY <1>1, <1>2, <2>2, <2>3, <2>4 DEF Matching, Unknown
<1>6. QED
  BY <1>1, <1>3, <1>4, <1>5 DEF KnowledgeKept

LEMMA AnalyzedKeeps ==
  ASSUME KnowledgeKept, NEW a \in Answers, Analyzed(a) PROVE KnowledgeKept'
<1>1. PICK quality \in Qualities, assistance \in DOMAIN Penalty, weight \in Weights,
           errors \in SUBSET Misconceptions :
        /\ answers' = [answers EXCEPT ![a] =
              [read |-> knowledge,
               event |-> [observation |-> Observation(quality, assistance),
                          weight |-> EvidenceWeight(weight), errors |-> errors,
                          resolved |-> Resolved(knowledge, Observation(quality, assistance), errors)]]]
        /\ evidence' = evidence /\ knowledge' = knowledge /\ contended' = contended
  BY DEF Analyzed
<1> DEFINE o == Observation(quality, assistance)
           w == EvidenceWeight(weight)
           r == Resolved(knowledge, o, errors)
           new == [read |-> knowledge, event |-> [observation |-> o, weight |-> w, errors |-> errors,
                                                  resolved |-> r]]
<1>2. o \in 0..100
  <2>1. quality \in 0..100 /\ Penalty[assistance] \in Nat
    BY KnowledgeAssumption DEF Penalty
  <2>2. QED
    BY <2>1 DEF Observation
<1>3. w \in Nat
  BY KnowledgeAssumption DEF EvidenceWeight
<1>4. r \in SUBSET Misconceptions
  BY DEF Resolved
<1>5. KnowledgeTyped
  BY DEF KnowledgeKept
<1>6. new \in InProgress /\ new.read = knowledge
  <2> HIDE DEF o, w
  <2>1. new \in [read : KnownState, event : Happening]
    <3> HIDE DEF r
    <3>1. knowledge \in KnownState
      BY <1>5 DEF KnowledgeTyped
    <3>2. QED
      BY <1>2, <1>3, <1>4, <3>1 DEF Happening
  <2>2. QED
    BY <2>1 DEF InProgress
<1>7. answers' = [answers EXCEPT ![a] = new]
  BY <1>1
<1> HIDE DEF new
<1>8. KnowledgeTyped'
  BY <1>1, <1>5, <1>6, <1>7 DEF KnowledgeTyped
<1>9. (\E f : FoldIs(f)) => (\E f : FoldIs(f))'
  BY <1>1 DEF FoldIs
<1>10. Matching => Matching'
  BY <1>1 DEF Matching, WeightOf, MassOf, Right, NotionKept, ErredOn, Mended, Clean, Summarized
<1>11. QED
  BY <1>1, <1>8, <1>9, <1>10 DEF KnowledgeKept

LEMMA LostKeeps ==
  ASSUME KnowledgeKept, NEW a \in Answers, AnswerLost(a) PROVE KnowledgeKept'
<1>1. /\ answers' = [answers EXCEPT ![a] = NoAnswer]
      /\ evidence' = evidence /\ knowledge' = knowledge /\ contended' = contended
  BY DEF AnswerLost
<1>2. KnowledgeTyped'
  BY <1>1 DEF KnowledgeKept, KnowledgeTyped
<1>3. (\E f : FoldIs(f)) => (\E f : FoldIs(f))'
  BY <1>1 DEF FoldIs
<1>4. Matching => Matching'
  BY <1>1 DEF Matching, WeightOf, MassOf, Right, NotionKept, ErredOn, Mended, Clean, Summarized
<1>5. QED
  BY <1>1, <1>2, <1>3, <1>4 DEF KnowledgeKept

LEMMA RebuiltKeeps == ASSUME KnowledgeKept, RebuildKnowledge PROVE KnowledgeKept'
<1>1. /\ knowledge' = Folded[Len(evidence)]
      /\ evidence' = evidence /\ answers' = answers /\ contended' = contended
  BY DEF RebuildKnowledge
<1>2. PICK f : FoldIs(f)
  BY DEF KnowledgeKept
<1>3. Len(evidence) \in Nat
  BY DEF KnowledgeKept, KnowledgeTyped
<1>4. knowledge' = f[Len(evidence)]
  BY <1>1, <1>2, <1>3, FoldedIs DEF FoldIs
<1>5. f[Len(evidence)] \in KnownState /\ f[Len(evidence)].count = Len(evidence)
  BY <1>2, <1>3 DEF FoldIs
<1>6. KnowledgeTyped'
  BY <1>1, <1>3, <1>4, <1>5 DEF KnowledgeKept, KnowledgeTyped
<1>7. FoldIs(f)'
  BY <1>1, <1>2, <1>4 DEF FoldIs
<1>8. ~contended => Matching'
  <2> SUFFICES ASSUME ~contended PROVE Matching'
    OBVIOUS
  <2>1. knowledge' = knowledge /\ Matching
    BY <1>2, <1>4 DEF FoldIs, KnowledgeKept
  <2>2. QED
    BY <1>1, <2>1 DEF Matching, WeightOf, MassOf, Right, NotionKept, ErredOn, Mended, Clean,
                      Summarized
<1>9. QED
  BY <1>1, <1>6, <1>7, <1>8 DEF KnowledgeKept

\* One more event.
LEMMA SumAppended ==
  ASSUME NEW n \in Nat, NEW h \in [1..n + 1 -> Nat], NEW g, g = [k \in 1..n |-> h[k]]
  PROVE  SumFunction(h) = SumFunction(g) + h[n + 1] /\ SumFunction(g) \in Nat
<1>1. IsFiniteSet(1..n + 1) /\ IsFiniteSet(1..n) /\ n + 1 \in 1..n + 1
  BY FS_Interval
<1>2. (1..n + 1) \ {n + 1} = 1..n
  OBVIOUS
<1>3. Restrict(h, 1..n) = g
  BY DEF Restrict
<1>4. g \in [1..n -> Nat]
  <2>1. \A k \in 1..n : k \in 1..n + 1
    OBVIOUS
  <2>2. QED
    BY <2>1
<1>5. SumFunction(h) = h[n + 1] + SumFunction(Restrict(h, (1..n + 1) \ {n + 1}))
  BY ONLY <1>1, SumSplit, h \in [1..n + 1 -> Nat]
<1>6. SumFunction(g) \in Nat
  BY <1>1, <1>4, SumType
<1>7. h[n + 1] \in Nat
  BY <1>1
<1>8. SumFunction(h) = h[n + 1] + SumFunction(g)
  BY <1>2, <1>3, <1>5
<1>9. QED
  BY ONLY <1>6, <1>7, <1>8

\* A misconception's notion, and what the events say of it, after one more event.
LEMMA NotionNext ==
  ASSUME NEW n \in Nat, n = Len(evidence), evidence \in Seq(Happening), NEW event \in Happening,
         evidence' = Append(evidence, event), knowledge \in KnownState, knowledge.count = n,
         event.resolved = Resolved(knowledge, event.observation, event.errors),
         knowledge' = Applied(knowledge, event), NEW m \in Misconceptions, NotionKept(m)
  PROVE  NotionKept(m)'
<1> DEFINE last == n + 1
           Clearing == Clears(knowledge, event.observation, event.errors)
           Erred == ErredOn(m)
           Cleared == {k \in DOMAIN evidence : m \in evidence[k].resolved}
           Later == {k \in DOMAIN evidence' : m \in evidence'[k].errors}
           ClearedLater == {k \in DOMAIN evidence' : m \in evidence'[k].resolved}
<1>1. /\ DOMAIN evidence = 1..n /\ DOMAIN evidence' = 1..last
      /\ evidence'[last] = event /\ \A k \in 1..n : evidence'[k] = evidence[k]
  OBVIOUS
<1>2. /\ event.errors \in SUBSET Misconceptions /\ event.observation \in 0..100
      /\ last \in 1..last /\ \A k \in 1..last : k = last \/ k \in 1..n
      /\ \A k \in 1..n : k \in 1..last /\ k < last /\ ~(last < k) /\ k # last
      /\ ~(last < last)
  BY DEF Happening
<1>3. /\ Later = Erred \cup (IF m \in event.errors THEN {last} ELSE {})
      /\ ClearedLater = Cleared \cup (IF m \in event.resolved THEN {last} ELSE {})
      /\ Erred \subseteq 1..n /\ Cleared \subseteq 1..n
  BY <1>1, <1>2 DEF ErredOn
<1>4. knowledge'.notions[m] =
        IF Clearing /\ (knowledge.notions[m] = "active" \/ m \in event.errors) THEN "resolved"
        ELSE IF m \in event.errors THEN "active" ELSE knowledge.notions[m]
  BY DEF Applied, Notions
<1>5. m \in event.resolved <=> knowledge.notions[m] = "active" /\ Clearing
  BY DEF Resolved
<1>6. Clearing <=> event.errors = {} /\ event.observation >= 80 /\ n + 1 >= 2
  BY DEF Clears
<1>7. /\ (ErredOn(m))' = Later
      /\ Mended(m)' <=> \E j \in 1..last : /\ evidence'[j].errors = {} /\ evidence'[j].observation >= 80
                                           /\ \A k \in Later : k < j
      /\ Mended(m) <=> \E j \in 1..n : /\ evidence[j].errors = {} /\ evidence[j].observation >= 80
                                       /\ \A k \in Erred : k < j
  BY <1>1 DEF ErredOn, Mended, Clean
<1>8. /\ Summarized(m) = IF Erred = {} THEN "none"
                         ELSE IF \E k \in Cleared : \A j \in Erred : j < k THEN "resolved" ELSE "active"
      /\ Summarized(m)' = IF Later = {} THEN "none"
                          ELSE IF \E k \in ClearedLater : \A j \in Later : j < k THEN "resolved"
                          ELSE "active"
  BY DEF Summarized, ErredOn
<1>9. /\ knowledge.notions[m] = IF Erred = {} THEN "none"
                                ELSE IF Mended(m) THEN "resolved" ELSE "active"
      /\ Summarized(m) = knowledge.notions[m]
  BY DEF NotionKept
<1> HIDE DEF Later, ClearedLater, Erred, Cleared, Clearing, last
<1>10. CASE m \in event.errors
  <2>1. last \in Later /\ Later # {} /\ ~Clearing
    BY <1>3, <1>6, <1>10
  <2>2. \A j \in 1..last : ~(last < j)
    BY <1>2
  <2>3. ~Mended(m)'
    BY <1>7, <2>1, <2>2
  <2>4. ClearedLater \subseteq 1..last
    BY <1>2, <1>3
  <2>5. Summarized(m)' = "active"
    BY <1>8, <2>1, <2>2, <2>4
  <2>6. knowledge'.notions[m] = "active"
    BY <1>4, <1>10, <2>1
  <2>7. QED
    BY <1>7, <2>1, <2>3, <2>5, <2>6 DEF NotionKept
<1>11. CASE m \notin event.errors
  <2>1. Later = Erred
    BY <1>3, <1>11
  <2>2. CASE Erred = {}
    <3>1. knowledge.notions[m] = "none"
      BY <1>9, <2>2
    <3>2. knowledge'.notions[m] = "none"
      BY <1>4, <1>11, <3>1
    <3>3. Summarized(m)' = "none"
      BY <1>8, <2>1, <2>2
    <3>4. QED
      BY <1>7, <2>1, <2>2, <3>2, <3>3 DEF NotionKept
  <2>3. CASE Erred # {}
    <3>1. n >= 1
      <4>1. PICK k \in 1..n : TRUE
        BY <1>3, <2>3
      <4>2. QED
        BY <4>1
    <3>2. Clearing <=> event.errors = {} /\ event.observation >= 80
      BY <1>6, <3>1
    <3>3. \A k \in Erred : k < last
      BY <1>2, <1>3
    <3>4. Mended(m)' <=> Mended(m) \/ Clearing
      <4>1. ASSUME Mended(m) PROVE Mended(m)'
        BY <1>1, <1>2, <1>7, <2>1, <4>1
      <4>2. ASSUME Clearing PROVE Mended(m)'
        BY <1>1, <1>2, <1>7, <2>1, <3>2, <3>3, <4>2
      <4>3. ASSUME Mended(m)', ~Mended(m) PROVE Clearing
        BY <1>1, <1>2, <1>7, <2>1, <3>2, <4>3
      <4>4. QED
        BY <4>1, <4>2, <4>3
    <3>5. CASE knowledge.notions[m] = "resolved"
      <4>1. Mended(m) /\ knowledge'.notions[m] = "resolved"
        BY <1>4, <1>9, <1>11, <2>3, <3>5
      <4>2. \E k \in Cleared : \A j \in Erred : j < k
        BY <1>8, <1>9, <2>3, <3>5
      <4>3. \E k \in ClearedLater : \A j \in Later : j < k
        BY <1>3, <2>1, <4>2
      <4>4. Summarized(m)' = "resolved"
        BY <1>8, <2>1, <2>3, <4>3
      <4>5. QED
        BY <1>7, <2>1, <2>3, <3>4, <4>1, <4>4 DEF NotionKept
    <3>6. CASE knowledge.notions[m] = "active"
      <4>1. ~Mended(m) /\ ~(\E k \in Cleared : \A j \in Erred : j < k)
        BY <1>8, <1>9, <2>3, <3>6
      <4>2. CASE Clearing
        <5>1. knowledge'.notions[m] = "resolved" /\ last \in ClearedLater
          BY <1>3, <1>4, <1>5, <3>6, <4>2
        <5>2. Summarized(m)' = "resolved"
          BY <1>8, <2>1, <2>3, <3>3, <5>1
        <5>3. QED
          BY <1>7, <2>1, <2>3, <3>4, <4>2, <5>1, <5>2 DEF NotionKept
      <4>3. CASE ~Clearing
        <5>1. knowledge'.notions[m] = "active" /\ ClearedLater = Cleared
          BY <1>3, <1>4, <1>5, <1>11, <3>6, <4>3
        <5>2. Summarized(m)' = "active"
          BY <1>8, <2>1, <2>3, <4>1, <5>1
        <5>3. QED
          BY <1>7, <2>1, <2>3, <3>4, <4>1, <4>3, <5>1, <5>2 DEF NotionKept
      <4>4. QED
        BY <4>2, <4>3
    <3>7. QED
      BY <1>9, <2>3, <3>5, <3>6
  <2>4. QED
    BY <2>2, <2>3
<1>12. QED
  BY <1>10, <1>11

LEMMA CommittedKeeps ==
  ASSUME KnowledgeKept, NEW a \in Answers, Committed(a) PROVE KnowledgeKept'
<1>0. PICK event, read : event = answers[a].event /\ read = answers[a].read
  OBVIOUS
<1>1. /\ answers[a] # NoAnswer /\ evidence' = Append(evidence, event)
      /\ knowledge' = Applied(read, event) /\ contended' = (contended \/ read # knowledge)
      /\ answers' = [answers EXCEPT ![a] = NoAnswer]
  BY <1>0 DEF Committed
<1>2. KnowledgeTyped
  BY DEF KnowledgeKept
<1>3. answers[a] \in InProgress /\ read.count <= Len(evidence)
  BY <1>0, <1>1, <1>2 DEF KnowledgeTyped
<1>4. /\ read \in KnownState /\ event \in Happening
      /\ event.resolved = Resolved(read, event.observation, event.errors)
  BY <1>0, <1>3 DEF InProgress
<1>5. Applied(read, event) \in KnownState /\ Applied(read, event).count = read.count + 1
  BY <1>4, AppliedTyped
<1>6. PICK n \in Nat : n = Len(evidence) /\ evidence \in Seq(Happening)
  BY <1>2 DEF KnowledgeTyped
<1>7. /\ evidence' \in Seq(Happening) /\ Len(evidence') = n + 1
      /\ DOMAIN evidence = 1..n /\ DOMAIN evidence' = 1..n + 1 /\ evidence'[n + 1] = event
      /\ \A k \in 1..n : evidence'[k] = evidence[k]
  BY <1>1, <1>4, <1>6
<1>8. KnowledgeTyped'
  <2>1. knowledge' \in KnownState /\ knowledge'.count <= n + 1
    <3>1. read.count \in Nat
      BY <1>4 DEF KnownState
    <3>2. QED
      BY <1>1, <1>3, <1>5, <1>6, <3>1
  <2>2. answers' \in [Answers -> InProgress \cup {NoAnswer}]
    BY <1>1, <1>2 DEF KnowledgeTyped
  <2>3. ASSUME NEW b \in Answers, answers'[b] # NoAnswer PROVE answers'[b].read.count <= n + 1
    <3>1. answers'[b] = answers[b] /\ answers[b] # NoAnswer
      BY <1>1, <1>2, <2>3 DEF KnowledgeTyped
    <3>2. answers[b].read.count <= n /\ answers[b].read.count \in Nat
      <4>1. answers[b] \in InProgress
        BY <1>2, <3>1 DEF KnowledgeTyped
      <4>2. QED
        BY <1>2, <1>6, <3>1, <4>1 DEF KnowledgeTyped, InProgress, KnownState
    <3>3. QED
      BY <3>1, <3>2
  <2>4. contended' \in BOOLEAN
    BY <1>1, <1>2 DEF KnowledgeTyped
  <2>5. QED
    BY <1>7, <2>1, <2>2, <2>3, <2>4 DEF KnowledgeTyped
<1>9. (\E f : FoldIs(f))'
  <2>1. PICK f : FoldIs(f)
    BY DEF KnowledgeKept
  <2> DEFINE g == [k \in 0..n + 1 |-> IF k = n + 1 THEN Applied(f[n], event) ELSE f[k]]
  <2>2. /\ f \in [0..n -> KnownState] /\ \A k \in 0..n : f[k].count = k
        /\ ~contended => knowledge = f[n]
    BY <1>6, <2>1 DEF FoldIs
  <2>3. \A k \in 0..n : f[k] = IF k = 0 THEN Unknown ELSE Applied(f[k - 1], evidence[k])
    BY <1>6, <2>1 DEF FoldIs, Follows
  <2>4. Applied(f[n], event) \in KnownState /\ Applied(f[n], event).count = n + 1
    <3>1. n \in 0..n /\ f[n] \in KnownState /\ f[n].count = n
      BY <2>2
    <3>2. QED
      BY <1>4, <3>1, AppliedTyped
  <2>5. /\ g[n + 1] = Applied(f[n], event) /\ \A k \in 0..n : g[k] = f[k]
        /\ g = [k \in 0..n + 1 |-> g[k]]
    <3>1. n + 1 \in 0..n + 1 /\ \A k \in 0..n : k \in 0..n + 1 /\ k # n + 1
      OBVIOUS
    <3>2. QED
      BY <3>1
  <2> HIDE DEF g
  <2>6. \A k \in 0..n + 1 : k = n + 1 \/ k \in 0..n
    OBVIOUS
  <2>7. \A k \in 0..n + 1 : g[k] \in KnownState /\ g[k].count = k
    BY <2>2, <2>4, <2>5, <2>6
  <2>8. \A k \in 0..n + 1 : g[k] = IF k = 0 THEN Unknown ELSE Applied(g[k - 1], evidence'[k])
    <3> TAKE k \in 0..n + 1
    <3>1. CASE k = n + 1
      <4>1. k # 0 /\ k - 1 = n /\ n \in 0..n
        BY <3>1
      <4>2. g[k - 1] = f[n] /\ evidence'[k] = event
        BY <1>7, <2>5, <3>1, <4>1
      <4>3. QED
        BY <2>5, <3>1, <4>1, <4>2
    <3>2. CASE k \in 0..n /\ k # 0
      <4>1. k - 1 \in 0..n /\ k \in 1..n
        BY <3>2
      <4>2. g[k] = f[k] /\ g[k - 1] = f[k - 1] /\ evidence'[k] = evidence[k]
        BY <1>7, <2>5, <3>2, <4>1
      <4>3. QED
        BY <2>3, <3>2, <4>2
    <3>3. CASE k = 0
      <4>1. k \in 0..n
        BY <3>3
      <4>2. QED
        BY <2>3, <2>5, <3>3, <4>1
    <3>4. QED
      BY <2>6, <3>1, <3>2, <3>3
  <2>9. Follows(g, evidence')
    BY <1>7, <2>5, <2>8 DEF Follows
  <2>10. ~contended' => knowledge' = g[n + 1]
    BY <1>1, <2>2, <2>5
  <2>11. g \in [0..n + 1 -> KnownState]
    BY <2>5, <2>7
  <2>12. FoldIs(g)'
    BY <1>7, <2>7, <2>9, <2>10, <2>11 DEF FoldIs
  <2>13. QED
    BY <2>12
<1>10. ASSUME ~contended' PROVE Matching'
  <2>1. Matching /\ read = knowledge /\ knowledge \in KnownState /\ knowledge.count = n
    BY <1>1, <1>2, <1>6, <1>10 DEF KnowledgeKept, KnowledgeTyped, Matching
  <2> DEFINE o == event.observation
             w == event.weight
  <2>2. /\ o \in 0..100 /\ w \in Nat
        /\ \A k \in 1..n : evidence[k].observation \in 0..100 /\ evidence[k].weight \in Nat
    <3>1. \A k \in 1..n : evidence[k] \in Happening
      BY <1>6, <1>7
    <3>2. \A e \in Happening : e.observation \in 0..100 /\ e.weight \in Nat
      BY DEF Happening
    <3>3. QED
      BY <1>4, <3>1, <3>2
  <2>3. /\ knowledge'.count = n + 1 /\ knowledge'.weight = knowledge.weight + w
        /\ knowledge'.mass = Mass(knowledge, o, w)
        /\ knowledge'.correct = knowledge.correct + (IF o >= 70 THEN 1 ELSE 0)
    BY <1>1, <2>1 DEF Applied
  <2>4. knowledge'.weight = SumFunction(WeightOf')
    <3> DEFINE h == [k \in DOMAIN evidence' |-> evidence'[k].weight]
               g == [k \in DOMAIN evidence |-> evidence[k].weight]
    <3>1. WeightOf' = h /\ WeightOf = g
      BY DEF WeightOf
    <3>2. \A k \in 1..n + 1 : k = n + 1 \/ k \in 1..n
      OBVIOUS
    <3>3. h \in [1..n + 1 -> Nat] /\ h[n + 1] = w
      BY <1>7, <2>2, <3>2
    <3>4. g = [k \in 1..n |-> h[k]]
      BY <1>7
    <3> HIDE DEF h, g
    <3>5. SumFunction(h) = SumFunction(g) + h[n + 1]
      BY <3>3, <3>4, SumAppended
    <3>6. knowledge.weight = SumFunction(g)
      BY <2>1, <3>1 DEF Matching
    <3>7. QED
      BY <2>3, <3>1, <3>3, <3>5, <3>6
  <2>5. knowledge'.mass = SumFunction(MassOf')
    <3> DEFINE h == [k \in DOMAIN evidence' |-> evidence'[k].weight *
                       (IF k = 1 THEN CappedFirst(evidence'[k].observation)
                                 ELSE evidence'[k].observation)]
               g == [k \in DOMAIN evidence |-> evidence[k].weight *
                       (IF k = 1 THEN CappedFirst(evidence[k].observation)
                                 ELSE evidence[k].observation)]
               last == w * (IF n = 0 THEN CappedFirst(o) ELSE o)
    <3>1. MassOf' = h /\ MassOf = g
      BY DEF MassOf
    <3>2. \A k \in 1..n + 1 : k = n + 1 \/ k \in 1..n
      OBVIOUS
    <3>3. \A x \in 0..100 : CappedFirst(x) \in 0..100
      BY DEF CappedFirst
    <3>4. last \in Nat /\ h[n + 1] = last
      <4>1. n + 1 = 1 <=> n = 0
        OBVIOUS
      <4>2. \A x \in Nat, y \in 0..100 : x * y \in Nat
        OBVIOUS
      <4>3. n + 1 \in DOMAIN evidence'
        BY <1>7
      <4>4. h[n + 1] = last
        BY <1>7, <4>1, <4>3
      <4>5. QED
        BY <2>2, <3>3, <4>2, <4>4
    <3>5. \A k \in 1..n : h[k] = g[k] /\ g[k] \in Nat
      <4>1. \A x \in Nat, y \in 0..100 : x * y \in Nat
        OBVIOUS
      <4>2. \A k \in 1..n : k \in 1..n + 1
        OBVIOUS
      <4>3. QED
        BY <1>7, <2>2, <3>3, <4>1, <4>2
    <3>6. DOMAIN h = 1..n + 1 /\ DOMAIN g = 1..n
      BY <1>7
    <3>60. h = [k \in DOMAIN h |-> h[k]] /\ g = [k \in DOMAIN g |-> g[k]]
      OBVIOUS
    <3> HIDE DEF h, g, last
    <3>7. h \in [1..n + 1 -> Nat] /\ g = [k \in 1..n |-> h[k]]
      BY <3>2, <3>4, <3>5, <3>6, <3>60
    <3>8. SumFunction(h) = SumFunction(g) + h[n + 1] /\ SumFunction(g) \in Nat
      BY <3>7, SumAppended
    <3>9. knowledge.mass = SumFunction(g)
      BY <2>1, <3>1 DEF Matching
    <3>10. knowledge'.mass = SumFunction(g) + last
      <4>1. CASE n = 0
        <5>1. DOMAIN g = {} /\ SumFunction(g) = 0
          <6>1. g \in [{} -> Nat]
            BY <3>5, <3>6, <3>60, <4>1
          <6>2. QED
            BY <6>1, SumEmpty
        <5>2. knowledge'.mass = CappedFirst(o) * w
          BY <2>1, <2>3, <4>1 DEF Mass
        <5>3. last = w * CappedFirst(o)
          BY <4>1 DEF last
        <5>4. CappedFirst(o) * w = w * CappedFirst(o)
          <6>1. \A x, y \in Nat : x * y = y * x
            OBVIOUS
          <6>2. o \in 0..100 /\ w \in Nat
            BY <2>2
          <6> HIDE DEF o, w
          <6>3. CappedFirst(o) \in 0..100
            BY ONLY <3>3, <6>2
          <6>4. QED
            BY ONLY <6>1, <6>2, <6>3
        <5>5. QED
          BY <3>4, <5>1, <5>2, <5>3, <5>4
      <4>2. CASE n # 0
        <5>1. knowledge'.mass = knowledge.mass + o * w
          BY <2>1, <2>3, <4>2 DEF Mass
        <5>2. last = w * o
          BY <4>2 DEF last
        <5>3. o * w = w * o
          BY <2>2
        <5>4. QED
          BY <3>9, <5>1, <5>2, <5>3
      <4>3. QED
        BY <4>1, <4>2
    <3>11. QED
      BY <3>1, <3>4, <3>8, <3>10
  <2>6. knowledge'.correct = Cardinality(Right')
    <3>1. IsFiniteSet(Right)
      <4>1. Right \subseteq 1..n /\ IsFiniteSet(1..n)
        BY <1>7, FS_Interval DEF Right
      <4>2. QED
        BY <4>1, FS_Subset
    <3>2. \A k \in 1..n + 1 : k = n + 1 \/ k \in 1..n
      OBVIOUS
    <3>3. Right' = IF o >= 70 THEN Right \cup {n + 1} ELSE Right
      <4>1. Right' = {k \in 1..n + 1 : evidence'[k].observation >= 70}
        BY <1>7 DEF Right
      <4>2. Right = {k \in 1..n : evidence[k].observation >= 70}
        BY <1>7 DEF Right
      <4>3. \A k \in 1..n : k \in 1..n + 1
        OBVIOUS
      <4>4. n + 1 \in 1..n + 1
        OBVIOUS
      <4>5. QED
        BY <1>7, <3>2, <4>1, <4>2, <4>3, <4>4
    <3>4. n + 1 \notin Right
      BY <1>7 DEF Right
    <3>5. Cardinality(Right \cup {n + 1}) = Cardinality(Right) + 1
      BY <3>1, <3>4, FS_AddElement
    <3>6. knowledge.correct = Cardinality(Right) /\ Cardinality(Right) \in Nat
      BY <2>1, <3>1, FS_CardinalityType DEF Matching
    <3>7. QED
      BY <2>3, <3>3, <3>5, <3>6
  <2>7. ASSUME NEW m \in Misconceptions PROVE NotionKept(m)'
    <3>1. NotionKept(m)
      BY <2>1 DEF Matching
    <3>2. /\ knowledge' = Applied(knowledge, event)
          /\ event.resolved = Resolved(knowledge, event.observation, event.errors)
      BY <1>1, <1>4, <2>1
    <3>3. QED
      BY <1>1, <1>4, <1>6, <2>1, <3>1, <3>2, NotionNext
  <2>8. QED
    BY <1>7, <2>3, <2>4, <2>5, <2>6, <2>7 DEF Matching
<1>11. QED
  BY <1>8, <1>9, <1>10 DEF KnowledgeKept

LEMMA KnowledgeSteps ==
  ASSUME KnowledgeKept, [NextKnowledge]_knowledgeVars PROVE KnowledgeKept'
<1>1. ASSUME NEW a \in Answers, Analyzed(a) \/ Committed(a) \/ AnswerLost(a)
      PROVE  KnowledgeKept'
  BY <1>1, AnalyzedKeeps, CommittedKeeps, LostKeeps
<1>2. ASSUME UNCHANGED knowledgeVars PROVE KnowledgeKept'
  <2>1. evidence' = evidence /\ knowledge' = knowledge /\ answers' = answers /\ contended' = contended
    BY <1>2 DEF knowledgeVars
  <2>2. KnowledgeTyped'
    BY <2>1 DEF KnowledgeKept, KnowledgeTyped
  <2>3. (\E f : FoldIs(f)) => (\E f : FoldIs(f))'
    BY <2>1 DEF FoldIs
  <2>4. Matching => Matching'
    BY <2>1 DEF Matching, WeightOf, MassOf, Right, NotionKept, ErredOn, Mended, Clean, Summarized
  <2>5. QED
    BY <2>1, <2>2, <2>3, <2>4 DEF KnowledgeKept
<1>3. QED
  BY <1>1, <1>2, RebuiltKeeps DEF NextKnowledge

LEMMA KnowledgeIsMatched == ASSUME KnowledgeKept PROVE StateMatchesEvidence
<1>1. KnowledgeTypeOK
  <2>1. knowledge \in KnownState /\ knowledge.count <= Len(evidence)
    BY DEF KnowledgeKept, KnowledgeTyped
  <2>2. knowledge.mass \in 0..(100 * knowledge.weight)
    BY <2>1 DEF KnownState
  <2>3. \A m \in Misconceptions : knowledge.notions[m] \in {"none", "active", "resolved"}
    BY <2>1 DEF KnownState
  <2>4. QED
    BY <2>1, <2>2, <2>3 DEF KnowledgeTypeOK
<1>2. ~contended => Matching
  BY DEF KnowledgeKept
<1>3. QED
  BY <1>1, <1>2 DEF StateMatchesEvidence, Matching, WeightOf, MassOf, Right, NotionKept, ErredOn,
                    Mended

\* Whatever answers are given, lost or rebuilt from, the state of knowledge and
\* the summary are what the evidence amounts to, unless answers overlapped; and
\* what is recorded and reported of each answer is what was found in it
\* (cognitive.py:253-500, analyzer.py:240-425, reporter.py:36-475).
THEOREM AnswersAreWeighed == SpecKnowledge /\ SpecAssessment => []AnswersWeighed
<1>1. InitKnowledge /\ InitAssessment => KnowledgeKept /\ AssessmentKept
  BY KnowledgeStarts, AssessmentStarts
<1>2. KnowledgeKept /\ [NextKnowledge]_knowledgeVars => KnowledgeKept'
  BY KnowledgeSteps
<1>3. AssessmentKept /\ [NextAssessment]_assessmentVars => AssessmentKept'
  BY AssessmentSteps
<1>4. KnowledgeKept /\ AssessmentKept => AnswersWeighed
  BY KnowledgeIsMatched, AnswersAreJudged, AssistanceIsApart DEF AnswersWeighed, AssessmentSound
<1>5. QED
  BY <1>1, <1>2, <1>3, <1>4, PTL DEF SpecKnowledge, SpecAssessment
=============================================================================
