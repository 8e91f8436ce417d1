----------------------------- MODULE MCLearning -----------------------------
(***************************************************************************)
(* What examinations leave behind, checked in one run: the long-term       *)
(* memory of a learner, a voice session, the page it is held on, the       *)
(* signals of its provider, the knowledge of a session and the judgement   *)
(* and report of its answers.  They share no state, so every behaviour     *)
(* takes the steps of one of them; those of the memory are split by the    *)
(* operations that meet.                                                   *)
(***************************************************************************)
EXTENDS LearnerMemory, VoiceSession, VoiceClient, RealtimeSignals, SessionAnswers, TLC

VARIABLE part  \* the part whose steps a behaviour takes

learningVars == <<part, memoryVars, voiceVars, knowledgeVars, deskVars, signalVars, assessmentVars>>

MCConceptOf == "answer" :> "loops"
MCSubjectOf == "answer" :> "course"
MCScopes == [kind : {"preference", "all_long_term_memory", "identity_and_memory"}, target : {"none"}]
            \cup {[kind |-> "concept", target |-> "loops"], [kind |-> "project_link", target |-> "course"]}

Init ==
    /\ part \in {"retests", "erasing", "replacing", "holding", "voice", "knowledge", "voicepage", "signals",
                "assessment"}
    /\ InitMemory /\ InitVoice /\ InitKnowledge /\ InitDesk /\ InitSignals /\ InitAssessment
    /\ part # "voicepage" => provider = "openai"
    /\ part # "assessment" => blend = "blend_with_independent"
    /\ part # "signals" => identified /\ naming = "response"

Only(ops) == \A w \in Writers : writers'[w].op \in ops \cup {"idle", "import", "enqueue"}
OneDeletion(kinds) ==
    \A a, b \in Deletions :
        audits'[a] # NoAudit => audits'[a].scope.kind \in kinds /\ (audits'[b] # NoAudit => a = b)

\* Planning and taking retests while events are corrected and states rebuilt.
Retesting == Only({"rebuild", "correction", "plan", "decision", "start", "outcome"}) /\ UNCHANGED links

\* Deleting while retests are planned and taken.
Erasing ==
    /\ Only({"rebuild", "plan", "decision", "start", "outcome", "deletion"})
    /\ OneDeletion({"project_link", "identity_and_memory"})
    /\ appended' <= 1 /\ UNCHANGED mapping
    /\ \A s \in Subjects : links'[s] # "revoked"

\* Deleting while events are corrected, states rebuilt and the memory exported.
Replacing ==
    /\ Only({"correction", "rebuild", "export", "deletion"})
    /\ OneDeletion({"concept", "all_long_term_memory"})
    /\ appended' <= 2 /\ UNCHANGED mapping

\* Two deletions and their retries, while settings are saved.
Holding ==
    /\ Only({"preference", "settings", "deletion"})
    /\ \A a \in Deletions : audits'[a] # NoAudit =>
          audits'[a].scope.kind \in {"preference", "all_long_term_memory"}
    /\ appended' <= 1 /\ UNCHANGED <<mapping, links>>

Finds(status, match, satisfied, conflict) ==
    [status |-> status, match |-> match, alternative |-> FALSE, functional |-> satisfied,
     issue |-> satisfied, conflict |-> conflict]
MCFindings == {Finds("missing", "none", TRUE, FALSE), Finds("partial", "partial", FALSE, FALSE),
               Finds("contradicted", "equivalent", TRUE, TRUE)}
MCAims == {[topics |-> {"loops"}, weight |-> 2, required |-> "answer"],
           [topics |-> {"loops", "proofs"}, weight |-> 1, required |-> "document"]}

\* Only the first answer may be of little relevance, or its judgement broken,
\* and the third covers everything: what it can make of the report is then the
\* most.
FullAtLast ==
    /\ judged'.at = "correcting" => turns = <<>>
    /\ judged'.at \in {"judged", "adjudicating"} =>
        /\ Len(turns) >= 1 => judged'.relevance = 90
        /\ Len(turns) = 2 =>
              judged'.direct /\ ~judged'.errors /\ \A p \in DOMAIN judged'.points : judged'.points[p] = "covered"

Next ==
    /\ part' = part
    /\ \/ /\ NextMemory
          /\ CASE part = "retests"   -> Retesting
               [] part = "erasing"   -> Erasing
               [] part = "replacing" -> Replacing
               [] part = "holding"   -> Holding
               [] OTHER              -> FALSE
          /\ UNCHANGED <<voiceVars, knowledgeVars, deskVars, signalVars, assessmentVars>>
       \/ /\ part = "voice" /\ NextVoice
          /\ UNCHANGED <<memoryVars, knowledgeVars, deskVars, signalVars, assessmentVars>>
       \/ /\ part = "knowledge" /\ NextKnowledge
          /\ UNCHANGED <<memoryVars, voiceVars, deskVars, signalVars, assessmentVars>>
       \/ /\ part = "voicepage" /\ ~met /\ NextDesk
          /\ UNCHANGED <<memoryVars, voiceVars, knowledgeVars, signalVars, assessmentVars>>
       \/ /\ part = "signals" /\ NextSignals
          /\ UNCHANGED <<memoryVars, voiceVars, knowledgeVars, deskVars, assessmentVars>>
       \/ /\ part = "assessment" /\ NextAssessment /\ FullAtLast
          /\ UNCHANGED <<memoryVars, voiceVars, knowledgeVars, deskVars, signalVars>>

\* Requests are interchangeable, and so are deletions.  Callers and handlers are
\* the same values: no behaviour has both.
LearningSymmetry == Permutations(Writers) \cup Permutations(Deletions)
                    \cup Permutations(Callers)

Spec == Init /\ [][Next]_learningVars
=============================================================================
