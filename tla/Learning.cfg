SPECIFICATION Spec
CONSTANTS
    Evidence = {"answer"}
    ConceptOf <- MCConceptOf
    SubjectOf <- MCSubjectOf
    Writers = {w1, w2}
    Items = {item}
    Deletions = {d1, d2}
    Scopes <- MCScopes
    MaxEvents = 3
    MaxRetests = 2
    Callers = {v1, v2}
    MaxTranscripts = 2
    MaxConnects = 2
    Answers = {"n1", "n2"}
    Qualities = {95}
    Weights = {0, 10}
    Misconceptions = {"off by one"}
    MaxEvidence = 3
    Handlers = {v1, v2}
    MaxVoices = 2
    MaxToggles = 2
    MaxStream = 6
    MaxRepeats = 1
    Criteria = {"claim", "reason"}
    Topics = {"loops", "proofs"}
    OpenTopics = {"proofs"}
    Sourced = {"loops"}
    Wordings = {"worded"}
    Findings <- MCFindings
    Labels = {"insufficient"}
    Relevances = {50, 90}
    Marks = {100}
    Aims <- MCAims
    Blends = {"report_separately", "blend_with_independent"}
    MaxAnswers = 3
INVARIANTS
    MemorySound
    TranscriptsSettled 
    VoiceKept SignalsSound
SYMMETRY LearningSymmetry
CHECK_DEADLOCK FALSE
