SPECIFICATION SpecAll
CONSTANTS
    Learners = {lea}
    Anonymous = nobody
    Calls = {c1, c2}
    Surfaces = {"learner", "workbench"}
    NQuestions = 2
    QuestionLimit = 2
    Followups = 1
    Settings <- MCSettings
    Edits <- MCEdits
    MaxAttempts = 1
    Capacity = 1
    MaxSessions = 2
    MaxTurns = 4
    MaxTime = 2
    Tasks = {c1, c2}
    MaxPrompts = 2
    MaxItems = 1
    MaxTries = 2
    Templates = {"thesis", "sales"}
    Pages = {"p1", "p2"}
    Profiles <- MCProfiles
    Measures <- MCMeasures
    Handlers = {c1, c2}
    Text <- MCText
    Needed = 3
    MaxPapers = 2
    MaxFailures = 2
    MaxReloads = 1
INVARIANTS
    ExaminationSound  TranscriptSound AuthoredSound LearnerServed
PROPERTIES
    CompletedIsFinal
SYMMETRY CallSymmetry
CHECK_DEADLOCK FALSE
