SPECIFICATION Spec
CONSTANTS
    s1 = s1
    Questions = {q1}
    Sections = {}
    CodingFields = {c1}
    SectionOf <- OutsideSections
    NoSection = NoSection
    Flushers = {f1}
    Submitters = {h1}
    JobRunners = {j1}
    NoOne = NoOne
    Nobody = Nobody
    ExamKind = "course"
    HasDeadline = TRUE
    LockMayExpire = FALSE
    ClientResaves = FALSE
    MaxSaves = 1
    MaxAttempts = 2
    MaxFails = 0
    MaxCrashes = 0
    MaxReopens = 1
INVARIANTS
    ScoreMatchesAnswers
PROPERTIES
    CompletedIsFinal
    
    KeepsLifecycle
