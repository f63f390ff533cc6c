SPECIFICATION Spec
CONSTANTS
    s1 = s1
    Questions = {q1}
    Sections = {}
    CodingFields = {}
    SectionOf <- OutsideSections
    NoSection = NoSection
    Flushers = {f1}
    Submitters = {}
    JobRunners = {}
    NoOne = NoOne
    Nobody = Nobody
    ExamKind = "live"
    HasDeadline = TRUE
    LockMayExpire = FALSE
    ClientResaves = FALSE
    MaxSaves = 2
    MaxAttempts = 2
    MaxFails = 0
    MaxCrashes = 0
    MaxReopens = 0
INVARIANTS
    LateAnswersNotPersisted
