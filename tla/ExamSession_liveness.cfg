SPECIFICATION FairSpec
CONSTANTS
    s1 = s1
    Questions = {q1}
    Sections = {}
    CodingFields = {}
    SectionOf <- OutsideSections
    NoSection = NoSection
    Flushers = {f1}
    Submitters = {}
    JobRunners = {j1}
    NoOne = NoOne
    Nobody = Nobody
    ExamKind = "live"
    HasDeadline = TRUE
    LockMayExpire = FALSE
    ClientResaves = FALSE
    MaxSaves = 1
    MaxAttempts = 2
    MaxFails = 1
    MaxCrashes = 1
    MaxReopens = 1
PROPERTIES
    DeadlineCloses
    
    CompletionFollowedUp
