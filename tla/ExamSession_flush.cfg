SPECIFICATION Spec
CONSTANTS
    s1 = s1
    Questions = {q1}
    Sections = {s1}
    CodingFields = {}
    SectionOf <- InOneSection
    NoSection = NoSection
    Flushers = {f1, f2}
    Submitters = {}
    JobRunners = {}
    NoOne = NoOne
    Nobody = Nobody
    ExamKind = "live"
    HasDeadline = FALSE
    LockMayExpire = FALSE
    ClientResaves = TRUE
    MaxSaves = 2
    MaxAttempts = 2
    MaxFails = 1
    MaxCrashes = 0
    MaxReopens = 1
SYMMETRY FlusherSymmetry
INVARIANTS
    FlushesExclusive
    NoAnswerLost
    NoDuplicateAttempt
    SectionBatchLands
PROPERTIES
    RowOnlyAdvances
