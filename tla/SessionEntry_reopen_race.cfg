SPECIFICATION EntrySpec
CONSTANTS
    EntryRequests = {r1}
    NoOne = NoOne
    Nobody = Nobody
    LinkedExams = {TRUE}
    MaxAttempts = 2
    LockMayExpire = FALSE
    StartMayBeSlow = FALSE
    MaxEntries = 2
    MaxReopens = 1
    MaxEntryCrashes = 0
INVARIANTS
    OneLiveSession
CHECK_DEADLOCK FALSE
