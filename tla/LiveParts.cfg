SPECIFICATION PartsSpec
CONSTANTS
    Jobs = {j1, j2}
    JobLimit = 1
    HoldMayExpire = FALSE
    MaxFails = 1
    MaxCrashes = 1
    MaxCancels = 1
    QueueHandlers = {h1, h2}
    Workers = {w1, w2}
    QueueCapacity = 2
    MaxQueueEvents = 4
    Keys = {k1, k2}
    InOrder = {TRUE, FALSE}
    MaxTyped = 2
    MaxFaults = 2
    SocketIds = {i1, i2, i3}
    NoSocket = NoSocket
    MaxReconnectAttempts = 2
    MaxAuthRetries = 1
    MaxRemounts = 3
    EntryRequests = {r1, r2}
    NoOne = NoOne
    Nobody = Nobody
    LinkedExams = {TRUE, FALSE}
    MaxAttempts = 2
    LockMayExpire = TRUE
    StartMayBeSlow = TRUE
    MaxEntries = 3
    MaxReopens = 0
    MaxEntryCrashes = 1
    Units = {u1, u2}
    Questions = {c1}
    VirtualUnits = {v1}
    Course = Course
    Threshold = 100
    Concurrency = 2
    MaxEnqueued = 4
    MaxJobFaults = 1
    Exams = {x1}
    Rotators = {b1, b2}
    Interval = 3
    CatalogTtl = 2
    LockMayLapse = TRUE
    MaxExamEdits = 1
    MaxRotationFaults = 1
INVARIANTS
    PartsInv
    SlotsRespected
    RunsPaidOnce
    OneConnection
    OneLiveSession
    RewardsAreEarned
PROPERTIES
    
    LogSpec
    CloseReturns
    NoRollback
    EventuallySaved
    ConnectsUnlessKicked
    EntryReturns
    CourseSettles
    
    KeepsRotating
CHECK_DEADLOCK FALSE
