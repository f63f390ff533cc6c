SPECIFICATION SafeSpec
CONSTANTS
    EntryRequests = {r1, r2}
    NoOne = NoOne
    Nobody = Nobody
    LinkedExams = {TRUE, FALSE}
    MaxAttempts = 2
    LockMayExpire = FALSE
    StartMayBeSlow = FALSE
    MaxEntries = 4
    MaxReopens = 1
    MaxEntryCrashes = 0
    Sockets = {r1, r2, s3}
    Unkicked = Unkicked
    Gateways = {"go", "nest"}
    MaxFailures = 1
    EditRequests = {r1, r2}
    FirstSize = 1
    SecondSize = 1
    MaxPosition = 0
    MaxEdits = 3
    MaxBuilds = 1
    MaxEditFails = 1
    Subscriptions = {n1, n2}
    NoSubscription = NoSubscription
    Deliveries = {r1, r2}
    MaxEvents = 2
    MaxSyncs = 1
    MaxBillingFaults = 1
SYMMETRY Interchangeable
INVARIANTS
    StartsNumbered
    
    
    EventsSettle
PROPERTIES
    BuilderEditsStay
CHECK_DEADLOCK FALSE
