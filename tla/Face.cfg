SPECIFICATION FairSpec
CONSTANTS
    NoTime = NoTime
    Students = {s1}
    Batches = {}
    SchedStart = 1
    SchedEnd = 3
    Grace = 0
    Policy <- WindowPolicy
    DefaultLate = 1
    Validity = 2
    MaxGeofenceAttempts = 2
    MaxFaceAttempts = 2
    Requests <- MixedRequests
    Rosters <- AnyRoster
    ManualStatuses = {"late"}
    MaxTime = 4
    MaxCalls = 2
CHECK_DEADLOCK FALSE
INVARIANTS
    RecordsMatchEvidence
    CheckInsEarned
    AttemptLimits
    OfferKept
PROPERTIES
    CheckInStands
    FailureStands
    LockoutsMeetTheWaiver
    NobodyLeftBehind
    LedgerKept
    RosterDecided
