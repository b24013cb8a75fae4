SPECIFICATION Spec
CONSTANTS
    NoTime = NoTime
    Students = {s1}
    Batches = {b1, b2}
    SchedStart = 0
    SchedEnd = 2
    Grace = 0
    Policy <- NoPolicy
    DefaultLate = 1
    Validity = 1
    MaxGeofenceAttempts = 1
    MaxFaceAttempts = 1
    Requests <- QrRequests
    Rosters <- FullRoster
    ManualStatuses = {}
    MaxTime = 2
    MaxCalls = 2
CHECK_DEADLOCK FALSE
SYMMETRY BatchSymmetry
INVARIANTS
    RecordsMatchEvidence
    OneLiveBatch
    ScreensMatchDecision
PROPERTIES
    ScansLandOpen
    AskedWhenTold
