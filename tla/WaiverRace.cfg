SPECIFICATION Spec
CONSTANTS
    NoTime = NoTime
    Students = {s1}
    Batches = {}
    SchedStart = 1
    SchedEnd = 3
    Grace = 0
    Policy <- WindowPolicy
    DefaultLate = 1
    Validity = 1
    MaxGeofenceAttempts = 2
    MaxFaceAttempts = 1
    Requests <- FaceRequests
    Rosters <- FullRoster
    ManualStatuses = {}
    MaxTime = 4
    MaxCalls = 1
CHECK_DEADLOCK FALSE
INVARIANT NoLocationLockout
