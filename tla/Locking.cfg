SPECIFICATION FairSpec
CONSTANTS
    r1 = r1
    l1 = l1
    w1 = w1
    StudentRequests = {r1}
    LecturerRequests = {l1}
    Schedulers = {w1}
    SessionCount = 2
    MaxSessionsPerScan = 2
INVARIANTS
    DeadlocksArePairs
PROPERTIES
    RosterStable
    OverdueClosed
CHECK_DEADLOCK FALSE
