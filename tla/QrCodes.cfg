SPECIFICATION FairSpec
CONSTANTS
    s1 = s1
    r1 = r1
    r2 = r2
    Streams = {s1}
    Scans = {r1, r2}
    Parties <- ScreenOrScans
    Interval = 2
    Validity = 4
    SchedEnd = 5
    MaxTtl = 1
    MaxDelay = 1
    MaxTime = 5
    NoMeta = NoMeta
    NoTime = NoTime
INVARIANTS AcceptedOnce
PROPERTIES AcceptedWasCurrent CodesShown RetriesAccepted StreamsEnd
CHECK_DEADLOCK FALSE
