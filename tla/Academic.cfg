SPECIFICATION Spec
CONSTANTS
    Offerings = {o1, o2}
    Lecturers = {l1, l2}
    Students = {s1, s2}
    Entries = {e1}
    Sessions = {n1, n2}
    n1 = n1
    n2 = n2
    WeekOf <- TwoWeeks
    TrendWeeks = 1
    Requests = {r1}
    k1 = k1
    k2 = k2
    OfferingRows <- SomeRows
    NoThreshold = NoThreshold
    NoTime = NoTime
    Outcomes <- SomeOutcomes
    ManualStatuses <- SomeStatuses
    MaxActs = 2
INVARIANTS
    OneLecturer
    ClassesCountedOnce
    PagesAgree
PROPERTIES
    DecidedOnce
SYMMETRY Interchangeable
CHECK_DEADLOCK FALSE
