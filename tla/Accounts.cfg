SPECIFICATION Spec
CONSTANTS
    c1 = c1
    c2 = c2
    c3 = c3
    e1 = e1
    e2 = e2
    n1 = n1
    n2 = n2
    Admins = {a1, a2}
    Calls = {c1, c2, c3}
    Email <- Addresses
    Number <- Numbers
    Updates = {p1, p2}
    MaxFaults = 2
INVARIANTS AccountsUsable NothingLeftBehind SomeoneAdministers
SYMMETRY Alike
CHECK_DEADLOCK FALSE
