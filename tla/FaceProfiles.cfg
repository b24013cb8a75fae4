SPECIFICATION Spec
CONSTANTS
    Numbers <- Seen
    Students <- Known
    Active <- OnlyFirst
    Uploads = {u1, u2}
    Scripts = {k1}
    Checks = {c1}
    Folders <- TwoFolders
    MaxRestarts = 1
INVARIANTS ReadinessHonest ReportTrue
PROPERTY ReferenceKept
CHECK_DEADLOCK FALSE
