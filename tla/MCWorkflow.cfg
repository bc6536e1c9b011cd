\* Two users (one of them an administrator) and the cron, one request may fail.
SPECIFICATION Spec
CONSTANTS
    u1 = u1
    u2 = u2
    Users = {u1, u2}
    Admins = {u2}
    Definition <- LateBranch
    MaxSubmits = 3
    MaxFailures = 1
    None = None
INVARIANTS
    TypeOK
    CompletedAtTheEnd
    EveryBranchPassed
    StuckOnlyIf
PROPERTIES
    EndIsFinal
CHECK_DEADLOCK FALSE
