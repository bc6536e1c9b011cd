\* Two requests at a time, five in all, one of which may die.
SPECIFICATION Spec
CONSTANTS
    Deployments = {d1, d2, d3}
    Offline = {d1}
    Requests = {r1, r2}
    MaxDevices = 1
    FirstEnd = 0
    LastDay = 1
    MaxRequests = 5
    MaxFailures = 1
    None = None
INVARIANTS
    RevokedIffListed
    PropagatedWasPublished
    OverrunBounded
    
    FulfilledHasCertificate
PROPERTIES
    RevokedForGood
CHECK_DEADLOCK FALSE
