\* Chunks and completions overlap, repeat, are damaged and die, up to MaxRequests.
SPECIFICATION Spec
CONSTANTS
    TotalParts = 2
    Chunkers = {u1, u2}
    Completers = {c1, c2}
    Chunks <- Anything
    Checks = {TRUE, FALSE}
    MaxRequests = 6
    None = None
SYMMETRY MCSymmetry
INVARIANTS
    ActiveIffVersion
    
    VersionAsDeclared
    ListedIsStored

    
CHECK_DEADLOCK FALSE
