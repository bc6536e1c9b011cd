\* Three folders, one document, two requests at a time, five in all.
SPECIFICATION FoldersSpec
CONSTANTS
    Folder = {f1, f2, f3}
    DocIds = {d}
    Names <- SomeNames
    Requests = {r1, r2}
    NoId = NoId
    MaxRequests = 5
SYMMETRY Interchangeable
INVARIANTS
    PathsFollowTree
    
CHECK_DEADLOCK FALSE
