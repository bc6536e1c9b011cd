\* Any two document requests beside legal-hold requests on overlapping holds, of which those that place or extend a hold may overlap.
SPECIFICATION Spec
CONSTANTS
    Docs = {d1}
    Holds = {h1, h2}
    Users = {alice}
    Admins = {}
    DocRequests = {r1, r2}
    HoldRequests = {c1, c2}
    MaxVersions = 3
    None = None
SYMMETRY MCSymmetry
CONSTRAINT OnlyPlacingOverlaps
INVARIANTS
    FlagInSync
    VersionsInOrder

    
