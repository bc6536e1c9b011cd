\* One request at a time: the contract of the handlers.
SPECIFICATION Spec
CONSTANTS
    Docs = {d1}
    Holds = {h1, h2}
    Users = {alice, root}
    Admins = {root}
    DocRequests = {r1}
    HoldRequests = {r1}
    MaxVersions = 3
    None = None
PROPERTIES
    HeldDocumentFrozen
    CheckoutRespected
    ImplementsPolicy
