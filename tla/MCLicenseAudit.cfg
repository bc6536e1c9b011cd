\* Calls that overlap and lose answers, restarts, late and failed rehydrations, modified rows, up to MaxEvents.
SPECIFICATION Spec
CONSTANTS
    Calls = {c1, c2}
    Metadata <- AllMetadata
    Faults = {"overlap", "restart", "late rehydration", "failed rehydration", "lost answer", "corrupt"}
    MaxFaults = 2
    MaxEvents = 3
    Limit = 10
    None = None
INVARIANTS
    BrokenIffUnsound
PROPERTIES
    GrowsAtEnd
CHECK_DEADLOCK FALSE
