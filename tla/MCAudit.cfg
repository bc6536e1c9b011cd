\* Calls of two processes that overlap, restart and lose answers, beside declared records and modified rows, up to MaxEvents.
SPECIFICATION Spec
CONSTANTS
    Processes = {api, worker}
    Calls = {c1, c2}
    Faults = {"overlap", "restart", "lost answer", "declare", "corrupt"}
    MaxFaults = 2
    MaxEvents = 4
    Limit = 10
    None = None
INVARIANTS
    BrokenIffUnsound
    AllLinked
CHECK_DEADLOCK FALSE
