\* The first job and one replay, two attempts each, one failure.
SPECIFICATION DeliverySpec
CONSTANTS
    First = First
    Replays = {Replay}
    MaxAttempts = 2
    MaxFailures = 1
INVARIANTS
    DeliveryTypeOK
    EveryPostLogged
    CompletedIsFinal
PROPERTIES
    FinalStatusStays
    EveryJobEnds
CHECK_DEADLOCK FALSE
