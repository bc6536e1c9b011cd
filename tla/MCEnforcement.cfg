\* Two processes that send heartbeats, one of them with two requests to validate.
SPECIFICATION Spec
CONSTANTS
    Crons = {c1, c2}
    Requests = {g1, g2}
    Grace = 1
    Extended = 1
    Window = 1
    Threshold = 2
    Perpetual = FALSE
    MaxLost = 1

    
PROPERTIES
    ReopensWhenAnswered
