SPECIFICATION FadeSpec
CONSTANTS
    Prints <- Plain
    Threshold = 2
    Window = 5
    Wait = 3
    MaxAge = 12
    Gap = 60
    Buffer = 10
    Lag = 1
    Span = 4
    MaxTime = 70
    MaxTrades = 2
    MaxFaults = 0
PROPERTY DeclaredIsFaded
CHECK_DEADLOCK FALSE
