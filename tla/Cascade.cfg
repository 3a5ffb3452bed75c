SPECIFICATION FadeSpec
CONSTANTS
    Prints <- AllShapes
    Threshold = 1
    Window = 4
    Wait = 3
    MaxAge = 3
    Gap = 2
    Buffer = 3
    Lag = 1
    Span = 5
    MaxTime = 8
    MaxTrades = 4
    MaxFaults = 1
INVARIANT FadeTypeOK
INVARIANT OneSignalPerCascade
INVARIANT QuietBeforeSignal
INVARIANT SignalOnEvidence
INVARIANT CountersAgree
PROPERTY NoCascadeOverlooked
CHECK_DEADLOCK FALSE
