SPECIFICATION LiveFairSpec
CONSTANTS
    Requests = {"pause", "resume", "clear_pause", "disarm", "emergency"}
    Settings <- MCSettings
    MaxOrders = 3
    MaxFaults = 2
INVARIANT LiveTypeOK
INVARIANT OrderIsLegitimate
INVARIANT GateInv
INVARIANT PositionsAreRecorded
INVARIANT CapableIsControlled
INVARIANT ReasonMeansPaused
INVARIANT DisarmLeaksAtMostOne
PROPERTY OneExitPerArming
PROPERTY OrphanPausesBot
