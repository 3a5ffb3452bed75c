SPECIFICATION ListenerSpec
CONSTANTS
    Timeout = 2
    MaxFaults = 0
INVARIANT StaleMeansSilent
