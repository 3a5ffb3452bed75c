SPECIFICATION ListenerFairSpec
CONSTANTS
    Timeout = 3
    MaxFaults = 2
INVARIANT ListenerTypeOK
INVARIANT SilenceIsRefused
PROPERTY NeverStuck
