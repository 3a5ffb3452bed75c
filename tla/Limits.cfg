SPECIFICATION AccountSpec
CONSTANTS
    Coins <- TwoCoins
    Strategies <- BothStrategies
    Pairs <- CodePairs
    Manager = manager
    Handlers = {h1}
    Requests = {"pause"}
    MaxPos = 2
    MaxPosStrat = 2
    MaxPosCoin = 1
    StartBalance = 4
    DailyLimit = 2
    CircuitPct = 50
    MaxConsec = 2
    Pnls <- OnlyLoss
    MaxTrades = 3
    LastDay = 2
    MaxFaults = 0
    None = none
INVARIANT TypeOK
INVARIANT PositionLimits
INVARIANT EmergencyLeavesAtMostOne
INVARIANT AccountOfKept
