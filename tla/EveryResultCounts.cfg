SPECIFICATION Spec
CONSTANTS
    Coins <- OneCoin
    Strategies <- OneStrategy
    Pairs <- OnePair
    Manager = manager
    Handlers = {h1}
    Requests = {"pause"}
    MaxPos = 2
    MaxPosStrat = 2
    MaxPosCoin = 2
    StartBalance = 4
    DailyLimit = 2
    CircuitPct = 50
    MaxConsec = 2
    Pnls <- OnlyLoss
    MaxTrades = 3
    LastDay = 1
    MaxFaults = 0
    None = none
INVARIANT EveryResultCounts
