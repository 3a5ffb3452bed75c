SPECIFICATION BookSpec
CONSTANTS
    Coins <- OneCoin
    Strategies <- OneStrategy
    Pairs <- OnePair
    Manager = manager
    Handlers = {}
    Requests = {"pause", "resume", "toggle"}
    MaxPos = 2
    MaxPosStrat = 2
    MaxPosCoin = 2
    StartBalance = 1
    DailyLimit = 2
    CircuitPct = 80
    MaxConsec = 3
    Pnls <- WinOrLoss
    MaxTrades = 3
    LastDay = 1
    MaxFaults = 2
    None = none
INVARIANT EquityIsSum
INVARIANT LeakAtMostOne
PROPERTY ImplementsLedger
