SPECIFICATION FairSpec
CONSTANTS
    Coins <- OneCoin
    Strategies <- OneStrategy
    Pairs <- OnePair
    Manager = manager
    Handlers = {}
    Requests = {"pause", "resume", "toggle"}
    MaxPos = 2
    MaxPosStrat = 2
    MaxPosCoin = 2
    StartBalance = 2
    DailyLimit = 2
    CircuitPct = 50
    MaxConsec = 2
    Pnls <- WinOrLoss
    MaxTrades = 3
    LastDay = 2
    MaxFaults = 1
    None = none
PROPERTY CircuitLatches
PROPERTY EveryTradeCloses
