SPECIFICATION FillsSpec
CONSTANTS
    None = None
    Prices <- MCPrices
    Levels <- MCLevels
    Minute = 1
    CandleBuffer = 2
    Period = 1
    MaxTime = 3
    MaxPrints = 4
    SlipBase = 5
    SlipPerVol = 30
    FeeBps = 4
    TimeStop = 1
    Equities = {100, 200}
    RiskPct = 2
    MaxPositionUsd = 6
    MaxLeverage = 3
    MaxTrades = 1
    MaxFaults = 1
INVARIANT FillsTypeOK
INVARIANT BarsAreTheTrades
INVARIANT StopIsALoss
INVARIANT ExcursionCoversExit
INVARIANT SizeWithinRisk
CHECK_DEADLOCK FALSE
