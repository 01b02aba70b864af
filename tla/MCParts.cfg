SPECIFICATION PartsSpec
CONSTANTS
    Order = {o1, o2}
    FillId = {f1, f2, f3}
    Symbol = {btc}
    Group = {g1, g2}
    Body = {b1, b2}
    MaxQty = 2
    MaxAttempts = 2
    Trade = {t1, t2}
    Day = {d1}
    TradeOrder = {p1, p2}
    Reason = {stop, target}
    HoldReason = {mismatch, attempts}
    Pnl <- MCPnl
    MaxTrades = 2
    LossLimit = 2
    MaxAbsPnl = 2
    Cleared = Cleared
    None = None
    Venues = {"bybit", "binance", "okx", "deribit", "coinbase"}
    MaxUpdates = 3
    MaxConns = 2
    MaxEvents = 4
    MaxFaults = 2
    k1 = k1
    k2 = k2
    k3 = k3
    NoState = NoState
    Key <- Keys
    Dimension <- Dimensions
    Profile <- Profiles
    Correlated <- BtcWithEth
    GrossPct = 80
    NetPct = 50
    BucketPct <- BucketPcts
    CorrelatedPct = 60
    RiskMax = 7
    Rate = 1
    LossPct = 10
    DrawdownPct = 28
    MaxOpen = 2
    MinOrder = 2
    Size = {2, 4}
    Equity = {10, 14}
    PnlStep <- PnlSteps
    MaxDay = 2
    MaxPnl = 1
    BucketTicks = 2
    DayEnd = 6
    MaxBuilds = 2
    MaxStops = 1
    ReplenishWindow = 2
    WarmupBars = 3
    FirstOfDay = 6
    BarsPerDay = 2
    BarsPerMonth = 4
    LastBarOfAll = 9
    MaxMessages = 1
    Horizons = {1, 2}
    NeighborCount = 2
    MinNeighbors = 2
    MaxDistance = 2
    FullSample = 3
    MaxQuoteAge = 1
    MaxObsAge = 2
    MinFilled = 1
    MaxIssuePercent = 40
    MarkoutHorizons = {1, 2}
    StartCapital = 10000
    Leverage = 100
    MarginPerMille = 10
    QuantityStep = 2
    MinimumQuantity = 4
    MaxEntries = 3
    Cooldown = 2
    MaxHolding = 2
    LossPerMille = 4
    StopPercent = 50
    TargetPercent = 120
    MinStop = 8
    MaxStop = 40
    CandleRows <- SomeCandles
    StartPrice = 1000
    Moves <- SomeMoves
    LastSecond = 6
INVARIANTS
    DayIsTrue
    LessonsAreCausal
    StakesAreBounded
    RiskIsBudgeted
    BooksMatchFills
    OneActiveTrade
    PhaseMatchesOrders
    ReplayIsFaithful
PROPERTIES
    EntriesAreSound
    VerdictIsStable
    LossKillsTheDay
CHECK_DEADLOCK FALSE
