CONSTANTS
    Trade = {t1, t2}
    Order <- MCOrder
    TradeOrder <- MCOrder
    Group = {t1, t2}
    FillId <- MCFillId
    Symbol = {btc}
    Body = {b1}
    Day <- MCDay2
    Reason = {stop}
    HoldReason <- MCHoldReason
    Pnl <- MCPnl
    MaxQty = 2
    MaxAttempts = 2
    MaxTrades = 1
    LossLimit = 2
    MaxAbsPnl = 2
    MaxExits = 3
    MaxExitAttempts = 2
    MaxFaults = 1
    Cleared = Cleared
    None = None
SPECIFICATION DemoSpec
SYMMETRY MCSymmetry
INVARIANTS DailyTradeLimit ExposureIsOwned SentOnceOnRecord DoneIsComplete ExitFitsPosition
PROPERTY ImplementsSlot
