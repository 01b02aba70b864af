CONSTANTS
    Trade = {t1}
    Order <- MCOrder
    TradeOrder <- MCOrder
    Group = {t1}
    FillId <- MCFillId
    Symbol = {btc}
    Body = {b1}
    Day <- MCDay1
    Reason = {stop}
    HoldReason <- MCHoldReason
    Pnl <- MCPnl
    MaxQty = 2
    MaxAttempts = 2
    MaxTrades = 1
    LossLimit = 2
    MaxAbsPnl = 2
    MaxExits = 2
    MaxExitAttempts = 2
    MaxFaults = 1
    Cleared = Cleared
    None = None
SPECIFICATION DemoSpec
INVARIANT ResultsReachTheLedger
