SPECIFICATION ExecutorsSpec
CONSTANTS
    Trade = {t1, t2}
    Order <- MCOrder
    TradeOrder <- MCOrder
    Group = {t1, t2}
    FillId <- MCFillId
    Symbol = {btc}
    Body = {b1}
    Day <- MCDay1
    Reason = {stop}
    HoldReason <- MCHoldReason
    Pnl <- MCPnl
    MaxQty = 2
    MaxAttempts = 2
    MaxTrades = 2
    LossLimit = 2
    MaxAbsPnl = 2
    MaxExits = 2
    MaxExitAttempts = 2
    MaxFaults = 1
    Cleared = Cleared
    None = None
    Requests = {t1}
    Trips = {t1}
    Smokes = {t2}
INVARIANTS
    ProbeEvidenceIsTrue
    CompleteIsOver
PROPERTY PhasesResolve
CHECK_DEADLOCK FALSE
