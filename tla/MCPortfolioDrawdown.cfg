SPECIFICATION RiskSpec
CONSTANTS
    k1 = k1
    k2 = k2
    k3 = k3
    NoState = NoState
    Key <- Keys
    Dimension <- Dimensions
    Profile <- Profiles
    Correlated <- BtcWithEth
    GrossPct = 80
    NetPct = 50
    BucketPct <- BucketPcts
    CorrelatedPct = 60
    RiskMax = 7
    Rate = 1
    LossPct = 10
    DrawdownPct = 28
    MaxOpen = 2
    MinOrder = 2
    Size = {2, 4}
    Equity = {10, 14}
    PnlStep <- PnlSteps
    MaxDay = 2
    MaxPnl = 1
PROPERTY DrawdownBlocksEntry
