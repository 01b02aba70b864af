SPECIFICATION RecordsSpec
CONSTANTS
    MinSoak = 2
    MaxGap = 1
    MaxClock = 3
    MaxSamples = 3
    MaxMishaps = 2
    Nothing = Nothing
    AlertEvent = {e1}
    Handler = {h1, h2}
    MaxInstant = 2
    MaxTrouble = 2
    Session = {s1, s2}
    Commit = {c1, c2}
    MaxIncidents = 1
    NoFile = NoFile
    NStreams = 2
    GoldDay = {1}
    MaxVersions = 2
    MaxStamp = 6
    MaxKills = 1
    Absent = Absent
    NParts = 2
    MaxJobs = 4
    MaxKilled = 1
    NoReport = NoReport
    MaxSlot = 4
    Limit = 2
    MaxPages = 2
    MaxRuns = 2
    MaxBreaks = 1
    Poller = {p1, p2}
    MaxMinute = 4
    Retained = 3
    MaxUpsets = 2
    Nobody = Nobody
    Asset = {btc, eth}
    LastBar = 24
    Horizon = 2
    EmbargoBars = 2
    NFolds = 2
    MinBlock = 1
    HoldoutPercent = 30
    TailPercent = 30
    Consumed = 21
    Specs <- FrozenSpecs
    MaxEditions = 2
    MaxRows = 9
    MaxLost = 1
    Coin = {xbt, xet}
    MaxDataAge = 1
    MaxSetupAge = 1
    MinFamilies = 2
    MaxGross = 4
    MaxSymbol = 3
    MaxCorrelated = 3
    MinEdge = 0
    Values <- ValuesAndCosts
    MaxSecond = 2
    NoWork = NoWork
    HoldHours = 2
    SettleEvery = 2
    LastHour = 4
    Rates <- TwoRates
    Levels <- TwoLevels
    Uncertainty = 1
    HalfSpread = 1
    SafetyBuffer = 1
    PairCost <- CostOfPair
    MaxRestarts = 1
    HoldingBars = 2
    EntryDelay = 1
    EntrySize = 2
    DailyLossLimit = 1
    MaxSent = 3
    MaxLaunches = 2
    MaxTwice = 1
    NoCheckpoint = NoCheckpoint
    Torn = Torn
INVARIANTS
    AuditMissesNothing
    AnsweredIsDelivered
    AcceptedIsOneSession
    NothingIsLost
    LakeIsAccounted
    HistoryIsWhole
    ReadingsAreKept
    ContestIsHonest
    SessionIsAccounted
PROPERTIES
    DecisionsAreSound
CHECK_DEADLOCK FALSE
