SPECIFICATION ResearchFairSpec
CONSTANTS
    w1 = w1
    w2 = w2
    None = None
    Absent = Absent
    Torn = Torn
    NoEvidence = NoEvidence
    Reviewer = Reviewer
    Worker <- Workers
    Caller <- Callers
    Candidate <- Candidates
    Family = {"PRICE_AUCTION"}
    RetireAfter = 2
    FamilyOrder <- Families
    Strategies <- StrategiesOf
    Symbols <- Universe
    Frames <- OneFrame
    Reference = "BTC"
    BaseFrame = "4h"
    ConfirmingFrame = "1d"
    MaxHypotheses = 2
    Evidence <- Measured
    MinSymbols = 2
    MinDsr = 1
    MaxCrashes = 1
    MaxCycles = 2
    MaxTurns = 4
INVARIANTS
    ExclusiveUntilDeath
    SelectionIsEarned
    ChampionIsApproved
    RetiredForReviews
PROPERTY
    DeadLockIsTakenOver
CHECK_DEADLOCK FALSE
