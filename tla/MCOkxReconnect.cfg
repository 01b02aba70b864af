SPECIFICATION FeedSpec
CONSTANTS
    Venues = {"okx", "deribit"}
    MaxUpdates = 4
    MaxConns = 2
    MaxEvents = 4
    MaxFaults = 0
INVARIANTS
    GapFreeFeedReplays
CHECK_DEADLOCK FALSE
