SPECIFICATION BackfillSpec
CONSTANTS
    MaxSlot = 3
    Limit = 2
    MaxPages = 2
    MaxRuns = 2
    MaxBreaks = 1
INVARIANT EligibleIsFinal
CHECK_DEADLOCK FALSE
