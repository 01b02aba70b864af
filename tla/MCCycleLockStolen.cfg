SPECIFICATION LockSpec
CONSTANTS
    None = None
    Worker = {w1, w2, w3}
    MaxCrashes = 1
INVARIANT
    Exclusive
