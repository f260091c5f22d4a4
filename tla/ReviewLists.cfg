CONSTANTS
    Ids = {1, 2, 3}
    Writers = {w1}
    AtOnce = 1
    MaxTime = 1
    MaxWrites = 2
    Limits = {1, 2}
    Past <- TwoPasts
    Null = Null
SPECIFICATION FairSpec
INVARIANT ReviewTypeOK
INVARIANT PageContinues
INVARIANT NothingLost
INVARIANT TotalAddsUp
INVARIANT ChainIsListed
PROPERTY WalkEnds
