CONSTANTS
    balanced = balanced
    saver = saver
    high = high
    Plans = {balanced, saver, high}
    High = high
    NoPlan = NoPlan
    MaxEdges = 3
SPECIFICATION FairSpec
INVARIANT TypeOK
INVARIANT WayBack
INVARIANT GamingIsTold
INVARIANT Settled
INVARIANT StopsClean
PROPERTY BoostEnds
