SPECIFICATION FairSpec
CONSTANTS
    i1 = i1
    i2 = i2
    Ids <- TwoIds
    MaxCrashes = 2
INVARIANTS TypeOK ServesSettledRows
PROPERTIES RestartSettlesUnlessHalfAltered
