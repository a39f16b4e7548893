SPECIFICATION FairSpec
CONSTANTS
    i1 = i1
    i2 = i2
    Ids <- OneId
    MaxCrashes = 1
PROPERTIES RestartSettles
