SPECIFICATION FairSpec
CONSTANTS
    FullInterval = 3
    QualityInterval = 1
    Retention = 2
    Horizon = 3
    RunTime = 0
    MaxManual = 1
    MaxLost = 1
    MaxKept = 1
    Faults <- AllFaults
INVARIANTS TypeOK
PROPERTIES Spaced NotStarved
