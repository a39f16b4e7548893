SPECIFICATION FairSpec
CONSTANTS
    EventCapacity = 2
    ProgressCapacity = 1
    Packets = 2
    MaxOther = 1
INVARIANTS TypeOK ShownIsHonest ReportIsComplete
PROPERTIES PhaseNeverGoesBack RunEnds
\* The diagnostic ends.
CHECK_DEADLOCK FALSE
