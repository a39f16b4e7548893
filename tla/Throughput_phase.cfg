SPECIFICATION FairSpec
CONSTANTS
    w1 = w1
    w2 = w2
    Workers <- TwoWorkers
    Chunks = 2
    Ticks = 3
    MinRamp = 1
    MaxTotal = 4
    Interruptions <- Anything
INVARIANTS TypeOK TotalIsExact QuietOnReturn DownloadFiguresAgree
PROPERTIES PhaseEnds
\* The phase ends and the diagnostic with it.
CHECK_DEADLOCK FALSE
