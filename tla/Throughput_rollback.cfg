SPECIFICATION Spec
CONSTANTS
    w1 = w1
    w2 = w2
    Workers <- OneWorker
    Chunks = 2
    Ticks = 2
    MinRamp = 1
    MaxTotal = 2
    Interruptions <- Nothing
INVARIANTS FailuresAreNotReported
\* The phase ends and the diagnostic with it.
CHECK_DEADLOCK FALSE
