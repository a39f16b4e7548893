SPECIFICATION DashSpec
CONSTANTS
    browser = browser
    NoRun = 0
    Callers <- MCCallers
    Droppable = {}
    Runs <- MCRuns
    Faults <- MCFaults
    ChannelCapacity = 1
    MaxEvents = 0
    MaxBoots = 1
    Measured <- MCMeasured
    MaxPolls = 2
    Leaving = {1}
    Aging = {1}
INVARIANTS PageTypeOK
PROPERTIES BusyIsReleased RunIsDecided HistoryCatchesUp CardsConverge
\* The pool of ids and of restarts is finite: the model stops, the system does not.
CHECK_DEADLOCK FALSE
