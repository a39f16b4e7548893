SPECIFICATION FairSpec
CONSTANTS
    browser = browser
    agent = agent
    r1 = r1
    r2 = r2
    r3 = r3
    NoRun = NoRun
    Callers <- MCCallers
    Droppable <- MCDroppable
    Runs <- OneRun
    Faults <- DisconnectFault
    ChannelCapacity = 1
    MaxEvents = 0
    MaxBoots = 0
PROPERTIES BusyIsReleased
\* The pool of ids and of restarts is finite: the model stops, the system does not.
CHECK_DEADLOCK FALSE
