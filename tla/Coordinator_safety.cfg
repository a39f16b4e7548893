SPECIFICATION Spec
CONSTANTS
    browser = browser
    agent = agent
    r1 = r1
    r2 = r2
    r3 = r3
    NoRun = NoRun
    Callers <- MCCallers
    Droppable <- MCDroppable
    Runs <- ThreeRuns
    Faults <- AllFaults
    ChannelCapacity = 1
    MaxEvents = 2
    MaxBoots = 1
INVARIANTS TypeOK OneDiagnostic IdleIsSettled ActiveIsHonest AcceptedIsRecorded
PROPERTIES VerdictIsFinal RefinesSingleFlight
\* The pool of ids and of restarts is finite: the model stops, the system does not.
SYMMETRY RunSymmetry
CHECK_DEADLOCK FALSE
