SPECIFICATION FairSpec
CONSTANTS
    t1 = t1
    t2 = t2
    Tasks = {t1, t2}
    NoTask = NoTask
    RunnerCount = 2
    Priorities = {2}
    AppCalls = {"cancelled"}
    Faults = {"throw", "start_fail"}
INVARIANTS
    SingleOwner
    FinishedOnce
    
PROPERTIES
    ShutdownFinishesAll
    ShutdownReturns
    CancelledIsFinished
CHECK_DEADLOCK FALSE
