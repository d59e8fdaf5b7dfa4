SPECIFICATION Spec
CONSTANTS
    p1 = p1
    p2 = p2
    t1 = t1
    t2 = t2
    t3 = t3
    NoThread = NoThread
    NoCall = NoCall
    Procs = {p1, p2}
    Threads = {t1, t2, t3}
    ProcOf <- TwoProcesses
    Ids <- MCIds
    Calls <- MCCalls
    Stored <- MCStored
INVARIANTS
    SuccessMeansPersisted
    EventsMatchFacts
PROPERTIES
    CommittedForever
CHECK_DEADLOCK FALSE
