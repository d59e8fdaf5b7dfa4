SPECIFICATION Spec
CONSTANTS
    p1 = p1
    p2 = p2
    t1 = t1
    t2 = t2
    t3 = t3
    NoThread = NoThread
    NoCall = NoCall
    Procs = {p1}
    Threads = {t1, t2, t3}
    ProcOf <- OneProcess
    Ids <- MCIds
    Calls <- MCCalls
    Stored <- MCStored
INVARIANTS
    LineageAcyclic
    NoDanglingLinks
PROPERTIES
    ImplementsLedger
    CallsReturn
CHECK_DEADLOCK FALSE
