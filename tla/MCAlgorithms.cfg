SPECIFICATION MCSpec
CONSTANTS
    Nodes = {1, 2, 3, 4}
    Ids = {1, 2, 3, 4, 5, 6}
INVARIANTS
    SortCorrect
    CommandsServed
    LineageExact
    ClosestFirst
PROPERTIES
    WalkTerminates
CHECK_DEADLOCK FALSE
