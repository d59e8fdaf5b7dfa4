SPECIFICATION MCSpec
CONSTANTS
    Nodes = {1, 2, 3, 4}
    Ids = {1, 2, 3, 4, 5, 6}
INVARIANT
    DefaultsSuffice
CHECK_DEADLOCK FALSE
