SPECIFICATION MCSpec
CONSTANTS
    None = None
    Bound = 5
    Removed = 2
    SccEdges = 4
    TreeEdges = 6
    AgainEdges = 3
    Lives = {{0, 1, 2, 3}, {0, 1, 2}}
    MaxEdges = 5
INVARIANTS
    AlgorithmsRight
PROPERTIES
    WalksAgree
    DominanceRight
    LoopsRight
CHECK_DEADLOCK FALSE
