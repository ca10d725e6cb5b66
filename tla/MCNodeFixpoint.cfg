SPECIFICATION Spec
CONSTANTS
    WordBits = 2
    MaxSteps = 8
    Bound = 3
    Atoms = {a}
    MaxInputEdges = 4
    Problems <- Enumerated
INVARIANTS
    ReturnsSolution
    NeverOvershoots
    StopsRightly
PROPERTIES
    Returns
CHECK_DEADLOCK FALSE
