SPECIFICATION Spec
CONSTANTS
    WordBits = 1
    MaxSteps = 12
    Bound = 3
    EdgeBound = 3
    Atoms = {some, a}
    Reached = some
    PlainNodes = 2
    Problems <- Enumerated
INVARIANTS
    ReturnsSolution
    NeverOvershoots
    NoneIsUnreached
PROPERTIES
    Returns
CHECK_DEADLOCK FALSE
