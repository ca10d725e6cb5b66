SPECIFICATION ClientSpec
CONSTANTS
    p = p
    q = q
    Payload = {p, q}
    MaxNodeSlots = 3
    MaxEdgeSlots = 6
    ScratchNodes = 2
    ScratchEdges = 2
    MaxSteps = 5
    Hot = {1, 2}
INVARIANTS
    LivenessExact
    RunThenChain
    DocumentAccepted
PROPERTY
    ImplementsOrderedMultigraph
CHECK_DEADLOCK FALSE
