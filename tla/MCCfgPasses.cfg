SPECIFICATION SuitedSpec
CONSTANTS
    MaxBlocks = 3
    MaxEdges = 4
    MaxCode = 3
    MaxRegions = 1
    Kinds = {"fallthrough", "back", "handler"}
    Reasons = {"normal"}
    RegionInputs = {}
    InputBlocks = 3
    InputEdges = 4
    Inputs <- Graphs
    Passes = {"simplify", "unreachable", "empty", "merge", "critical"}
INVARIANTS
    StaysWellFormed
    PassKeepsCode
    PassRecordTruthful
    NothingLeft
PROPERTIES
    Terminates
CHECK_DEADLOCK FALSE
