SPECIFICATION MCSpec
CONSTANTS
    MaxSteps = 3
    ScratchSteps = 6
    MaxBlocks = 5
    MaxEdges = 5
    MaxCode = 3
    MaxRegions = 1
    Kinds = {"fallthrough", "handler"}
    Reasons = {"normal"}
    RegionInputs <- TinyRegions
    Shapes <- ChainAndLoop
    Cleaned <- FewCleanups
PROPERTIES
    CarriedTruthful
CHECK_DEADLOCK FALSE
