SPECIFICATION MCSpec
CONSTANTS
    Bound = 4
    None = None
    Lenses = {"ssa", "flow", "dce", "copies", "aliases", "pre", "consts", "numbers", "colors", "memory"}
    MaxInsts = 3
INVARIANTS
    SsaKeepsVariables
    FlowRight
    RewritesReadTheSame
    FactsHold
    
CHECK_DEADLOCK FALSE
