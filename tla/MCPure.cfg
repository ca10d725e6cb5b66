SPECIFICATION MCSpec
CONSTANTS
    None = None
    Bound = 3
    MaxEpoch = 3
    Inline = 2
    MaxEdges = 4
    MaxSearches = 4
    Facts = 3
    MaxClauses = 3
    MaxRecords = 3
    MaxOps = 5
    MaxSets = 5
    MaxScopeEdges = 3
    MaxEdits = 4
INVARIANTS
    SearchesRight
    SaturationsRight
    NamesResolveRight
CHECK_DEADLOCK FALSE
