SPECIFICATION MCSpec
CONSTANTS
    Effects = {"fallthrough", "if", "else", "endif", "switch", "case", "endswitch", "loop", "endloop", "break", "conditional_break", "continue", "conditional_continue", "return", "conditional_return", "label", "jump", "conditional_jump"}
    LongEffects = {"if", "else", "endif", "switch", "case", "endswitch", "loop", "endloop", "break", "continue", "return"}
    Tokens = {1}
    ShortStream = 4
    MaxStream = 7
    MaxResolves = 2
    ShortCode = 2
    LongCode = 3
INVARIANTS
    TakesExactlyNestedStreams
    GraphAsWritten
    AddressesAsWritten
PROPERTIES
    ResolvesOnce
CHECK_DEADLOCK FALSE
