CONSTANTS
    Tokens = {a, b, c, d}
    None = None
    MaxU32 = 3
    Limit = 2
    MaxShown = 6
SYMMETRY AnyToken
SPECIFICATION Spec
INVARIANTS MapMatchesCells FreeStackExact PagesComplete
CHECK_DEADLOCK FALSE
