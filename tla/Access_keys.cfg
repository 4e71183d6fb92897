CONSTANTS
    Addr = {alice, bob}
    Public = Public
    None = None
    Refused = Refused
    Strings = {word}
    Entropies = {e1, e2}
    Names = {n1, n2}
    MaxHeight = 1
    MaxHanded = 3
    Levels = {0, 1, 2, 3}
SPECIFICATION Spec
INVARIANT KeyFindsQuerier
PROPERTY RevokedForGood
CHECK_DEADLOCK FALSE
