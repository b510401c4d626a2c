SPECIFICATION Spec
CONSTANTS
    c1 = c1
    c2 = c2
    c3 = c3
    NoOne = NoOne
    Caller = {c1, c2, c3}
    Stacking = TRUE
    MaxStale = 2
SYMMETRY CallerSymmetry
INVARIANTS
    TypeOK
    OpenWhileHeld
    SomeoneCloses
    NoExtraRule
CHECK_DEADLOCK FALSE
