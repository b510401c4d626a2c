SPECIFICATION Spec
CONSTANTS
    Phone = {p1, p2}
    Key = {k1, k2, k3}
    NoKey = NoKey
    MaxFaults = 2
SYMMETRY StoreSymmetry
PROPERTIES
    RecoveredKeyLoads
CHECK_DEADLOCK FALSE
