SPECIFICATION Spec
CONSTANTS
    p1 = p1
    u1 = u1
    Session = {s1, s2}
    User = {u1}
    Phone = {p1}
    DaemonStates <- OneState
    Configs <- NetworkOnly
SYMMETRY SessionSymmetry
INVARIANTS
    VerdictIsGenuine
    PhonesAreTold
    UdpConfirmedAfterVerification
CHECK_DEADLOCK FALSE
