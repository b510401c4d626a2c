SPECIFICATION Spec
CONSTANTS
    Conn = {c1}
    Phone = {p1}
    User = {u1}
    Key = {k1, k2}
    NoKey = NoKey
    Torn = Torn
    NoPhone = NoPhone
    MaxGen = 2
    Ops <- AllOps
    IOErrors = FALSE
    Crashes = FALSE
INVARIANTS
    PhoneHasKey
