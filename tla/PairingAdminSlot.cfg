SPECIFICATION FairSpec
CONSTANTS
    Conn = {c1, c2}
    Phone = {p1}
    User = {u1}
    Key = {k1}
    NoKey = NoKey
    Torn = Torn
    NoPhone = NoPhone
    MaxGen = 2
    Ops <- SlotOps
    IOErrors = TRUE
    Crashes = TRUE
INVARIANTS
    OnePlace
    SlotGuarded
PROPERTIES
    NotCutShort
    SlotFrees
