SPECIFICATION FairSpec
CONSTANTS
    p1 = p1
    u1 = u1
    Session = {s1}
    User = {u1, u2}
    Phone = {p1}
    DaemonStates <- RefusingStates
    Configs <- AnyToggles
INVARIANTS
    TypeOK
    FailureIsTotal
    QuietAfterAnswer
PROPERTIES
    KeepsContract
    AnswersRequests
    TransportsWindDown
CHECK_DEADLOCK FALSE
