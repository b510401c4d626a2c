SPECIFICATION FairSpec
CONSTANTS
    Phone = {p1, p2}
    MaxAttempts = 2
    QueueBound = 2
INVARIANTS
    GraceAfterGrant
    ServedWhileWaiting
    
PROPERTIES
    RadioReleased
CHECK_DEADLOCK FALSE
