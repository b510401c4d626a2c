SPECIFICATION MCFairSpec
CONSTANTS
    Challenge = {c1, c2}
    Delivery = {d1, d2}
    MaxCancels = 1
    User = {alice, bob}
    Allowed = {alice}
    Stamp = {2}
    TIME_WINDOW = 1
    TIMESTAMP_VALIDITY = 1
    CACHE_EXPIRY = 2
    LOCK_EXPIRY = 2
    CANCEL_TTL = 0
    SessionTimeout = 2
    Start = 2
    MaxTime = 5
INVARIANTS
    OnePrompt
    OneAnswer
    GrantMeansApproved
    BlockedIsServed
    CancelHolds

    
CHECK_DEADLOCK FALSE
