SPECIFICATION FairSpec
CONSTANTS
    t1 = t1
    t2 = t2
    t3 = t3
    Tasks = {t1, t2, t3}
    MaxRequests = 3
    MaxCancels = 1
INVARIANTS
    SingleFlight
PROPERTIES
    RetryUsesNewToken
    CallsReturn
