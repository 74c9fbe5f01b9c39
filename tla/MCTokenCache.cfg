SPECIFICATION FairSpec
CONSTANTS
    t1 = t1
    t2 = t2
    Threads = {t1, t2}
    MaxRequests = 3
    NoThread = NoThread
INVARIANTS
    TypeOK
    SingleFlight
    NoOrphanFuture
    GotIsStored
PROPERTIES
    TokenOnlyNewer
    CallsReturn
