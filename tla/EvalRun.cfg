SPECIFICATION FairSpec
CONSTANTS
    PoolSize = 1
    MaxEvents = 4
INVARIANTS
    ConsumerEndsFirst
    CallsCutOnlyWhenGivenUp
    ReceivedCallsServed
PROPERTIES
    Returns
