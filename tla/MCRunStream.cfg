SPECIFICATION FairSpec
CONSTANTS
    w1 = w1
    w2 = w2
    Workers = {w1, w2}
    MaxAttempts = 2
    MaxLog = 4
    HasTokenSource = TRUE
INVARIANTS
    TypeOK
    ExactDelivery
    AnswersMatchCalls
    TransportsOutliveCalls
    CallsServed
PROPERTIES
    ImplementsContract
    SubmittedIsServed
    Terminates
