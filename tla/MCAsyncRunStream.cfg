SPECIFICATION AsyncSpec
CONSTANTS
    k1 = k1
    k2 = k2
    k3 = k3
    Workers = {k1, k2, k3}
    MaxAttempts = 2
    MaxLog = 4
    HasTokenSource = TRUE
SYMMETRY TaskSymmetry
INVARIANT
    SuccessWaitsForCalls
PROPERTY ImplementsAsyncContract
