SPECIFICATION ToolsSpec
CONSTANTS
    t1 = t1
    t2 = t2
    t3 = t3
    t4 = t4
    c1 = c1
    c2 = c2
    c3 = c3
    Tasks = {t1, t2, t3, t4}
    Contexts = {c1, c2, c3}
    ContextOf <- MCContextOf
    MaxStatuses = 2
    NumTools = 2
    Scenarios <- Quiet
INVARIANT SessionTakesTurns
