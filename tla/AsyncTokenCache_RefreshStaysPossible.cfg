SPECIFICATION Spec
CONSTANTS
    t1 = t1
    t2 = t2
    t3 = t3
    Tasks = {t1, t2}
    MaxRequests = 3
    MaxCancels = 1
INVARIANT RefreshStaysPossible
