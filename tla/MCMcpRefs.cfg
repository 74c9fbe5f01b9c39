SPECIFICATION PortalSpec
CONSTANTS
    u1 = u1
    u2 = u2
    a = a
    b = b
    c = c
    Users = {u1, u2}
    Refs = {a, b, c}
    ToolsOf <- OwnTools
    CallsOf <- OneOfAll
    MaxOpens = 3
    MaxPortals = 2
    MaxCloses = 1
INVARIANTS
    TransportsLastUntilClose
    ToolsRunOnOpenTransports
    ClosingIsThorough
    NoDoubleOpen
    PortalIsOwned
