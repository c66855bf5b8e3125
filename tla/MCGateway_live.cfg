SPECIFICATION FairSpec
CONSTANTS
    None = None
    c1 = c1
    c2 = c2
    s1 = s1
    Conns = {c1, c2}
    Sids = {s1}
    Cap = 1
PROPERTIES
    HandlerReturns
    CloseUnregisters
    EndUnregisters
