SPECIFICATION Spec
CONSTANTS
    None = None
    c1 = c1
    c2 = c2
    s1 = s1
    s2 = s2
    Conns = {c1, c2}
    Sids = {s1, s2}
    Cap = 1
SYMMETRY GatewaySymmetry
INVARIANTS
    KeepAlive
    ConcurrencyCap
    UnslottedIsEnding
PROPERTIES
    KeepsBook
    OrphanOnlyByLoss
