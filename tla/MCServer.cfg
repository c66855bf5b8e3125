SPECIFICATION FairSpec
CONSTANTS
    Conns = {c1, c2, c3}
    Files <- MCFiles
    Envs <- MCEnvs
    MaxBoots = 2
CHECK_DEADLOCK FALSE
INVARIANTS
    OpenOnlyIfUnset
    BaseIsRoot
    PinHolds
PROPERTIES
    WaitingEnds
