SPECIFICATION FairSpec
CONSTANTS
    MaxChallenges = 3
    MaxFrames = 5
CHECK_DEADLOCK FALSE
INVARIANTS
    TypeOK
    SignaturesMatch
    NothingSwallowed
PROPERTIES
    OpenEnds
