SPECIFICATION FairSpec
CONSTANTS
    OobCap = 1
    InputCap = 1
    MaxFrames = 3
    MaxOut = 2
CHECK_DEADLOCK FALSE
INVARIANTS
    InputInOrder
    MeterBracketsDelivery
    InputBilled
PROPERTIES
    WindsUp
    PingsAreAnswered
