SPECIFICATION FairSpec
CONSTANTS
    Radix = 12
    LEN_PREFIX = 2
    MAX_FRAME_LEN = 9
    VARINT_MAX = 2
    Window = 3
    Payloads <- MCPayloads
    MaxFrames = 3
CHECK_DEADLOCK FALSE
INVARIANTS
    LimitsAgree
PROPERTIES
    FramesPiped
    FramesArrive
