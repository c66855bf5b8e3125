SPECIFICATION FairSpec
CONSTANTS
    ChanCap = 2
    WinCap = 2
    OutCap = 2
    InCap = 2
    MaxOut = 4
    MaxIn = 6
CHECK_DEADLOCK FALSE
INVARIANTS
    CutOff
PROPERTIES
    OutputPiped
    OutputIngested
    KeystrokesTaken
    EndClosesSession
