SPECIFICATION FairSpec
CONSTANTS
    r1 = r1
    r2 = r2
    Readers = {r1, r2}
    MaxBytes = 2
    MaxChunk = 3
    MaxOutput = 4
INVARIANTS
    BufferHoldsTail
    StreamIntegrity
    NoLostWakeup
PROPERTIES
    ImplementsOutputLog
    CloseReachesReaders
    OutputReachesReaders
