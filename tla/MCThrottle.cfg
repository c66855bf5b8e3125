SPECIFICATION FairBucketSpec
CONSTANTS
    RatePerTick = 2
    Burst = 5
    MaxChunk = 5
    MaxIdle = 4
    MaxWindow = 5
INVARIANTS
    BandwidthCap
PROPERTIES
    EveryChunkPasses
