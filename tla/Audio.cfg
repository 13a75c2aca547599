\* Chunks of up to 5 frames into a ring of 3: oversized and wrapped writes,
\* overwriting, and Opus frames that straddle reads.
SPECIFICATION FairSpec
CONSTANTS
    Capacity = 3
    FrameSize = 2
    MaxChunk = 5
    MaxFrames = 7
INVARIANTS RingKeepsNewest StreamInOrder NoLostWakeup
PROPERTY TeardownCompletes
CHECK_DEADLOCK FALSE
