CONSTANTS
    Clients <- MCClients
    Profiles <- MCProfiles
    MaxFrames = 3
    VideoCap = 1
    Window = 1
    GopSize = 2
SPECIFICATION FairSpec
INVARIANTS VideoContiguous EncoderLeavesNothing SharedOutlivesThreads
PROPERTIES SessionEnds PacketsDelivered
CHECK_DEADLOCK FALSE
