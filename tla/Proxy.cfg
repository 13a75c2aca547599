SPECIFICATION FairSpec
CONSTANTS
    WORD = 2
    WL_BUFFER_DEFAULT_SIZE_POT = 4
    FDS_POT = 1
    MAX_FDS_OUT = 2
    MAX_FD = 9
    Methods <- MCMethods
    Events <- MCEvents
    Profiles <- MCProfiles
    SessionSize = 6
    Interfaces = {1}
INVARIANTS StreamsIntact DescriptorsOwned GarbledOnlyByFullSocket
PROPERTY EverythingForwarded
CHECK_DEADLOCK FALSE
