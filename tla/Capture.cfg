SPECIFICATION FairSpec
CONSTANTS
    WL_SERVER_ID_START = 10
    Clients = {1, 2}
    MaxId = 5
    Profiles <- MCProfiles
    MaxPlanes = 1
INVARIANTS NoUseAfterFree NothingLeft ReleasedOnce ObjectsAgree
PROPERTIES BufferComesBack FullOnlyByTooManyBuffers
CHECK_DEADLOCK FALSE
