CONSTANTS
    alice = alice
    bob = bob
    seed = seed
    game = game
    made = made
    invalid = invalid
    Invalid = invalid
    Items <- MCItems
    Scripts <- MCScripts
    InitialFiles <- MCFiles
    SeedGames <- MCSeed
    MaxRequests = 3
    MaxFaults = 1
SPECIFICATION FairSpec
INVARIANTS NoDuplicates AnsweredStays
PROPERTY EveryRequestEnds
CHECK_DEADLOCK FALSE
