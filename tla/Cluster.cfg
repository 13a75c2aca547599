CONSTANTS
    n1 = n1
    n2 = n2
    g1 = g1
    g2 = g2
    Nodes = {n1, n2}
    Conns = {1, 2}
    Games = {g2}
    Host <- MCHost
    Ip <- MCIp
    Installed <- MCInstalled
    MaxStarts = 2
    MaxInFlight = 3
    Scenarios <- MCScenarios
SPECIFICATION FairSpec
INVARIANTS TypeOK RecordsAreReserved NoRecordAfterTimeout
PROPERTIES LostOnlyByOwner NodeAvailableAgain
CHECK_DEADLOCK FALSE
