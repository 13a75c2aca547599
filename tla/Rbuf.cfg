CONSTANTS
    Size = 3
    MaxPush = 5
SPECIFICATION FairSpec
INVARIANT HeldIsLive
PROPERTIES ImplementsContract WakesUp
CHECK_DEADLOCK FALSE
