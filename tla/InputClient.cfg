CONSTANTS
    Pads = {0, 1}
    StateLength = 1
    States <- MCStates
    MaxChanges = 4
SPECIFICATION FairSpec
INVARIANT IndexesPartitioned
PROPERTY FinalStateIsSent
CHECK_DEADLOCK FALSE
