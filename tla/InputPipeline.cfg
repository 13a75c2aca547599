CONSTANTS
    ButtonCount = 1
    AxisCount = 0
    GAMEPAD_AXIS_RANGE = 127
    AxisUnit = 3
    MAX_GAMEPADS = 2
    QueueSize = 2
    Packets <- MCPackets
    MaxSent = 6
    MaxEmpty = 0
    Pads = {0, 1}
    States <- MCStates
    MaxChanges = 2
SPECIFICATION PipelineFairSpec
INVARIANT NoButtonStuck
PROPERTY ReachesTheGame
CHECK_DEADLOCK FALSE
