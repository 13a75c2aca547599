CONSTANTS
    ButtonCount = 1
    AxisCount = 1
    GAMEPAD_AXIS_RANGE = 127
    AxisUnit = 3
    MAX_GAMEPADS = 2
    QueueSize = 2
    Packets <- MCOnePad
    MaxSent = 3
    MaxEmpty = 1
SPECIFICATION Spec
INVARIANTS EveryByteInOrder LastPacketShows AtMostOneLeaks
CHECK_DEADLOCK FALSE
