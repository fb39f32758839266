SPECIFICATION LoopSpec
CONSTANTS
    N = 3
    Frames = 2
PROPERTIES
    ServesWhileLit
CHECK_DEADLOCK FALSE
