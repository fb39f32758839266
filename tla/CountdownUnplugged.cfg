SPECIFICATION FairSpec
CONSTANTS
    Output = {o1, o2}
    Window = Window
    NoSurface = NoSurface
    o1 = o1
    o2 = o2
    MaxOutputs = 2
    Initial = {o1, o2}
    Pluggable = {}
    Unpluggable = {o1}
    Countdown = 2
    Flash = 1
    MaxDt = 2
    FrameTime = {1}
    Capacity = 2
    KeyByte = {97}
    Keys = {"Return"}
    Whims = {}
    MaxBacklog = 3
PROPERTIES
    SuccessUnlocks
CHECK_DEADLOCK FALSE
