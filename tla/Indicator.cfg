SPECIFICATION FairSpec
CONSTANTS
    Output = {o1}
    Window = Window
    NoSurface = NoSurface
    o1 = o1
    MaxOutputs = 2
    Initial = {o1}
    Pluggable = {}
    Unpluggable = {}
    Countdown = 2
    Flash = 1
    MaxDt = 2
    FrameTime = {1, 2}
    Capacity = 2
    KeyByte <- MCKeyByte
    Keys = {"text"}
    Whims = {}
    MaxBacklog = 3
PROPERTIES
    KeypressToggles
CHECK_DEADLOCK FALSE
