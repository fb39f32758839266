SPECIFICATION Spec
CONSTANTS
    Output = {o1}
    Window = Window
    NoSurface = NoSurface
    o1 = o1
    MaxOutputs = 2
    Initial = {o1}
    Pluggable = {}
    Unpluggable = {}
    Countdown = 2
    Flash = 1
    MaxDt = 2
    FrameTime = {1}
    Capacity = 2
    KeyByte = {97}
    Keys = {}
    Whims = {}
    MaxBacklog = 3
INVARIANTS
    LoopStartsConfigured
CHECK_DEADLOCK FALSE
