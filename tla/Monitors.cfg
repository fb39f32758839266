SPECIFICATION Spec
CONSTANTS
    Output = {o1, o2, o3}
    Window = Window
    NoSurface = NoSurface
    o1 = o1
    o2 = o2
    o3 = o3
    MaxOutputs = 2
    Initial = {o1, o2}
    Pluggable = {o3}
    Unpluggable = {o1}
    Countdown = 2
    Flash = 1
    MaxDt = 2
    FrameTime = {1}
    Capacity = 2
    KeyByte = {97}
    Keys = {}
    Whims = {"resize", "deny", "revoke", "die", "other"}
    MaxBacklog = 3
INVARIANTS
    TypeOK
    OnlyDestroyRace
    SettledSurfacesShown
    OneFrameCallback
CHECK_DEADLOCK FALSE
