SPECIFICATION FairSpec
CONSTANTS
    Output = {o1}
    Window = Window
    NoSurface = NoSurface
    o1 = o1
    MaxOutputs = 2
    Initial = {o1}
    Pluggable = {}
    Unpluggable = {}
    Countdown = 3
    Flash = 2
    MaxDt = 2
    FrameTime = {1, 2}
    Capacity = 3
    KeyByte <- MCKeyByte
    Keys <- AllKeys
    Whims = {"deny", "revoke"}
    MaxBacklog = 3
INVARIANTS
    UnlockConfirmed
    AbandonedOnlyOnSignalOrRevoke
    GreenFlashCountsDown
    SubmitsWholeLine
    NothingLeftBehind
PROPERTIES
    SuccessUnlocks
    SessionLockSpec
    EditorSpec
CHECK_DEADLOCK FALSE
