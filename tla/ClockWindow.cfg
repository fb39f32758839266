SPECIFICATION FairWindowSpec
CONSTANTS
    Sizes = {1, 2}
    Default = 1
    MaxEvents = 2
INVARIANTS
    NoPictureBeforeAck
    OneCallback
PROPERTIES
    CloseExits
    PingsAnswered
    WindowFits
CHECK_DEADLOCK FALSE
