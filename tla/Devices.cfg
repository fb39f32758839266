SPECIFICATION DevicesSpec
CONSTANTS
    Modulus = 7
    FirstStep = 1
    Countdown = 4
    Flash = 2
    Start = {0, 5}
    Pause = {1, 3}
    MaxTime = 14
    N = 3
    Sizes = {1, 2}
    Temp = 3
    MaxSurfaces = 8
    Seats = {s1, s2}
    s1 = s1
    s2 = s2
    NoSeat = NoSeat
    MaxEvents = 2
    Position = {0, 2, 3}
    YawDefault = 1
    YawRange = 2
    PitchRange = 1
    Stationary = FALSE
INVARIANTS
    CountdownKeepsTime
    EarlyByTheWaitOnly
    PicturesFit
    SurfacesSound
    FailedSwapNeedsZero
    DevicesFollowTheSeat
    ErrorNeedsTwoSeats
    OneDeviceOfAKind
    DevicesKnown
    ViewWithinLimits
    UnanchoredAtHome
PROPERTY
    OrbitCameraSpec
CHECK_DEADLOCK FALSE
