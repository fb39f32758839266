SPECIFICATION ClockSpec
CONSTANTS
    Modulus = 7
    FirstStep = 1
    Countdown = 4
    Flash = 2
    Start = {0, 5}
    Pause = {1, 3}
    MaxTime = 14
INVARIANTS
    CountdownAfterAnswer
CHECK_DEADLOCK FALSE
