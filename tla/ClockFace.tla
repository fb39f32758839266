------------------------------ MODULE ClockFace ------------------------------
(***************************************************************************)
(* The digits of render_clock (src/eva.c): the countdown while it runs,    *)
(* the time of the day otherwise.  Time is in milliseconds.                *)
(***************************************************************************)
EXTENDS Integers

CONSTANTS
    Longest,    \* the countdown at its start: 2000 ms in the code
    Step        \* how far apart the moments are that are looked at

ASSUME FaceAssumption == Longest \in Nat /\ Step \in Nat \ {0}

VARIABLES
    countdown,      \* countdown_timer, or NoCountdown
    hour, minute,   \* the time of the day
    face            \* "<big>:<small>" and ":<tiny>"

NoCountdown == -1

faceVars == <<countdown, hour, minute, face>>

NoFace == [big |-> 0, small |-> 0, tiny |-> 0]

FaceInit ==
    /\ countdown = NoCountdown
    /\ hour = 0 /\ minute \in {0, 59}
    /\ face = NoFace

\* Mutant: the hundredths are those of the whole countdown.
CountdownFaceTotal(ms) ==
    [big |-> (ms \div 1000) \div 60, small |-> (ms \div 1000) % 60, tiny |-> ms \div 10]

CountdownFace(ms) ==
    LET total == ms \div 1000 IN
    [big |-> total \div 60, small |-> total % 60, tiny |-> (ms - 1000 * total) \div 10]

TimeFace == [big |-> hour % 10, small |-> minute, tiny |-> 0]

RenderClock ==
    /\ face' = IF countdown >= 0 THEN CountdownFace(countdown) ELSE TimeFace
    /\ UNCHANGED <<countdown, hour, minute>>

\* The countdown starts or goes on; the day goes on.
Advance ==
    /\ countdown' = IF countdown = NoCountdown THEN Longest
                    ELSE IF countdown >= Step THEN countdown - Step ELSE NoCountdown
    /\ hour' = IF countdown' = NoCountdown THEN (hour + 1) % 24 ELSE hour
    /\ face' = NoFace
    /\ UNCHANGED minute

FaceNext == RenderClock \/ Advance

FaceSpec == FaceInit /\ [][FaceNext]_faceVars

-----------------------------------------------------------------------------
\* eva.h 33: the countdown is shown as minutes, seconds and hundredths, each
\* within its range, and read back it is the countdown.
CountdownReadable ==
    countdown >= 0 /\ face # NoFace =>
        /\ face.small \in 0..59 /\ face.tiny \in 0..99
        /\ 6000 * face.big + 100 * face.small + face.tiny = countdown \div 10
=============================================================================
