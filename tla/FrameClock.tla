----------------------------- MODULE FrameClock -----------------------------
(***************************************************************************)
(* How time reaches the program: every frame event carries the            *)
(* compositor's time in milliseconds, modulo 2^32, and wl_surface_frame_   *)
(* done (include/wayland/wl_callback_listener.h) turns it into the step    *)
(* that its timers are advanced by.  There is always one frame callback    *)
(* outstanding.  While eva_authenticate waits for PAM nothing is handled,  *)
(* but the compositor goes on.                                             *)
(*                                                                         *)
(* All times are in milliseconds; the code keeps its timers in seconds.    *)
(***************************************************************************)
EXTENDS Integers

CONSTANTS
    Modulus,    \* 2^32
    FirstStep,  \* 16 ms, for the first frame
    Countdown,  \* 2000 ms
    Flash,      \* 1000 ms
    Start,      \* what the compositor's clock may show at first
    Pause,      \* how long nothing may happen
    MaxTime     \* bound: the clock is not followed any further

ASSUME ClockAssumption ==
    /\ Modulus \in Nat \ {0}
    /\ FirstStep \in Nat
    /\ Countdown \in Nat \ {0} /\ Flash \in Nat \ {0}
    /\ Start \subseteq Nat /\ Pause \subseteq Nat
    /\ MaxTime \in Nat

Never == -1

VARIABLES
    now,            \* the compositor's clock, without its wrap-around
    frame,          \* ... when it sent the frame event under way, or Never
    asking,         \* the program waits in eva_authenticate
    last_frame, last_dt,
    counting_down, countdown_timer, auth_result, flash_timer,
    \* what really happened, for the properties: when the last frame was
    \* sent; the same when the countdown was started; when PAM answered and
    \* started it; whether every step since then had a frame to count from
    frame_at, started, answered, measured

envVars == <<now, frame>>
stepVars == <<last_frame, last_dt>>
timerVars == <<counting_down, countdown_timer, auth_result, flash_timer>>
truthVars == <<frame_at, started, answered, measured>>
clockVars == <<envVars, asking, stepVars, timerVars, truthVars>>

ClockInit ==
    /\ now \in Start
    /\ frame = Never
    /\ asking = FALSE
    /\ last_frame = 0 /\ last_dt = 0
    /\ counting_down = FALSE /\ countdown_timer = 0 /\ auth_result = 0
    /\ flash_timer = 0
    /\ frame_at = Never /\ started = Never /\ answered = Never /\ measured = FALSE

-----------------------------------------------------------------------------
(* The compositor *)

Pass(d) ==
    /\ now + d <= MaxTime
    /\ now' = now + d
    /\ UNCHANGED <<frame, asking, stepVars, timerVars, truthVars>>

SendFrame ==
    /\ frame = Never
    /\ frame' = now
    /\ UNCHANGED <<now, asking, stepVars, timerVars, truthVars>>

-----------------------------------------------------------------------------
(* wl_surface_frame_done *)

\* Mutant: a time that has wrapped is not understood.
StepWithoutWrap(time) ==
    IF last_frame # 0 /\ time >= last_frame THEN time - last_frame ELSE FirstStep

\* uint32_t arithmetic; 0 stands for "no frame yet".
Step(time) == IF last_frame # 0 THEN (time - last_frame) % Modulus ELSE FirstStep

Decayed(timer, dt) == IF timer > dt THEN timer - dt ELSE 0

\* Mutant: a countdown in its last frame is over already.
AdvanceCountdownEarly(dt) ==
    /\ countdown_timer' = IF counting_down THEN Decayed(countdown_timer, dt) ELSE countdown_timer
    /\ counting_down' = (counting_down /\ countdown_timer > 2 * dt)
    /\ auth_result' = IF counting_down /\ countdown_timer <= 2 * dt THEN 1 ELSE auth_result

AdvanceCountdown(dt) ==
    /\ countdown_timer' = IF counting_down THEN Decayed(countdown_timer, dt) ELSE countdown_timer
    /\ counting_down' = (counting_down /\ countdown_timer > dt)
    /\ auth_result' = IF counting_down /\ countdown_timer <= dt THEN 1 ELSE auth_result

SurfaceFrameDone ==
    /\ frame # Never /\ ~asking
    /\ LET dt == Step(frame % Modulus) IN
           /\ last_dt' = dt
           /\ flash_timer' = Decayed(flash_timer, dt)
           /\ AdvanceCountdown(dt)
    /\ last_frame' = frame % Modulus
    /\ frame' = Never
    /\ frame_at' = frame
    /\ measured' = (measured /\ frame_at # Never /\ frame_at % Modulus # 0
                             /\ frame - frame_at < Modulus)
    /\ UNCHANGED <<now, asking, started, answered>>

-----------------------------------------------------------------------------
(* wl_keyboard_key, Return *)

AskPam ==
    /\ ~asking
    /\ asking' = TRUE
    /\ UNCHANGED <<envVars, stepVars, timerVars, truthVars>>

PamRefuses ==
    /\ asking
    /\ asking' = FALSE
    /\ flash_timer' = Flash
    /\ UNCHANGED <<envVars, stepVars, counting_down, countdown_timer, auth_result,
                   truthVars>>

PamAccepts ==
    /\ asking
    /\ asking' = FALSE
    /\ flash_timer' = Flash
    /\ counting_down' = TRUE /\ countdown_timer' = Countdown
    /\ started' = frame_at /\ answered' = now /\ measured' = TRUE
    /\ UNCHANGED <<envVars, stepVars, auth_result, frame_at>>

ClockNext ==
    \/ \E d \in Pause : Pass(d)
    \/ SendFrame
    \/ SurfaceFrameDone
    \/ AskPam
    \/ PamRefuses
    \/ PamAccepts

ClockSpec == ClockInit /\ [][ClockNext]_clockVars

-----------------------------------------------------------------------------
Time == Nat \cup {Never}

ClockTypeOK ==
    /\ now \in Nat /\ frame \in Time /\ asking \in BOOLEAN
    /\ last_frame \in 0..(Modulus - 1) /\ last_dt \in Nat
    /\ counting_down \in BOOLEAN /\ countdown_timer \in 0..Countdown
    /\ auth_result \in {0, 1} /\ flash_timer \in 0..Flash
    /\ frame_at \in Time /\ started \in Time /\ answered \in Time /\ measured \in BOOLEAN

\* The countdown keeps the compositor's time, also when that wraps around:
\* it stands where the frames since the one before the key press have taken
\* it, unless the clock showed 0 or stood still for a whole period.
CountdownKeepsTime ==
    counting_down /\ measured /\ started # Never =>
        countdown_timer = Countdown - (frame_at - started)

\* From the frame before the key press until PAM has answered.
Waited == answered - started

\* The timer is set when PAM has answered, but the next frame takes off all
\* the time since the frame before the key press, PAM's included.  So the
\* countdown ends early by what was waited, and by no more: it is over with
\* the first frame that comes Countdown - Waited after the answer, if only the
\* first one there is (wl_callback_listener.h 39, 54-61, keyboard.h 71-79).
EarlyByTheWaitOnly ==
    measured /\ started # Never =>
        /\ counting_down => frame_at < answered + (Countdown - Waited)
        /\ auth_result = 1 /\ ~counting_down =>
               frame_at >= answered + (Countdown - Waited)

-----------------------------------------------------------------------------
(* What a comment says, and the code does not do. *)

\* client_state.h 73 calls it the "countdown after successful auth", and
\* keyboard.h 77 has it start with the success: the unlock would come with a
\* frame that is the whole countdown later than PAM's answer.
CountdownAfterAnswer ==
    auth_result = 1 /\ ~counting_down /\ measured /\ started # Never =>
        frame_at >= answered + Countdown
=============================================================================
