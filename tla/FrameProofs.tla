----------------------------- MODULE FrameProofs ----------------------------
(***************************************************************************)
(* Proofs about what a frame needs.                                        *)
(*                                                                         *)
(* FrameClock, for any modulus, any durations and any clock: the countdown *)
(* keeps the compositor's time from the frame before the key press, so it  *)
(* ends early by as long as PAM was waited for, and by no more.            *)
(*                                                                         *)
(* LockOutputs, for any number of outputs, any sizes and any number of     *)
(* configure events: every picture fits its output, and EGL surfaces are   *)
(* neither leaked nor used after their end.                                *)
(***************************************************************************)
EXTENDS FrameClock, LockOutputs, SequenceTheorems, TLAPS

-----------------------------------------------------------------------------
(* Time *)

\* What the program remembers of the last frame is its time, modulo 2^32.
FramesRemembered ==
    /\ frame_at = Never => last_frame = 0 /\ started = Never
    /\ frame_at # Never => last_frame = frame_at % Modulus

\* Frames come in the order of their times.
FramesOrdered ==
    /\ frame_at <= now /\ frame <= now
    /\ frame # Never => frame_at <= frame
    /\ started <= frame_at

ClockInv ==
    /\ ClockTypeOK
    /\ FramesRemembered
    /\ FramesOrdered
    /\ CountdownKeepsTime
    /\ counting_down => countdown_timer > 0
    /\ EarlyByTheWaitOnly

-----------------------------------------------------------------------------
LEMMA Remainder ==
    ASSUME NEW a \in Nat
    PROVE  /\ a % Modulus \in 0..(Modulus - 1)
           /\ a \div Modulus \in Int
           /\ a % Modulus = a - Modulus * (a \div Modulus)
<1>1. a % Modulus \in 0..(Modulus - 1)
  BY ClockAssumption
<1>2. a % Modulus = a - Modulus * (a \div Modulus)
  BY ClockAssumption
<1>3. a \div Modulus \in Int
  BY ClockAssumption
<1> QED BY <1>1, <1>2, <1>3

LEMMA RemainderUnique ==
    ASSUME NEW a \in Int, NEW q \in Int, NEW r \in 0..(Modulus - 1), a = q * Modulus + r
    PROVE  a % Modulus = r
  BY ClockAssumption

\* The difference of two times, both modulo 2^32, is the time between them if
\* that is less than 2^32.
LEMMA DifferenceOfRemainders ==
    ASSUME NEW a \in Nat, NEW b \in Nat, a <= b, b - a < Modulus
    PROVE  ((b % Modulus) - (a % Modulus)) % Modulus = b - a
<1> DEFINE qa == a \div Modulus
           qb == b \div Modulus
           ra == a % Modulus
           rb == b % Modulus
<1>1. /\ qa \in Int /\ qb \in Int /\ ra \in Int /\ rb \in Int
      /\ ra = a - Modulus * qa /\ rb = b - Modulus * qb
      /\ Modulus \in Nat
  BY Remainder, ClockAssumption
<1> HIDE DEF qa, qb, ra, rb
<1>2. rb - ra = (qa - qb) * Modulus + (b - a)
  BY <1>1
<1>3. b - a \in 0..(Modulus - 1)
  BY <1>1
<1>4. (rb - ra) % Modulus = b - a
  BY <1>1, <1>2, <1>3, RemainderUnique
<1> QED BY <1>4, Zenon DEF ra, rb

LEMMA StepTyped ==
    ASSUME NEW time \in Nat, last_frame \in Nat
    PROVE  Step(time) \in Nat
<1>1. (time - last_frame) % Modulus \in Nat
  BY ClockAssumption
<1> QED BY <1>1, ClockAssumption DEF Step

\* A step is the time between two frames, unless the clock showed 0 at the
\* first one or a whole period has passed.
LEMMA StepIsGap ==
    ASSUME ClockInv, frame # Never, frame_at # Never, frame_at % Modulus # 0,
           frame - frame_at < Modulus
    PROVE  Step(frame % Modulus) = frame - frame_at
<1>1. frame \in Nat /\ frame_at \in Nat /\ frame_at <= frame
  BY DEF ClockInv, ClockTypeOK, FramesOrdered, Time
<1>2. last_frame = frame_at % Modulus
  BY DEF ClockInv, FramesRemembered
<1>3. ((frame % Modulus) - (frame_at % Modulus)) % Modulus = frame - frame_at
  BY <1>1, DifferenceOfRemainders
<1>4. last_frame # 0
  BY <1>2
<1> QED BY <1>2, <1>3, <1>4, Zenon DEF Step

-----------------------------------------------------------------------------
LEMMA ClockInvInit == ClockInit => ClockInv
<1> SUFFICES ASSUME ClockInit
             PROVE  ClockInv
  OBVIOUS
<1>1. now \in Nat /\ Modulus \in Nat \ {0} /\ Countdown \in Nat /\ Flash \in Nat
  BY ClockAssumption DEF ClockInit
<1>2. ClockTypeOK
  <2>1. asking \in BOOLEAN /\ counting_down \in BOOLEAN /\ measured \in BOOLEAN
    BY DEF ClockInit
  <2>2. 0 \in 0..(Modulus - 1) /\ 0 \in 0..Countdown /\ 0 \in 0..Flash /\ Never \in Time
    BY <1>1 DEF Time
  <2>3. now \in Nat /\ last_dt \in Nat /\ auth_result \in {0, 1}
    BY <1>1 DEF ClockInit
  <2>4. /\ last_frame \in 0..(Modulus - 1) /\ countdown_timer \in 0..Countdown
        /\ flash_timer \in 0..Flash
        /\ frame \in Time /\ frame_at \in Time /\ started \in Time /\ answered \in Time
    BY <2>2, Zenon DEF ClockInit
  <2> QED BY <2>1, <2>3, <2>4 DEF ClockTypeOK
<1> QED
  BY <1>1, <1>2
  DEF ClockInit, ClockInv, FramesRemembered, FramesOrdered, CountdownKeepsTime,
      EarlyByTheWaitOnly, Waited, Never

LEMMA SurfaceFrameDoneKeepsInv ==
    ASSUME ClockInv, SurfaceFrameDone
    PROVE  ClockInv'
<1> DEFINE dt == Step(frame % Modulus)
<1>1. /\ frame # Never
      /\ last_dt' = dt /\ flash_timer' = Decayed(flash_timer, dt)
      /\ countdown_timer' = IF counting_down THEN Decayed(countdown_timer, dt)
                            ELSE countdown_timer
      /\ counting_down' = (counting_down /\ countdown_timer > dt)
      /\ auth_result' = IF counting_down /\ countdown_timer <= dt THEN 1 ELSE auth_result
      /\ last_frame' = frame % Modulus /\ frame' = Never /\ frame_at' = frame
      /\ measured' = (measured /\ frame_at # Never /\ frame_at % Modulus # 0
                               /\ frame - frame_at < Modulus)
      /\ UNCHANGED <<now, asking, started, answered>>
  BY DEF SurfaceFrameDone, AdvanceCountdown
<1>2. /\ ClockTypeOK /\ FramesOrdered /\ FramesRemembered
      /\ CountdownKeepsTime /\ EarlyByTheWaitOnly
      /\ (counting_down => countdown_timer > 0)
  BY DEF ClockInv
<1>3. frame \in Nat /\ frame_at <= frame /\ frame % Modulus \in 0..(Modulus - 1)
  BY <1>1, <1>2, Remainder DEF ClockTypeOK, FramesOrdered, Time
<1>4. dt \in Nat
  BY <1>2, <1>3, StepTyped, ClockAssumption DEF ClockTypeOK
<1>5. measured' => measured /\ frame_at # Never /\ dt = frame - frame_at
  BY <1>1, StepIsGap
<1> HIDE DEF dt
<1>6. ClockTypeOK'
  <2>1. counting_down' \in BOOLEAN /\ measured' \in BOOLEAN
    BY <1>1
  <2>2. countdown_timer' \in 0..Countdown /\ flash_timer' \in 0..Flash
    BY <1>1, <1>2, <1>4, ClockAssumption DEF ClockTypeOK, Decayed
  <2>3. auth_result' \in {0, 1} /\ frame_at' \in Time /\ frame' \in Time
    BY <1>1, <1>2, <1>3 DEF ClockTypeOK, Time, Never
  <2> QED BY <1>1, <1>2, <1>3, <1>4, <2>1, <2>2, <2>3 DEF ClockTypeOK
<1>7. FramesRemembered' /\ FramesOrdered'
  BY <1>1, <1>2, <1>3 DEF FramesRemembered, FramesOrdered, ClockTypeOK, Time, Never
<1>8. CountdownKeepsTime'
  <2> SUFFICES ASSUME counting_down', measured', started # Never
               PROVE  countdown_timer' = Countdown - (frame - started)
    BY <1>1 DEF CountdownKeepsTime
  <2>1. counting_down /\ countdown_timer > dt /\ countdown_timer' = Decayed(countdown_timer, dt)
    BY <1>1
  <2>2. countdown_timer' = countdown_timer - dt
    BY <2>1 DEF Decayed
  <2>3. countdown_timer = Countdown - (frame_at - started) /\ dt = frame - frame_at
    BY <1>2, <1>5, <2>1 DEF CountdownKeepsTime
  <2> QED
    BY <1>2, <1>3, <2>2, <2>3, ClockAssumption DEF ClockTypeOK, Time, Never
<1>9. ASSUME counting_down' PROVE countdown_timer' > 0
  <2>1. counting_down /\ countdown_timer > dt /\ countdown_timer' = Decayed(countdown_timer, dt)
    BY <1>1, <1>9, Zenon
  <2>2. countdown_timer' = countdown_timer - dt
    BY <2>1 DEF Decayed
  <2> QED BY <1>2, <1>4, <2>1, <2>2, ClockAssumption DEF ClockTypeOK
<1>10. EarlyByTheWaitOnly'
  <2> SUFFICES ASSUME measured', started # Never
               PROVE  /\ counting_down' => frame < started + Countdown
                      /\ auth_result' = 1 /\ ~counting_down' => frame >= started + Countdown
    <3>1. answered + (Countdown - (answered - started)) = started + Countdown
      BY <1>2, ClockAssumption DEF ClockTypeOK, Time, Never
    <3> QED BY <1>1, <3>1 DEF EarlyByTheWaitOnly, Waited
  <2>1. measured /\ frame_at # Never /\ dt = frame - frame_at
    BY <1>5
  <2>2. /\ frame_at \in Nat /\ started \in Nat /\ Countdown \in Nat
        /\ answered \in Int /\ countdown_timer \in Int
    BY <1>2, <2>1, ClockAssumption DEF ClockTypeOK, Time, Never
  <2>3. counting_down' => frame < started + Countdown
    <3> SUFFICES ASSUME counting_down'
                 PROVE  frame < started + Countdown
      OBVIOUS
    <3>1. countdown_timer' = Countdown - (frame - started)
      BY <1>1, <1>8 DEF CountdownKeepsTime
    <3> QED BY <1>3, <1>9, <2>2, <3>1
  <2>4. ASSUME auth_result' = 1, ~counting_down'
        PROVE  frame >= started + Countdown
    <3>1. CASE counting_down
      <4>1. ~(countdown_timer > dt)
        BY <1>1, <2>4, <3>1, Zenon
      <4>2. countdown_timer <= dt
        BY <1>4, <2>2, <4>1
      <4>3. countdown_timer = Countdown - (frame_at - started)
        BY <1>2, <2>1, <3>1 DEF CountdownKeepsTime
      <4> QED BY <1>3, <2>1, <2>2, <4>2, <4>3
    <3>2. CASE ~counting_down
      <4>1. auth_result = 1
        BY <1>1, <2>4, <3>2
      <4>2. frame_at >= answered + (Countdown - (answered - started))
        BY <1>2, <2>1, <3>2, <4>1 DEF EarlyByTheWaitOnly, Waited
      <4> QED BY <1>3, <2>2, <4>2
    <3> QED BY <3>1, <3>2
  <2> QED BY <2>3, <2>4
<1> QED BY <1>6, <1>7, <1>8, <1>9, <1>10 DEF ClockInv

LEMMA ClockInvNext ==
    ASSUME ClockInv, [ClockNext]_clockVars
    PROVE  ClockInv'
<1>0. /\ ClockTypeOK /\ FramesOrdered /\ FramesRemembered
      /\ CountdownKeepsTime /\ EarlyByTheWaitOnly
      /\ (counting_down => countdown_timer > 0)
  BY DEF ClockInv
<1> USE DEF envVars, stepVars, timerVars, truthVars
<1>1. ASSUME NEW d \in Pause, Pass(d) PROVE ClockInv'
  <2>1. d \in Nat
    BY ClockAssumption
  <2> QED
    BY <1>0, <1>1, <2>1
    DEF Pass, ClockInv, ClockTypeOK, FramesOrdered, FramesRemembered, CountdownKeepsTime,
        EarlyByTheWaitOnly, Waited, Time, Never
<1>2. CASE SendFrame
  BY <1>0, <1>2
  DEF SendFrame, ClockInv, ClockTypeOK, FramesOrdered, FramesRemembered,
      CountdownKeepsTime, EarlyByTheWaitOnly, Waited, Time, Never
<1>3. CASE SurfaceFrameDone
  BY <1>3, SurfaceFrameDoneKeepsInv
<1>4. CASE AskPam \/ PamRefuses
  <2>1. /\ UNCHANGED <<now, frame, last_frame, last_dt, counting_down, countdown_timer,
                       auth_result, frame_at, started, answered,
                       measured>>
        /\ asking' \in BOOLEAN
    BY <1>4 DEF AskPam, PamRefuses
  <2>2. flash_timer' \in 0..Flash
    BY <1>0, <1>4, ClockAssumption DEF AskPam, PamRefuses, ClockTypeOK, Time
  <2>3. ClockTypeOK'
    BY <1>0, <2>1, <2>2 DEF ClockTypeOK
  <2> QED
    BY <1>0, <2>1, <2>3
    DEF ClockInv, FramesOrdered, FramesRemembered, CountdownKeepsTime, EarlyByTheWaitOnly, Waited
<1>5. CASE PamAccepts
  <2>1. ClockTypeOK'
    <3>1. /\ UNCHANGED <<now, frame, last_frame, last_dt, auth_result, frame_at>>
          /\ asking' \in BOOLEAN /\ counting_down' \in BOOLEAN /\ measured' \in BOOLEAN
          /\ started' = frame_at /\ answered' = now
      BY <1>5 DEF PamAccepts
    <3>2. flash_timer' \in 0..Flash /\ countdown_timer' \in 0..Countdown
      BY <1>5, ClockAssumption DEF PamAccepts
    <3>3. started' \in Time /\ answered' \in Time
      BY <1>0, <3>1 DEF ClockTypeOK, Time
    <3> QED BY <1>0, <3>1, <3>2, <3>3 DEF ClockTypeOK
  <2>2. FramesOrdered' /\ FramesRemembered'
    BY <1>0, <1>5 DEF PamAccepts, FramesOrdered, FramesRemembered, ClockTypeOK, Time, Never
  <2>3. CountdownKeepsTime' /\ countdown_timer' > 0
    BY <1>0, <1>5, ClockAssumption
    DEF PamAccepts, CountdownKeepsTime, ClockTypeOK, Time, Never
  <2>4. EarlyByTheWaitOnly'
    <3>1. /\ counting_down' /\ started' = frame_at /\ frame_at' = frame_at
          /\ answered' = now /\ now \in Int /\ frame_at \in Int
      BY <1>0, <1>5 DEF PamAccepts, ClockTypeOK, Time, Never
    <3>2. answered' + (Countdown - (answered' - started')) = frame_at' + Countdown
      BY <3>1, ClockAssumption
    <3> QED BY <3>1, <3>2, ClockAssumption DEF EarlyByTheWaitOnly, Waited
  <2> QED BY <2>1, <2>2, <2>3, <2>4 DEF ClockInv
<1>6. CASE UNCHANGED clockVars
  BY <1>0, <1>6
  DEF clockVars, ClockInv, ClockTypeOK, FramesOrdered, FramesRemembered,
      CountdownKeepsTime, EarlyByTheWaitOnly, Waited
<1> QED BY <1>1, <1>2, <1>3, <1>4, <1>5, <1>6 DEF ClockNext

LEMMA ClockInvariant == ClockSpec => []ClockInv
<1>1. ClockInit => ClockInv
  BY ClockInvInit
<1>2. ClockInv /\ [ClockNext]_clockVars => ClockInv'
  BY ClockInvNext
<1> QED BY <1>1, <1>2, PTL DEF ClockSpec

\* The timers stay within their limits, for any durations.
THEOREM ClockTypeCorrect == ClockSpec => []ClockTypeOK
<1>1. ClockInv => ClockTypeOK
  BY DEF ClockInv
<1> QED BY <1>1, ClockInvariant, PTL

\* The countdown keeps the compositor's time over any wrap-around of its clock
\* (wl_callback_listener.h 39, 54-61).
THEOREM CountdownInTime == ClockSpec => []CountdownKeepsTime
<1>1. ClockInv => CountdownKeepsTime
  BY DEF ClockInv
<1> QED BY <1>1, ClockInvariant, PTL

\* The time that PAM takes is taken off the countdown: that is over with the
\* first frame Countdown - Waited after PAM's answer, no sooner and no later
\* (wl_callback_listener.h 39, 54-61, keyboard.h 71-85).
THEOREM CountdownShortByTheWait == ClockSpec => []EarlyByTheWaitOnly
<1>1. ClockInv => EarlyByTheWaitOnly
  BY DEF ClockInv
<1> QED BY <1>1, ClockInvariant, PTL

-----------------------------------------------------------------------------
(* Surfaces *)

Alive(i) == surfaces[i].alive

\* Every output's surface is its own and alive, and so is the window's.
SurfacesOwned ==
    /\ surfaces[Window].of = 0 /\ Alive(Window)
    /\ \A i \in DOMAIN surfaces : surfaces[i].of = 0 => i = Window
    /\ \A o \in Outputs : egl[o] # None => surfaces[egl[o]].of = o /\ Alive(egl[o])

\* An output that has been told its size has it, and so has its surface.
SizesKept ==
    \A o \in Outputs :
        asked[o] # 0 =>
            egl[o] # None /\ size[o] = asked[o] /\ surfaces[egl[o]].size = asked[o]

ConfiguredHasSurface == \A o \in Outputs : configured[o] => egl[o] # None

PassInLoop == pass # Over => phase = "looping"

LockOutInv ==
    /\ LockOutTypeOK
    /\ phase # "over" => SurfacesOwned
    /\ SizesKept
    /\ ConfiguredHasSurface
    /\ PassInLoop
    /\ fbo = src
    /\ PicturesFit
    /\ SurfacesInUseAlive
    /\ NoSurfaceLeaks
    /\ FailedSwapNeedsZero

-----------------------------------------------------------------------------
\* What is left of the sequence of surfaces when one of them is replaced.
LEMMA ReplaceSurfaces ==
    ASSUME LockOutInv, phase # "over",
           NEW o \in Outputs, NEW s \in Sizes, egl[o] # None, Replace(o, s)
    PROVE  /\ surfaces' \in Seq(Surface) /\ surfaces' # <<>>
           /\ DOMAIN surfaces' = DOMAIN surfaces \cup {Len(surfaces) + 1}
           /\ Len(surfaces) + 1 \notin DOMAIN surfaces
           /\ surfaces'[Len(surfaces) + 1] = [of |-> o, size |-> s, alive |-> TRUE]
           /\ ~surfaces'[egl[o]].alive
           /\ surfaces'[egl[o]].of = surfaces[egl[o]].of
           /\ \A i \in DOMAIN surfaces : i # egl[o] => surfaces'[i] = surfaces[i]
<1> DEFINE ended == [surfaces EXCEPT ![egl[o]].alive = FALSE]
           new == [of |-> o, size |-> s, alive |-> TRUE]
<1>1. surfaces \in Seq(Surface) /\ egl[o] \in DOMAIN surfaces
  BY DEF LockOutInv, LockOutTypeOK
<1>2. /\ ended \in Seq(Surface) /\ Len(ended) = Len(surfaces)
      /\ ~ended[egl[o]].alive /\ ended[egl[o]].of = surfaces[egl[o]].of
      /\ \A i \in DOMAIN surfaces : i # egl[o] => ended[i] = surfaces[i]
  <2> DEFINE last == [surfaces[egl[o]] EXCEPT !.alive = FALSE]
  <2>1. surfaces[egl[o]] \in Surface
    BY <1>1
  <2>2. last \in Surface /\ ~last.alive /\ last.of = surfaces[egl[o]].of
    BY <2>1 DEF Surface
  <2>3. ended = [surfaces EXCEPT ![egl[o]] = last] /\ egl[o] \in 1..Len(surfaces)
    BY <1>1
  <2> HIDE DEF last, ended
  <2> QED BY <1>1, <2>2, <2>3, ExceptSeq
<1>3. new \in Surface
  BY DEF Surface
<1>4. surfaces' = Append(ended, new)
  BY DEF Replace
<1> HIDE DEF ended, new
<1> QED
  <2>1. /\ surfaces' \in Seq(Surface) /\ Len(surfaces') = Len(surfaces) + 1
        /\ surfaces'[Len(surfaces) + 1] = new
        /\ \A i \in 1..Len(surfaces) : surfaces'[i] = ended[i]
    BY <1>2, <1>3, <1>4
  <2>2. DOMAIN surfaces = 1..Len(surfaces) /\ DOMAIN surfaces' = 1..(Len(surfaces) + 1)
    BY <1>1, <2>1
  <2> QED BY <1>1, <1>2, <2>1, <2>2 DEF new

-----------------------------------------------------------------------------
LEMMA LockOutInvInit == LockOutInit => LockOutInv
<1> SUFFICES ASSUME LockOutInit
             PROVE  LockOutInv
  OBVIOUS
<1> USE OutputAssumption
<1>1. /\ surfaces \in Seq(Surface) /\ surfaces # <<>>
      /\ surfaces[1] = [of |-> 0, size |-> Temp, alive |-> TRUE]
      /\ DOMAIN surfaces = {1}
  BY DEF LockOutInit, Surface
<1>2. LockOutTypeOK
  BY <1>1 DEF LockOutInit, LockOutTypeOK, Over, Nothing, Size, Window, None
<1> QED
  BY <1>1, <1>2
  DEF LockOutInit, LockOutInv, SurfacesOwned, Alive, SizesKept, ConfiguredHasSurface,
      PassInLoop, PicturesFit, SurfacesInUseAlive, NoSurfaceLeaks, FailedSwapNeedsZero,
      Over, Window, None

\* What a swap does when the surface of output o is drawn.
LEMMA RenderOn ==
    ASSUME LockOutInv, NEW o \in Outputs, Render,
           surfaces' \in Seq(Surface), state_egl' \in DOMAIN surfaces',
           surfaces'[state_egl'].of = o, fbo' \in Size, state_size' \in Size
    PROVE  /\ shown' \in [Outputs -> [buffer : Size, scene : Size, viewport : Size]]
           /\ failed' \in BOOLEAN
           /\ \A q \in Outputs : q # o => shown'[q] = shown[q]
           /\ SwapWorks =>
                  /\ shown'[o] = [buffer |-> surfaces'[state_egl'].size,
                                  scene |-> fbo', viewport |-> state_size']
                  /\ failed' = failed
           /\ ~SwapWorks => shown' = shown /\ failed' = TRUE
<1>1. shown \in [Outputs -> [buffer : Size, scene : Size, viewport : Size]] /\ failed \in BOOLEAN
  BY DEF LockOutInv, LockOutTypeOK
<1>2. surfaces'[state_egl'].size \in Size
  <2>1. surfaces'[state_egl'] \in Surface
    OBVIOUS
  <2> QED BY <2>1 DEF Surface, Size
<1>3. CASE SwapWorks
  <2>1. shown' = [shown EXCEPT ![o] = [buffer |-> surfaces'[state_egl'].size,
                                       scene |-> fbo', viewport |-> state_size']]
    BY <1>3 DEF Render
  <2>2. failed' = failed
    BY <1>3 DEF Render
  <2> QED BY <1>1, <1>2, <1>3, <2>1, <2>2
<1>4. CASE ~SwapWorks
  BY <1>1, <1>4 DEF Render
<1> QED BY <1>3, <1>4

LEMMA HandleLockedKeepsInv ==
    ASSUME LockOutInv, HandleLocked
    PROVE  LockOutInv'
<1> DEFINE new == [o \in Outputs |-> [of |-> o, size |-> Temp, alive |-> TRUE]]
<1>1. /\ surfaces \in Seq(Surface) /\ surfaces # <<>> /\ Len(surfaces) \in Nat
      /\ DOMAIN surfaces = 1..Len(surfaces)
      /\ N \in Nat
  BY OutputAssumption DEF LockOutInv, LockOutTypeOK
<1>2. new \in Seq(Surface) /\ Len(new) = N
  <2>1. \A o \in 1..N : [of |-> o, size |-> Temp, alive |-> TRUE] \in Surface
    BY DEF Surface, Outputs
  <2> DEFINE e(o) == [of |-> o, size |-> Temp, alive |-> TRUE]
  <2>2. \A o \in 1..N : e(o) \in Surface
    BY <2>1
  <2>3. new = [o \in 1..N |-> e(o)]
    BY DEF Outputs
  <2> QED BY <1>1, <2>2, <2>3
<1>3. /\ surfaces' \in Seq(Surface)
      /\ Len(surfaces') = Len(surfaces) + N
      /\ \A i \in 1..(Len(surfaces) + N) :
             surfaces'[i] = IF i <= Len(surfaces) THEN surfaces[i] ELSE new[i - Len(surfaces)]
  <2>1. surfaces' = surfaces \o new
    BY DEF HandleLocked
  <2> HIDE DEF new
  <2> QED BY <1>1, <1>2, <2>1, ConcatProperties
<1> HIDE DEF new
<1>4. /\ \A i \in DOMAIN surfaces : i \in DOMAIN surfaces' /\ surfaces'[i] = surfaces[i]
      /\ \A o \in Outputs : Len(surfaces) + o \in DOMAIN surfaces'
                            /\ surfaces'[Len(surfaces) + o] = new[o]
      /\ \A i \in DOMAIN surfaces' :
             i \in DOMAIN surfaces \/ \E o \in Outputs : i = Len(surfaces) + o
  <2>1. DOMAIN surfaces' = 1..(Len(surfaces) + N)
    BY <1>1, <1>3
  <2>3. \A i \in 1..Len(surfaces) : surfaces'[i] = surfaces[i] /\ i \in 1..(Len(surfaces) + N)
    BY <1>1, <1>3
  <2>4. \A o \in 1..N : /\ Len(surfaces) + o \in 1..(Len(surfaces) + N)
                        /\ surfaces'[Len(surfaces) + o] = new[o]
    <3> SUFFICES ASSUME NEW o \in 1..N
                 PROVE  /\ Len(surfaces) + o \in 1..(Len(surfaces) + N)
                        /\ surfaces'[Len(surfaces) + o] = new[o]
      OBVIOUS
    <3>1. /\ Len(surfaces) + o \in 1..(Len(surfaces) + N)
          /\ ~(Len(surfaces) + o <= Len(surfaces))
          /\ (Len(surfaces) + o) - Len(surfaces) = o
      BY <1>1
    <3> QED BY <1>3, <3>1
  <2>2. \A i \in 1..(Len(surfaces) + N) :
            i \in 1..Len(surfaces) \/ \E o \in 1..N : i = Len(surfaces) + o
    <3> SUFFICES ASSUME NEW i \in 1..(Len(surfaces) + N), i \notin 1..Len(surfaces)
                 PROVE  i - Len(surfaces) \in 1..N /\ i = Len(surfaces) + (i - Len(surfaces))
      OBVIOUS
    <3> QED BY <1>1
  <2> QED BY <1>1, <2>1, <2>2, <2>3, <2>4 DEF Outputs
<1>5. /\ \A o \in Outputs : egl[o] = None
      /\ egl' = [o \in Outputs |-> Len(surfaces) + o]
      /\ phase # "over" /\ pass = Over
      /\ UNCHANGED <<phase, pass, size, configured, state_egl, state_size, src, fbo,
                     current, shown, asked, zero_seen, failed>>
  BY DEF HandleLocked, stateVars, ghostVars
<1>6. \A o \in Outputs : asked[o] = 0 /\ ~configured[o]
  BY <1>5 DEF LockOutInv, SizesKept, ConfiguredHasSurface
<1>7. LockOutTypeOK'
  <2>1. egl' \in [Outputs -> {None} \cup DOMAIN surfaces']
    BY <1>4, <1>5
  <2>2. surfaces' # <<>>
    BY <1>1, <1>3
  <2>3. state_egl' \in DOMAIN surfaces' /\ current' \in {None} \cup DOMAIN surfaces'
    BY <1>4, <1>5 DEF LockOutInv, LockOutTypeOK
  <2> QED BY <1>3, <1>5, <2>1, <2>2, <2>3 DEF LockOutInv, LockOutTypeOK
<1>8. /\ \A i \in DOMAIN surfaces : surfaces'[i] = surfaces[i]
      /\ \A o \in Outputs : /\ surfaces'[egl'[o]].of = o /\ surfaces'[egl'[o]].alive
                            /\ surfaces'[Len(surfaces) + o].of = o
                            /\ egl'[o] = Len(surfaces) + o
                            /\ egl'[o] # Window /\ egl'[o] # None
  <2>1. Len(surfaces) > 0
    BY <1>1
  <2>2. \A o \in Outputs : new[o].of = o /\ new[o].alive
    BY DEF new
  <2>3. \A o \in Outputs : /\ egl'[o] = Len(surfaces) + o
                           /\ egl'[o] # Window /\ egl'[o] # None
    BY <1>1, <1>5, <2>1 DEF Window, None, Outputs
  <2> QED BY <1>4, <2>2, <2>3
<1>9. SurfacesOwned'
  <2>1. Window \in DOMAIN surfaces /\ SurfacesOwned
    BY <1>1, <1>5 DEF LockOutInv, Window
  <2>2. surfaces'[Window].of = 0 /\ surfaces'[Window].alive
    BY <1>8, <2>1 DEF SurfacesOwned, Alive
  <2>3. \A o \in Outputs : surfaces'[egl'[o]].of = o /\ surfaces'[egl'[o]].alive
    BY <1>8
  <2>4. ASSUME NEW i \in DOMAIN surfaces', surfaces'[i].of = 0
        PROVE  i = Window
    <3>1. CASE i \in DOMAIN surfaces
      BY <1>8, <2>1, <2>4, <3>1 DEF SurfacesOwned
    <3>2. CASE i \notin DOMAIN surfaces
      <4>1. PICK o \in Outputs : i = Len(surfaces) + o
        BY <1>4, <3>2
      <4>2. surfaces'[i].of = o
        BY <1>8, <4>1
      <4> QED BY <2>4, <4>2, OutputAssumption DEF Outputs
    <3> QED BY <3>1, <3>2
  <2> QED BY <2>2, <2>3, <2>4 DEF SurfacesOwned, Alive
<1>10. NoSurfaceLeaks'
  <2> SUFFICES ASSUME NEW i \in DOMAIN surfaces', surfaces'[i].alive
               PROVE  i = Window \/ egl'[surfaces'[i].of] = i
    BY <1>5 DEF NoSurfaceLeaks
  <2>1. CASE i \in DOMAIN surfaces
    <3>1. surfaces[i].alive /\ surfaces[i] \in Surface
      BY <1>1, <1>8, <2>1
    <3>2. i = Window \/ egl[surfaces[i].of] = i
      BY <1>5, <2>1, <3>1 DEF LockOutInv, NoSurfaceLeaks
    <3>3. CASE i # Window
      <4>1. surfaces[i].of \in Outputs
        BY <1>5, <2>1, <3>1, <3>3 DEF Surface, LockOutInv, SurfacesOwned
      <4>2. surfaces[i].of \notin Outputs
        BY <1>1, <1>5, <2>1, <3>2, <3>3 DEF None
      <4> QED BY <4>1, <4>2
    <3> QED BY <3>3
  <2>2. CASE i \notin DOMAIN surfaces
    <3>1. PICK o \in Outputs : i = Len(surfaces) + o
      BY <1>4, <2>2
    <3>2. surfaces'[i].of = o
      BY <1>8, <3>1
    <3> QED BY <1>8, <3>1, <3>2
  <2> QED BY <2>1, <2>2
<1>11. SurfacesInUseAlive'
  BY <1>5, <1>8 DEF LockOutInv, LockOutTypeOK, SurfacesInUseAlive, None
<1> QED
  BY <1>5, <1>6, <1>7, <1>9, <1>10, <1>11
  DEF LockOutInv, SizesKept, ConfiguredHasSurface, PassInLoop, PicturesFit, FailedSwapNeedsZero

-----------------------------------------------------------------------------
\* lock_surface_configure, when there is a new size.
LEMMA ConfigureSizeKeepsInv ==
    ASSUME LockOutInv, NEW o \in Outputs, NEW s \in Sizes, Configure(o, s)
    PROVE  LockOutInv'
<1> DEFINE n == Len(surfaces) + 1
<1>1. /\ s > 0 /\ phase # "over" /\ pass = Over /\ egl[o] # None
      /\ Replace(o, s) /\ Render
      /\ UNCHANGED <<phase, pass>>
  BY OutputAssumption DEF Configure
<1>2. /\ surfaces' \in Seq(Surface) /\ surfaces' # <<>>
      /\ DOMAIN surfaces' = DOMAIN surfaces \cup {n} /\ n \notin DOMAIN surfaces
      /\ surfaces'[n] = [of |-> o, size |-> s, alive |-> TRUE]
      /\ ~surfaces'[egl[o]].alive /\ surfaces'[egl[o]].of = surfaces[egl[o]].of
      /\ \A i \in DOMAIN surfaces : i # egl[o] => surfaces'[i] = surfaces[i]
  BY <1>1, ReplaceSurfaces
<1>3. /\ egl' = [egl EXCEPT ![o] = n] /\ size' = [size EXCEPT ![o] = s]
      /\ current' = n
  BY <1>1 DEF Replace
<1> HIDE DEF n
<1>4. /\ egl \in [Outputs -> {None} \cup DOMAIN surfaces] /\ size \in [Outputs -> Sizes \cup {0}]
      /\ configured \in [Outputs -> BOOLEAN] /\ asked \in [Outputs -> Sizes \cup {0}]
      /\ surfaces \in Seq(Surface) /\ 1 \in DOMAIN surfaces
  BY DEF LockOutInv, LockOutTypeOK
<1>5. /\ egl'[o] = n /\ size'[o] = s
      /\ \A q \in Outputs : q # o => egl'[q] = egl[q] /\ size'[q] = size[q]
  BY <1>3, <1>4
<1>6. /\ state_egl' = n /\ state_size' = s /\ src' = s /\ fbo' = s
      /\ configured' = [configured EXCEPT ![o] = TRUE]
      /\ asked' = [asked EXCEPT ![o] = s]
      /\ zero_seen' \in BOOLEAN /\ (zero_seen => zero_seen')
  BY <1>1, <1>5 DEF Configure, PointState, Recreate, LockOutInv, LockOutTypeOK
<1>7. surfaces'[n].of = o /\ surfaces'[n].size = s /\ surfaces'[n].alive
  BY <1>2
<1>8. n # None
  BY <1>4 DEF n, None
<1>9. SwapWorks
  BY <1>3, <1>6, <1>7 DEF SwapWorks
<1>10. /\ shown' \in [Outputs -> [buffer : Size, scene : Size, viewport : Size]]
       /\ failed' = failed
       /\ shown'[o] = [buffer |-> s, scene |-> s, viewport |-> s]
       /\ \A q \in Outputs : q # o => shown'[q] = shown[q]
  <2>1. fbo' \in Size /\ state_size' \in Size /\ state_egl' \in DOMAIN surfaces'
        /\ surfaces'[state_egl'].of = o
    BY <1>2, <1>6, <1>7 DEF Size
  <2> QED BY <1>1, <1>2, <1>6, <1>7, <1>9, <2>1, RenderOn
<1>11. LockOutTypeOK'
  <2>1. /\ egl' \in [Outputs -> {None} \cup DOMAIN surfaces']
        /\ size' \in [Outputs -> Sizes \cup {0}]
        /\ configured' \in [Outputs -> BOOLEAN] /\ asked' \in [Outputs -> Sizes \cup {0}]
    BY <1>2, <1>3, <1>4, <1>6
  <2>2. /\ state_egl' \in DOMAIN surfaces' /\ state_size' \in Size
        /\ src' \in Size /\ fbo' \in Size /\ current' \in {None} \cup DOMAIN surfaces'
    BY <1>2, <1>3, <1>6 DEF Size
  <2>3. /\ phase' \in {"starting", "looping", "over"}
        /\ pass' \in [at : Outputs, first : BOOLEAN] \cup {Over}
        /\ failed' \in BOOLEAN
    BY <1>1, <1>10 DEF LockOutInv, LockOutTypeOK
  <2> QED BY <1>2, <1>6, <1>10, <2>1, <2>2, <2>3 DEF LockOutTypeOK
<1>12. SurfacesOwned
  BY <1>1 DEF LockOutInv
<1>13. egl[o] # Window /\ surfaces[egl[o]].of = o
  BY <1>1, <1>12, OutputAssumption DEF SurfacesOwned, Outputs
<1>14. ASSUME NEW q \in Outputs, q # o, egl[q] # None
       PROVE  egl[q] \in DOMAIN surfaces /\ egl[q] # egl[o] /\ surfaces'[egl[q]] = surfaces[egl[q]]
  <2>1. egl[q] \in DOMAIN surfaces
    BY <1>4, <1>14
  <2>2. surfaces[egl[q]].of = q
    BY <1>12, <1>14 DEF SurfacesOwned
  <2> QED BY <1>2, <1>13, <1>14, <2>1, <2>2
<1>15. SurfacesOwned'
  <2>1. surfaces'[Window].of = 0 /\ surfaces'[Window].alive
    BY <1>2, <1>4, <1>12, <1>13 DEF SurfacesOwned, Alive, Window
  <2>2. ASSUME NEW i \in DOMAIN surfaces', surfaces'[i].of = 0
        PROVE  i = Window
    <3>1. i # n
      BY <1>7, <2>2, OutputAssumption DEF Outputs
    <3>2. i \in DOMAIN surfaces
      BY <1>2, <3>1
    <3>3. surfaces[i].of = 0
      BY <1>2, <2>2, <3>2
    <3> QED BY <1>12, <3>2, <3>3 DEF SurfacesOwned
  <2>3. ASSUME NEW q \in Outputs, egl'[q] # None
        PROVE  surfaces'[egl'[q]].of = q /\ surfaces'[egl'[q]].alive
    <3>1. CASE q = o
      BY <1>5, <1>7, <3>1
    <3>2. CASE q # o
      BY <1>5, <1>12, <1>14, <2>3, <3>2 DEF SurfacesOwned, Alive
    <3> QED BY <3>1, <3>2
  <2> QED BY <2>1, <2>2, <2>3 DEF SurfacesOwned, Alive
<1>16. SizesKept'
  <2> SUFFICES ASSUME NEW q \in Outputs, asked'[q] # 0
               PROVE  egl'[q] # None /\ size'[q] = asked'[q] /\ surfaces'[egl'[q]].size = asked'[q]
    BY DEF SizesKept
  <2>1. CASE q = o
    BY <1>4, <1>5, <1>6, <1>7, <1>8, <2>1
  <2>2. CASE q # o
    <3>1. asked'[q] = asked[q]
      BY <1>4, <1>6, <2>2
    <3>2. egl[q] # None /\ size[q] = asked[q] /\ surfaces[egl[q]].size = asked[q]
      BY <3>1 DEF LockOutInv, SizesKept
    <3> QED BY <1>5, <1>14, <2>2, <3>1, <3>2
  <2> QED BY <2>1, <2>2
<1>17. PicturesFit'
  <2> SUFFICES ASSUME NEW q \in Outputs, asked'[q] # 0
               PROVE  shown'[q] = [buffer |-> asked'[q], scene |-> asked'[q],
                                   viewport |-> asked'[q]]
    BY DEF PicturesFit
  <2>1. CASE q = o
    BY <1>4, <1>6, <1>10, <2>1
  <2>2. CASE q # o
    BY <1>4, <1>6, <1>10, <2>2 DEF LockOutInv, PicturesFit
  <2> QED BY <2>1, <2>2
<1>18. NoSurfaceLeaks'
  <2> SUFFICES ASSUME NEW i \in DOMAIN surfaces', surfaces'[i].alive
               PROVE  i = Window \/ egl'[surfaces'[i].of] = i
    BY <1>1 DEF NoSurfaceLeaks
  <2>1. CASE i = n
    BY <1>5, <1>7, <2>1
  <2>2. CASE i # n /\ i # Window
    <3>1. i \in DOMAIN surfaces /\ i # egl[o]
      BY <1>2, <2>2
    <3>2. surfaces'[i] = surfaces[i] /\ surfaces[i].alive /\ surfaces[i] \in Surface
      BY <1>2, <1>4, <3>1
    <3>3. egl[surfaces[i].of] = i
      BY <1>1, <2>2, <3>1, <3>2 DEF LockOutInv, NoSurfaceLeaks
    <3>4. surfaces[i].of \in Outputs
      BY <1>12, <2>2, <3>1, <3>2 DEF SurfacesOwned, Surface
    <3>5. surfaces[i].of # o
      BY <3>1, <3>3
    <3> QED BY <1>5, <3>2, <3>3, <3>4, <3>5
  <2> QED BY <2>1, <2>2
<1>19. ConfiguredHasSurface'
  BY <1>4, <1>5, <1>6, <1>8 DEF ConfiguredHasSurface, LockOutInv
<1>20. SurfacesInUseAlive' /\ FailedSwapNeedsZero' /\ PassInLoop' /\ fbo' = src'
  BY <1>1, <1>3, <1>6, <1>7, <1>10
  DEF LockOutInv, SurfacesInUseAlive, FailedSwapNeedsZero, PassInLoop
<1> QED
  BY <1>11, <1>15, <1>16, <1>17, <1>18, <1>19, <1>20 DEF LockOutInv

\* lock_surface_configure, when a dimension is 0.
LEMMA ConfigureZeroKeepsInv ==
    ASSUME LockOutInv, NEW o \in Outputs, Configure(o, 0)
    PROVE  LockOutInv'
<1>1. /\ phase # "over" /\ pass = Over /\ egl[o] # None /\ Render
      /\ state_egl' = egl'[o] /\ state_size' = size'[o] /\ src' = size'[o] /\ fbo' = src'
      /\ configured' = [configured EXCEPT ![o] = TRUE]
      /\ zero_seen' = TRUE
      /\ UNCHANGED <<phase, pass, size, egl, current, surfaces, asked>>
  <2>1. ~(0 > 0)
    OBVIOUS
  <2> QED BY <2>1, Zenon DEF Configure, PointState, Recreate
<1>2. /\ egl \in [Outputs -> {None} \cup DOMAIN surfaces] /\ size \in [Outputs -> Sizes \cup {0}]
      /\ configured \in [Outputs -> BOOLEAN] /\ asked \in [Outputs -> Sizes \cup {0}]
      /\ surfaces \in Seq(Surface)
  BY DEF LockOutInv, LockOutTypeOK
<1>3. SurfacesOwned /\ surfaces[egl[o]].of = o /\ surfaces[egl[o]].alive
  BY <1>1 DEF LockOutInv, SurfacesOwned, Alive
<1>4. /\ state_egl' \in DOMAIN surfaces' /\ surfaces'[state_egl'].of = o
      /\ state_size' \in Size /\ fbo' \in Size /\ src' \in Size
  BY <1>1, <1>2, <1>3 DEF Size
<1>5. /\ shown' \in [Outputs -> [buffer : Size, scene : Size, viewport : Size]]
      /\ failed' \in BOOLEAN
      /\ \A q \in Outputs : q # o => shown'[q] = shown[q]
      /\ SwapWorks =>
             shown'[o] = [buffer |-> surfaces'[state_egl'].size,
                          scene |-> fbo', viewport |-> state_size']
      /\ ~SwapWorks => shown' = shown
  BY <1>1, <1>2, <1>4, RenderOn
<1>6. LockOutTypeOK'
  <2>1. configured' \in [Outputs -> BOOLEAN] /\ zero_seen' \in BOOLEAN
    BY <1>1, <1>2
  <2> QED BY <1>1, <1>4, <1>5, <2>1 DEF LockOutInv, LockOutTypeOK
<1>7. PicturesFit'
  <2> SUFFICES ASSUME NEW q \in Outputs, asked[q] # 0
               PROVE  shown'[q] = [buffer |-> asked[q], scene |-> asked[q],
                                   viewport |-> asked[q]]
    BY <1>1 DEF PicturesFit
  <2>1. shown[q] = [buffer |-> asked[q], scene |-> asked[q], viewport |-> asked[q]]
    BY DEF LockOutInv, PicturesFit
  <2>2. size[q] = asked[q] /\ surfaces[egl[q]].size = asked[q]
    BY DEF LockOutInv, SizesKept
  <2>3. CASE q = o /\ SwapWorks
    BY <1>1, <1>5, <2>2, <2>3
  <2>4. CASE q # o \/ ~SwapWorks
    BY <1>5, <2>1, <2>4
  <2> QED BY <2>3, <2>4
<1>8. ConfiguredHasSurface'
  BY <1>1, <1>2 DEF LockOutInv, ConfiguredHasSurface
<1>9. SurfacesOwned' /\ SizesKept' /\ NoSurfaceLeaks'
  <2>1. SurfacesOwned'
    BY <1>1, <1>3 DEF SurfacesOwned, Alive
  <2>2. SizesKept'
    BY <1>1 DEF LockOutInv, SizesKept
  <2>3. NoSurfaceLeaks'
    BY <1>1 DEF LockOutInv, NoSurfaceLeaks
  <2> QED BY <2>1, <2>2, <2>3
<1>10. SurfacesInUseAlive'
  BY <1>1, <1>3 DEF LockOutInv, SurfacesInUseAlive
<1> QED
  BY <1>1, <1>6, <1>7, <1>8, <1>9, <1>10 DEF LockOutInv, PassInLoop, FailedSwapNeedsZero

-----------------------------------------------------------------------------
LEMMA DrawOutputKeepsInv ==
    ASSUME LockOutInv, DrawOutput
    PROVE  LockOutInv'
<1> DEFINE o == pass.at
<1>1. /\ phase = "looping" /\ o \in Outputs /\ pass \in [at : Outputs, first : BOOLEAN]
  BY DEF DrawOutput, LockOutInv, LockOutTypeOK, PassInLoop
<1> HIDE DEF o
<1>2. /\ configured[o] /\ Render /\ current' = egl[o]
      /\ state_egl' = egl'[o] /\ state_size' = size'[o]
      /\ UNCHANGED <<phase, size, egl, configured, surfaces, asked, zero_seen>>
      /\ Resize(o) /\ Advance
  BY DEF DrawOutput, o, PointState, loVars, ghostVars
<1>3. /\ egl \in [Outputs -> {None} \cup DOMAIN surfaces] /\ size \in [Outputs -> Sizes \cup {0}]
      /\ surfaces \in Seq(Surface) /\ src \in Size /\ fbo = src
  BY DEF LockOutInv, LockOutTypeOK
<1>4. /\ SurfacesOwned /\ egl[o] # None /\ surfaces[egl[o]].of = o /\ surfaces[egl[o]].alive
  BY <1>1, <1>2 DEF LockOutInv, ConfiguredHasSurface, SurfacesOwned, Alive
<1>5. src' = size[o] /\ fbo' = size[o]
  BY <1>2, <1>3 DEF Resize, Recreate
<1>6. /\ state_egl' \in DOMAIN surfaces' /\ surfaces'[state_egl'].of = o
      /\ state_size' \in Size /\ fbo' \in Size /\ src' \in Size
      /\ SwapWorks
  BY <1>1, <1>2, <1>3, <1>4, <1>5 DEF Size, SwapWorks
<1>7. /\ shown' \in [Outputs -> [buffer : Size, scene : Size, viewport : Size]]
      /\ failed' = failed
      /\ \A q \in Outputs : q # o => shown'[q] = shown[q]
      /\ shown'[o] = [buffer |-> surfaces[egl[o]].size, scene |-> size[o],
                      viewport |-> size[o]]
  BY <1>1, <1>2, <1>3, <1>5, <1>6, RenderOn
<1>8. pass' \in [at : Outputs, first : BOOLEAN] \cup {Over}
  BY <1>1, <1>2, OutputAssumption DEF Advance, Outputs, o
<1>9. LockOutTypeOK'
  <2>1. current' \in {None} \cup DOMAIN surfaces'
    BY <1>1, <1>2, <1>3
  <2> QED BY <1>2, <1>6, <1>7, <1>8, <2>1 DEF LockOutInv, LockOutTypeOK
<1>10. PicturesFit'
  <2> SUFFICES ASSUME NEW q \in Outputs, asked[q] # 0
               PROVE  shown'[q] = [buffer |-> asked[q], scene |-> asked[q],
                                   viewport |-> asked[q]]
    BY <1>2 DEF PicturesFit
  <2>1. shown[q] = [buffer |-> asked[q], scene |-> asked[q], viewport |-> asked[q]]
    BY DEF LockOutInv, PicturesFit
  <2>2. size[q] = asked[q] /\ surfaces[egl[q]].size = asked[q]
    BY DEF LockOutInv, SizesKept
  <2> QED BY <1>7, <2>1, <2>2
<1>11. SurfacesOwned'
  BY <1>2, <1>4 DEF SurfacesOwned, Alive
<1>12. SizesKept' /\ ConfiguredHasSurface'
  BY <1>2 DEF LockOutInv, SizesKept, ConfiguredHasSurface
<1>13. NoSurfaceLeaks'
  BY <1>2 DEF LockOutInv, NoSurfaceLeaks
<1>14. SurfacesInUseAlive'
  BY <1>2, <1>4 DEF SurfacesInUseAlive
<1> QED
  BY <1>1, <1>2, <1>5, <1>7, <1>9, <1>10, <1>11, <1>12, <1>13, <1>14
  DEF LockOutInv, PassInLoop, FailedSwapNeedsZero

\* The end of main(): every output's surface is destroyed, and nothing is
\* drawn after that.
LEMMA TeardownKeepsInv ==
    ASSUME LockOutInv, Teardown
    PROVE  LockOutInv'
<1>1. /\ phase' = "over" /\ pass = Over /\ current' = None
      /\ UNCHANGED <<pass, size, egl, configured, state_egl, state_size, src, fbo, shown,
                     asked, zero_seen, failed>>
  BY DEF Teardown, loVars, stateVars, ghostVars
<1>2. surfaces \in Seq(Surface) /\ surfaces # <<>>
  BY DEF LockOutInv, LockOutTypeOK
<1> DEFINE last(i) == IF \E o \in Outputs : egl[o] = i
                      THEN [surfaces[i] EXCEPT !.alive = FALSE] ELSE surfaces[i]
<1>3. /\ \A i \in 1..Len(surfaces) : last(i) \in Surface
      /\ \A i \in 1..Len(surfaces) : last(i).size = surfaces[i].size
  <2> SUFFICES ASSUME NEW i \in 1..Len(surfaces)
               PROVE  last(i) \in Surface /\ last(i).size = surfaces[i].size
    OBVIOUS
  <2>1. surfaces[i] \in Surface
    BY <1>2
  <2>2. /\ [surfaces[i] EXCEPT !.alive = FALSE] \in Surface
        /\ [surfaces[i] EXCEPT !.alive = FALSE].size = surfaces[i].size
    BY <2>1 DEF Surface
  <2> QED BY <2>1, <2>2
<1>4. surfaces' = [i \in 1..Len(surfaces) |-> last(i)] /\ Len(surfaces) \in Nat
  BY <1>2 DEF Teardown
<1> HIDE DEF last
<1>5. surfaces' \in Seq(Surface)
  BY <1>3, <1>4, IsASeq
<1>6. DOMAIN surfaces' = DOMAIN surfaces /\ surfaces' # <<>>
  BY <1>2, <1>4
<1>7. \A i \in DOMAIN surfaces : surfaces'[i].size = surfaces[i].size
  BY <1>2, <1>3, <1>4
<1>8. LockOutTypeOK'
  BY <1>1, <1>5, <1>6 DEF LockOutInv, LockOutTypeOK
<1>9. SizesKept'
  <2> SUFFICES ASSUME NEW o \in Outputs, asked[o] # 0
               PROVE  egl[o] # None /\ size[o] = asked[o] /\ surfaces'[egl[o]].size = asked[o]
    BY <1>1 DEF SizesKept
  <2>1. egl[o] # None /\ size[o] = asked[o] /\ surfaces[egl[o]].size = asked[o]
    BY DEF LockOutInv, SizesKept
  <2>2. egl[o] \in DOMAIN surfaces
    BY <2>1 DEF LockOutInv, LockOutTypeOK
  <2> QED BY <1>7, <2>1, <2>2
<1> QED
  BY <1>1, <1>8, <1>9
  DEF LockOutInv, ConfiguredHasSurface, PassInLoop, PicturesFit, SurfacesInUseAlive,
      NoSurfaceLeaks, FailedSwapNeedsZero, Over

\* Steps that draw nothing.
LEMMA OtherStepsKeepInv ==
    ASSUME LockOutInv, EnterLoop \/ FrameDone \/ SkipOutput \/ UNCHANGED lockOutVars
    PROVE  LockOutInv'
<1>1. /\ UNCHANGED <<size, egl, configured, state_egl, state_size, src, fbo, current, surfaces,
                     shown, asked, zero_seen, failed>>
      /\ phase = "over" => phase' = "over"
  BY DEF EnterLoop, FrameDone, SkipOutput, lockOutVars, loVars, stateVars, glVars, ghostVars
<1>2. /\ phase' \in {"starting", "looping", "over"}
      /\ pass' \in [at : Outputs, first : BOOLEAN] \cup {Over}
      /\ PassInLoop'
  <2>1. phase \in {"starting", "looping", "over"} /\ PassInLoop
        /\ pass \in [at : Outputs, first : BOOLEAN] \cup {Over}
    BY DEF LockOutInv, LockOutTypeOK
  <2>2. CASE EnterLoop \/ FrameDone
    <3>1. phase' = "looping" /\ 1 \in Outputs
      BY <2>2, OutputAssumption DEF EnterLoop, FrameDone, Outputs
    <3>2. pass' \in [at : Outputs, first : BOOLEAN]
      <4>1. pass' = [at |-> 1, first |-> TRUE] \/ pass' = [at |-> 1, first |-> FALSE]
        BY <2>2 DEF EnterLoop, FrameDone
      <4>2. /\ [at |-> 1, first |-> TRUE] \in [at : Outputs, first : BOOLEAN]
            /\ [at |-> 1, first |-> FALSE] \in [at : Outputs, first : BOOLEAN]
        BY <3>1
      <4> QED BY <4>1, <4>2
    <3> QED BY <3>1, <3>2 DEF PassInLoop
  <2>3. CASE SkipOutput
    <3>1. pass \in [at : Outputs, first : BOOLEAN]
      BY <2>1, <2>3 DEF SkipOutput
    <3> QED BY <2>1, <2>3, <3>1, OutputAssumption DEF SkipOutput, Advance, PassInLoop, Outputs
  <2>4. CASE UNCHANGED lockOutVars
    BY <2>1, <2>4 DEF lockOutVars, PassInLoop
  <2> QED BY <2>2, <2>3, <2>4
<1>3. LockOutTypeOK'
  BY <1>1, <1>2 DEF LockOutInv, LockOutTypeOK
<1>4. phase' # "over" => SurfacesOwned'
  BY <1>1 DEF LockOutInv, SurfacesOwned, Alive
<1>5. SizesKept' /\ ConfiguredHasSurface' /\ PicturesFit' /\ FailedSwapNeedsZero'
  BY <1>1
  DEF LockOutInv, SizesKept, ConfiguredHasSurface, PicturesFit, FailedSwapNeedsZero
<1>6. SurfacesInUseAlive' /\ NoSurfaceLeaks'
  BY <1>1 DEF LockOutInv, SurfacesInUseAlive, NoSurfaceLeaks
<1> QED BY <1>1, <1>2, <1>3, <1>4, <1>5, <1>6 DEF LockOutInv

LEMMA LockOutInvNext ==
    ASSUME LockOutInv, [LockOutNext]_lockOutVars
    PROVE  LockOutInv'
<1>1. ASSUME NEW o \in Outputs, NEW s \in Sizes \cup {0}, Configure(o, s)
      PROVE  LockOutInv'
  BY <1>1, ConfigureSizeKeepsInv, ConfigureZeroKeepsInv
<1>2. CASE HandleLocked
  BY <1>2, HandleLockedKeepsInv
<1>3. CASE DrawOutput
  BY <1>3, DrawOutputKeepsInv
<1>4. CASE Teardown
  BY <1>4, TeardownKeepsInv
<1>5. CASE EnterLoop \/ FrameDone \/ SkipOutput \/ UNCHANGED lockOutVars
  BY <1>5, OtherStepsKeepInv
<1> QED BY <1>1, <1>2, <1>3, <1>4, <1>5 DEF LockOutNext

LEMMA LockOutInvariant == LockOutSpec => []LockOutInv
<1>1. LockOutInit => LockOutInv
  BY LockOutInvInit
<1>2. LockOutInv /\ [LockOutNext]_lockOutVars => LockOutInv'
  BY LockOutInvNext
<1> QED BY <1>1, <1>2, PTL DEF LockOutSpec

\* Surfaces, sizes and pictures have their types, for any outputs.
THEOREM LockOutTypeCorrect == LockOutSpec => []LockOutTypeOK
<1>1. LockOutInv => LockOutTypeOK
  BY DEF LockOutInv
<1> QED BY <1>1, LockOutInvariant, PTL

\* One set of framebuffers serves any number of outputs of any sizes, and
\* every picture fits (wl_callback_listener.h 75-79, lock_manager.h 44-50).
THEOREM EveryPictureFits == LockOutSpec => []PicturesFit
<1>1. LockOutInv => PicturesFit
  BY DEF LockOutInv
<1> QED BY <1>1, LockOutInvariant, PTL

\* No EGL surface is used after its end or leaked, however often outputs are
\* configured (lock_manager.h 32-44).
THEOREM SurfacesReplaced == LockOutSpec => []SurfacesSound
<1>1. LockOutInv => SurfacesSound
  BY DEF LockOutInv, SurfacesSound
<1> QED BY <1>1, LockOutInvariant, PTL

\* A picture is lost only after a configure event with a size 0
\* (lock_manager.h 26-39, 50).
THEOREM SwapsWork == LockOutSpec => []FailedSwapNeedsZero
<1>1. LockOutInv => FailedSwapNeedsZero
  BY DEF LockOutInv
<1> QED BY <1>1, LockOutInvariant, PTL
=============================================================================
