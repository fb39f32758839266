----------------------------- MODULE LockOutputs -----------------------------
(***************************************************************************)
(* What is drawn where in lock mode: one GL context and one set of         *)
(* framebuffers serve all outputs, each with an EGL surface of its own     *)
(* that lock_surface_configure (include/wayland/lock_manager.h) replaces.  *)
(* main() and wl_surface_frame_done go from output to output and call      *)
(* render() for each; lock_surface_configure renders one.                  *)
(*                                                                         *)
(* A size stands for a width and a height; 0 for a pair of which one is    *)
(* not positive as an int.                                                 *)
(***************************************************************************)
EXTENDS Naturals, Sequences

CONSTANTS
    N,              \* outputs, numbered as in lock_outputs
    Sizes,          \* sizes the compositor asks for
    Temp,           \* 1920 x 1080
    MaxSurfaces     \* bound: EGL surfaces ever created

ASSUME OutputAssumption ==
    /\ N \in Nat \ {0}
    /\ Sizes \subseteq Nat \ {0} /\ Temp \in Nat \ {0}
    /\ MaxSurfaces \in Nat

Outputs == 1..N
Size == Sizes \cup {0, Temp}
None == 0       \* EGL_NO_SURFACE
Window == 1     \* the EGL surface of create_window_egl

VARIABLES
    phase,                          \* main(): before the loop, in it, after it
    pass,                           \* the output a pass over all is at, and
                                    \* whether it is the one before the loop
    size, egl, configured,          \* lock_output: width and height, egl_surface
    state_egl, state_size,          \* client_state: egl_surface, width and height
    src, fbo,                       \* SRC_WIDTH and SRC_HEIGHT; of the framebuffers
    current,                        \* the surface that is current in EGL
    surfaces,                       \* every EGL surface ever created
    shown,                          \* the last picture each output got
    asked,                          \* the last size asked for on each that is not 0
    zero_seen, failed               \* a size 0 was asked for; a swap has failed

loVars == <<size, egl, configured>>
stateVars == <<state_egl, state_size>>
glVars == <<src, fbo, current, surfaces>>
ghostVars == <<asked, zero_seen>>
lockOutVars == <<phase, pass, loVars, stateVars, glVars, shown, ghostVars, failed>>

Over == [at |-> 0, first |-> FALSE]

Nothing == [buffer |-> 0, scene |-> 0, viewport |-> 0]

\* After create_window_egl, initgl and the lock request.
LockOutInit ==
    /\ phase = "starting" /\ pass = Over
    /\ size = [o \in Outputs |-> 0]
    /\ egl = [o \in Outputs |-> None]
    /\ configured = [o \in Outputs |-> FALSE]
    /\ state_egl = Window /\ state_size = Temp
    /\ src = Temp /\ fbo = Temp
    /\ current = Window
    /\ surfaces = <<[of |-> 0, size |-> Temp, alive |-> TRUE]>>
    /\ shown = [o \in Outputs |-> Nothing]
    /\ asked = [o \in Outputs |-> 0]
    /\ zero_seen = FALSE /\ failed = FALSE

-----------------------------------------------------------------------------
\* A swap shows the picture only on the surface that is current.
SwapWorks == current' = state_egl' /\ surfaces'[state_egl'].alive

\* The end of render(): what was drawn with the sizes of the moment is swapped.
Render ==
    IF SwapWorks
    THEN /\ shown' = [shown EXCEPT ![surfaces'[state_egl'].of] =
                         [buffer |-> surfaces'[state_egl'].size,
                          scene |-> fbo', viewport |-> state_size']]
         /\ UNCHANGED failed
    ELSE failed' = TRUE /\ UNCHANGED shown

\* handle_locked
HandleLocked ==
    /\ phase # "over" /\ pass = Over
    /\ \A o \in Outputs : egl[o] = None
    /\ egl' = [o \in Outputs |-> Len(surfaces) + o]
    /\ surfaces' = surfaces \o [o \in Outputs |-> [of |-> o, size |-> Temp, alive |-> TRUE]]
    /\ UNCHANGED <<phase, pass, size, configured, stateVars, src, fbo, current, shown,
                   ghostVars, failed>>

\* Mutant: the new surface is not made current.
ReplaceOnly(o, s) ==
    /\ size' = [size EXCEPT ![o] = s]
    /\ surfaces' = Append([surfaces EXCEPT ![egl[o]].alive = FALSE],
                          [of |-> o, size |-> s, alive |-> TRUE])
    /\ egl' = [egl EXCEPT ![o] = Len(surfaces) + 1]
    /\ current' = None

\* The old EGL surface of an output gives way to one of the right size.
Replace(o, s) ==
    /\ size' = [size EXCEPT ![o] = s]
    /\ surfaces' = Append([surfaces EXCEPT ![egl[o]].alive = FALSE],
                          [of |-> o, size |-> s, alive |-> TRUE])
    /\ egl' = [egl EXCEPT ![o] = Len(surfaces) + 1]
    /\ current' = Len(surfaces) + 1

\* Mutant: the output's surface is noted before it is replaced.
PointStateBefore(o) == state_egl' = egl[o] /\ state_size' = size'[o]

PointState(o) == state_egl' = egl'[o] /\ state_size' = size'[o]

Recreate(o) == src' = size'[o] /\ fbo' = src'

\* lock_surface_configure
Configure(o, s) ==
    /\ phase # "over" /\ pass = Over
    /\ egl[o] # None
    /\ IF s > 0 THEN Len(surfaces) < MaxSurfaces /\ Replace(o, s)
       ELSE UNCHANGED <<size, egl, current, surfaces>>
    /\ configured' = [configured EXCEPT ![o] = TRUE]
    /\ PointState(o)
    /\ Recreate(o)
    /\ Render
    /\ asked' = IF s > 0 THEN [asked EXCEPT ![o] = s] ELSE asked
    /\ zero_seen' = (zero_seen \/ s = 0)
    /\ UNCHANGED <<phase, pass>>

-----------------------------------------------------------------------------
(* The passes over all outputs: main() once, then wl_surface_frame_done. *)

EnterLoop ==
    /\ phase = "starting" /\ pass = Over
    /\ phase' = "looping"
    /\ pass' = [at |-> 1, first |-> TRUE]
    /\ UNCHANGED <<loVars, stateVars, glVars, shown, ghostVars, failed>>

FrameDone ==
    /\ phase = "looping" /\ pass = Over
    /\ pass' = [at |-> 1, first |-> FALSE]
    /\ UNCHANGED <<phase, loVars, stateVars, glVars, shown, ghostVars, failed>>

Advance ==
    pass' = IF pass.at = N THEN Over ELSE [pass EXCEPT !.at = @ + 1]

\* Mutant: the framebuffers stay what they are.
ResizeNothing(o) == src' = size[o] /\ UNCHANGED fbo

\* The first pass always recreates the framebuffers, a later one when the
\* size is not the one of the output before.
Resize(o) ==
    IF pass.first \/ src # size[o] THEN Recreate(o) ELSE UNCHANGED <<src, fbo>>

DrawOutput ==
    /\ pass # Over /\ configured[pass.at]
    /\ Advance
    /\ current' = egl[pass.at]
    /\ UNCHANGED <<phase, loVars, surfaces, ghostVars>>
    /\ PointState(pass.at)
    /\ Resize(pass.at)
    /\ Render

SkipOutput ==
    /\ pass # Over /\ ~configured[pass.at]
    /\ Advance
    /\ UNCHANGED <<phase, loVars, stateVars, glVars, shown, ghostVars, failed>>

\* The end of main().
Teardown ==
    /\ phase = "looping" /\ pass = Over
    /\ phase' = "over"
    /\ current' = None
    /\ surfaces' = [i \in DOMAIN surfaces |->
                       IF \E o \in Outputs : egl[o] = i
                       THEN [surfaces[i] EXCEPT !.alive = FALSE] ELSE surfaces[i]]
    /\ UNCHANGED <<pass, loVars, stateVars, src, fbo, shown, ghostVars, failed>>

LockOutNext ==
    \/ HandleLocked
    \/ \E o \in Outputs, s \in Sizes \cup {0} : Configure(o, s)
    \/ EnterLoop
    \/ FrameDone
    \/ DrawOutput
    \/ SkipOutput
    \/ Teardown

LockOutSpec == LockOutInit /\ [][LockOutNext]_lockOutVars

-----------------------------------------------------------------------------
Surface == [of : Outputs \cup {0}, size : Sizes \cup {Temp}, alive : BOOLEAN]

LockOutTypeOK ==
    /\ phase \in {"starting", "looping", "over"}
    /\ pass \in [at : Outputs, first : BOOLEAN] \cup {Over}
    /\ surfaces \in Seq(Surface) /\ surfaces # <<>>
    /\ size \in [Outputs -> Sizes \cup {0}]
    /\ egl \in [Outputs -> {None} \cup DOMAIN surfaces]
    /\ configured \in [Outputs -> BOOLEAN]
    /\ state_egl \in DOMAIN surfaces /\ state_size \in Size
    /\ src \in Size /\ fbo \in Size
    /\ current \in {None} \cup DOMAIN surfaces
    /\ shown \in [Outputs -> [buffer : Size, scene : Size, viewport : Size]]
    /\ asked \in [Outputs -> Sizes \cup {0}]
    /\ zero_seen \in BOOLEAN /\ failed \in BOOLEAN

\* The picture on an output that has been told its size has that size in
\* every respect, whatever the sizes of the other outputs, which share the
\* framebuffers, and whenever they change (wl_callback_listener.h 75-79,
\* lock_manager.h 44-50).
PicturesFit ==
    \A o \in Outputs : asked[o] # 0 =>
        shown[o] = [buffer |-> asked[o], scene |-> asked[o], viewport |-> asked[o]]

\* EGL is never handed a surface that is gone: replacing a surface reaches
\* every copy of it (lock_manager.h 32-44).
SurfacesInUseAlive ==
    phase # "over" =>
        /\ surfaces[state_egl].alive
        /\ current # None => surfaces[current].alive

\* An output has at most one EGL surface, however often it is configured.
NoSurfaceLeaks ==
    phase # "over" =>
        \A i \in DOMAIN surfaces : surfaces[i].alive =>
            i = Window \/ egl[surfaces[i].of] = i

\* EGL surfaces are replaced without loss: none that is gone is used, and
\* none that is not used any more stays.
SurfacesSound == SurfacesInUseAlive /\ NoSurfaceLeaks

\* No picture is lost, unless a size 0 was asked for: only then is an output
\* rendered without its surface being current (lock_manager.h 26-39, 50).
FailedSwapNeedsZero == failed => zero_seen
=============================================================================
