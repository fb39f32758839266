------------------------------ MODULE FrameLoop ------------------------------
(***************************************************************************)
(* The frame loop of lock mode on several outputs, and what it waits for.  *)
(* wl_surface_frame_done is called for the first configured output and     *)
(* draws all of them; every eglSwapBuffers waits, with the default swap    *)
(* interval, until its output has been drawn since the swap before.  While *)
(* it waits no event is handled.  An output that is dark is not drawn.     *)
(***************************************************************************)
EXTENDS Naturals

CONSTANTS
    N,          \* configured outputs, in the order of lock_outputs
    Frames      \* how many frames the countdown takes

ASSUME LoopAssumption == N \in Nat \ {0} /\ Frames \in Nat \ {0}

Outputs == 1..N
First == 1
Idle == 0

VARIABLES
    drawing,    \* the output that is being drawn, or Idle
    frame,      \* the program's frame callback: "waiting" or "fired"
    throttle,   \* outputs that were swapped and not drawn since
    counting,   \* frames left of the countdown; 0: none runs
    unlocked,   \* auth_result
    key,        \* a correct password is complete: Return is under way
    lit         \* outputs that are not dark

loopVars == <<drawing, frame, throttle, counting, unlocked, key, lit>>

\* After the pass of main() over all outputs.
LoopInit ==
    /\ drawing = Idle
    /\ frame = "waiting"
    /\ throttle = Outputs
    /\ counting = 0 /\ unlocked = FALSE
    /\ key = FALSE
    /\ lit = Outputs

-----------------------------------------------------------------------------
(* The program *)

\* Mutant: the countdown stops at its last frame.
HandleFrameStuck ==
    /\ drawing = Idle /\ frame = "fired"
    /\ frame' = "requested"
    /\ counting' = IF counting > 1 THEN counting - 1 ELSE counting
    /\ UNCHANGED unlocked
    /\ drawing' = First
    /\ UNCHANGED <<throttle, key, lit>>

\* wl_surface_frame_done, up to the first output.
HandleFrame ==
    /\ drawing = Idle /\ frame = "fired"
    /\ frame' = "requested"
    /\ counting' = IF counting > 0 THEN counting - 1 ELSE 0
    /\ unlocked' = (unlocked \/ counting = 1)
    /\ drawing' = First
    /\ UNCHANGED <<throttle, key, lit>>

\* eglSwapBuffers for one output.
Swap ==
    /\ drawing # Idle /\ drawing \notin throttle
    /\ throttle' = throttle \cup {drawing}
    /\ frame' = IF drawing = First /\ frame = "requested" THEN "waiting" ELSE frame
    /\ drawing' = IF drawing = N THEN Idle ELSE drawing + 1
    /\ UNCHANGED <<counting, unlocked, key, lit>>

\* wl_keyboard_key: the password is right.
HandleKey ==
    /\ drawing = Idle /\ key
    /\ key' = FALSE
    /\ counting' = Frames
    /\ UNCHANGED <<drawing, frame, throttle, unlocked, lit>>

\* lock_surface_configure draws its output on a new EGL surface, for which it
\* need not wait.
Configure(o) ==
    /\ drawing = Idle
    /\ throttle' = throttle \cup {o}
    /\ UNCHANGED <<drawing, frame, counting, unlocked, key, lit>>

Program == HandleFrame \/ Swap \/ HandleKey

-----------------------------------------------------------------------------
(* The compositor and the user *)

Draw(o) ==
    /\ o \in lit
    /\ o \in throttle \/ (o = First /\ frame = "waiting")
    /\ throttle' = throttle \ {o}
    /\ frame' = IF o = First /\ frame = "waiting" THEN "fired" ELSE frame
    /\ UNCHANGED <<drawing, counting, unlocked, key, lit>>

Press ==
    /\ ~key /\ ~unlocked
    /\ key' = TRUE
    /\ UNCHANGED <<drawing, frame, throttle, counting, unlocked, lit>>

Toggle(o) ==
    /\ lit' = IF o \in lit THEN lit \ {o} ELSE lit \cup {o}
    /\ UNCHANGED <<drawing, frame, throttle, counting, unlocked, key>>

LoopNext ==
    \/ Program
    \/ \E o \in Outputs : Configure(o) \/ Draw(o) \/ Toggle(o)
    \/ Press

\* Events are handled in the order they come, so none waits for ever; an
\* output that is lit again and again is drawn again and again.
LoopSpec ==
    /\ LoopInit /\ [][LoopNext]_loopVars
    /\ WF_loopVars(HandleFrame) /\ WF_loopVars(Swap) /\ SF_loopVars(HandleKey)
    /\ \A o \in Outputs : SF_loopVars(Draw(o))

-----------------------------------------------------------------------------
AllLit == \A o \in Outputs : []<>(o \in lit)

\* While all monitors are on again and again, a complete password is looked
\* at and the countdown that it starts ends, unless another password starts
\* it anew (keyboard.h 76-81, wl_callback_listener.h 54-81).  All of them must
\* be on: a single dark one holds up the handler, which waits for its swap.
ServesWhileLit ==
    AllLit => /\ key ~> ~key
              /\ counting > 0 /\ ~key ~> unlocked \/ key
=============================================================================
