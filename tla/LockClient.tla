----------------------------- MODULE LockClient -----------------------------
(***************************************************************************)
(* The program in lock mode (--lock): main() of src/main.c from its first  *)
(* roundtrip to its exit, and the handlers libwayland calls on the way.    *)
(* The program is one thread.  A handler runs to completion, so a handler  *)
(* is one action; main() itself is cut where it calls into libwayland,     *)
(* that is at its three roundtrips and at the dispatch of its loop.        *)
(*                                                                         *)
(* A dispatch handles at least one event and as many as have arrived; only *)
(* then does main() look at closed, g_should_exit and auth_result.         *)
(*                                                                         *)
(* Time is counted in ticks.  Rendering, EGL and the camera are left out;  *)
(* the commit that every render ends in (eglSwapBuffers) is kept.          *)
(***************************************************************************)
EXTENDS PasswordEntry, WlConnection, Functions

CONSTANTS
    Output,         \* monitors
    MaxOutputs,     \* MAX_OUTPUTS: room for monitors in client_state
    Window,         \* client_state.wl_surface, which lock mode never shows
    NoSurface,
    Countdown,      \* ticks from a correct password to the unlock (2.0 s)
    Flash,          \* ticks a flash lasts (1.0 s)
    MaxDt           \* most ticks between two frames

ASSUME OutputAssumption ==
    /\ MaxOutputs \in Nat
    /\ Window \notin Output
    /\ NoSurface \notin Output \cup {Window}
ASSUME TimeAssumption ==
    /\ Countdown \in Nat \ {0}
    /\ Flash \in 1..Countdown
    /\ MaxDt \in Nat \ {0}

VARIABLES
    \* where main() is
    pc, synced, dispatched, g_should_exit, exit_code,
    \* the lock, as the client knows it
    has_manager, lock_object, session_locked, locked, closed,
    \* client_state.lock_outputs
    lock_outputs, lock_surfaces, configured,
    \* the surface of the one outstanding frame callback
    frame_cb,
    \* authentication
    counting_down, countdown_timer, auth_result, flash, flash_timer

mainVars == <<pc, synced, dispatched, g_should_exit, exit_code>>
lockVars == <<has_manager, lock_object, session_locked, locked, closed>>
outputVars == <<lock_outputs, lock_surfaces, configured>>
authVars == <<counting_down, countdown_timer, auth_result, flash, flash_timer>>
clientVars ==
    <<mainVars, lockVars, outputVars, frame_cb, authVars, pwVars>>

ClientInit ==
    /\ pc = "connecting"
    /\ synced = FALSE /\ dispatched = FALSE
    /\ g_should_exit = FALSE /\ exit_code = 0
    /\ has_manager = FALSE /\ lock_object = "null"
    /\ session_locked = FALSE /\ locked = FALSE /\ closed = FALSE
    /\ lock_outputs = <<>> /\ lock_surfaces = {} /\ configured = {}
    /\ frame_cb = NoSurface
    /\ counting_down = FALSE /\ countdown_timer = 0 /\ auth_result = 0
    /\ flash = "none" /\ flash_timer = 0
    /\ PwInit

-----------------------------------------------------------------------------
(* Requests *)

GetRegistry == [type |-> "get_registry"]
Lock == [type |-> "lock"]
Sync == [type |-> "sync"]
UnlockAndDestroy == [type |-> "unlock_and_destroy"]
Destroy == [type |-> "destroy"]
GetLockSurface(o) == [type |-> "get_lock_surface", output |-> o]
AckConfigure(o) == [type |-> "ack_configure", output |-> o]
\* Every surface of on is committed; the frame callback of frame, if any, is
\* part of that commit.
Commit(on, frame) == [type |-> "commit", on |-> on, frame |-> frame]

Request ==
    {GetRegistry, Lock, Sync, UnlockAndDestroy, Destroy}
        \cup [type : {"get_lock_surface", "ack_configure"}, output : Output]
        \cup [type : {"commit"}, on : SUBSET Output, frame : Output \cup {Window, NoSurface}]

KeySym == {"Return", "BackSpace", "Escape", "text"}

Event ==
    [type : {"manager", "locked", "finished", "done", "other"}]
        \cup [type : {"global", "configure"}, output : Output]
        \cup [type : {"frame"}, dt : 1..MaxDt]
        \cup [type : {"key"}, sym : KeySym]

-----------------------------------------------------------------------------
(* Dispatch of one event *)

Dispatch(type) ==
    /\ pc \in {"connecting", "locking", "running", "unlocking"}
    /\ events # <<>>
    /\ Head(events).type = type
    /\ events' = Tail(events)
    /\ dispatched' = TRUE
    /\ UNCHANGED <<pc, g_should_exit, exit_code, conn>>

\* sync_callback of libwayland: the roundtrip is over after this dispatch.
Synced ==
    /\ Dispatch("done")
    /\ synced' = TRUE
    /\ UNCHANGED <<requests, lockVars, outputVars, frame_cb, authVars, pwVars>>

\* Events without a listener, with a listener that changes nothing modelled
\* here (global_remove, pointer, keymap), or for Mesa's own queue.
HandleOther ==
    /\ Dispatch("other")
    /\ UNCHANGED <<requests, synced, lockVars, outputVars, frame_cb, authVars, pwVars>>

\* registry_handle_global, for the session lock manager.
HandleManager ==
    /\ Dispatch("manager")
    /\ has_manager' = TRUE
    /\ UNCHANGED <<requests, synced, lock_object, session_locked, locked, closed,
                   outputVars, frame_cb, authVars, pwVars>>

\* Mutant: the room is not looked at.
HandleGlobalUnbounded ==
    /\ Dispatch("global")
    /\ lock_outputs' = Append(lock_outputs, Head(events).output)
    /\ UNCHANGED <<requests, synced, lockVars, lock_surfaces, configured, frame_cb,
                   authVars, pwVars>>

\* registry_handle_global, for an output: kept if there is room.
HandleGlobal ==
    /\ Dispatch("global")
    /\ lock_outputs' = IF Len(lock_outputs) < MaxOutputs
                       THEN Append(lock_outputs, Head(events).output)
                       ELSE lock_outputs
    /\ UNCHANGED <<requests, synced, lockVars, lock_surfaces, configured, frame_cb,
                   authVars, pwVars>>

\* handle_locked: one lock surface for each output known by now.
HandleLocked ==
    /\ Dispatch("locked")
    /\ lock_object = "live"
    /\ session_locked' = TRUE
    /\ locked' = TRUE
    /\ lock_surfaces' = Range(lock_outputs)
    /\ Send([i \in 1..Len(lock_outputs) |-> GetLockSurface(lock_outputs[i])])
    /\ UNCHANGED <<synced, has_manager, lock_object, closed, lock_outputs, configured,
                   frame_cb, authVars, pwVars>>

\* Mutant: the lock object is destroyed whether it was locked or not.
HandleFinishedDestroying ==
    /\ Dispatch("finished")
    /\ lock_object = "live"
    /\ closed' = TRUE
    /\ Send(<<Destroy>>)
    /\ lock_object' = "null"
    /\ UNCHANGED <<synced, has_manager, session_locked, locked, outputVars, frame_cb,
                   authVars, pwVars>>

\* Mutant: a lock that was never granted is destroyed and forgotten.
HandleFinishedStayingOpen ==
    /\ Dispatch("finished")
    /\ lock_object = "live"
    /\ \/ session_locked /\ closed' = TRUE /\ UNCHANGED <<requests, lock_object>>
       \/ ~session_locked /\ Send(<<Destroy>>) /\ lock_object' = "null" /\ UNCHANGED closed
    /\ UNCHANGED <<synced, has_manager, session_locked, locked, outputVars, frame_cb,
                   authVars, pwVars>>

\* handle_finished: refused before the lock, or revoked after it.
HandleFinished ==
    /\ Dispatch("finished")
    /\ lock_object = "live"
    /\ closed' = TRUE
    /\ \/ session_locked /\ UNCHANGED <<requests, lock_object>>
       \/ ~session_locked /\ Send(<<Destroy>>) /\ lock_object' = "null"
    /\ UNCHANGED <<synced, has_manager, session_locked, locked, outputVars, frame_cb,
                   authVars, pwVars>>

\* libwayland drops an event for an object the client has destroyed.
DropStaleEvent ==
    /\ \E type \in {"locked", "finished"} : Dispatch(type)
    /\ lock_object = "null"
    /\ UNCHANGED <<requests, synced, lockVars, outputVars, frame_cb, authVars, pwVars>>

\* Mutant: the configure is acknowledged but nothing is rendered.
HandleConfigureUnrendered ==
    /\ Dispatch("configure")
    /\ LET o == Head(events).output IN
           /\ configured' = configured \cup {o}
           /\ Send(<<AckConfigure(o)>>)
    /\ UNCHANGED <<synced, lockVars, lock_outputs, lock_surfaces, frame_cb, authVars,
                   pwVars>>

\* lock_surface_configure: acknowledge, mark, render the first frame.
HandleConfigure ==
    /\ Dispatch("configure")
    /\ LET o == Head(events).output IN
           /\ configured' = configured \cup {o}
           /\ Send(<<AckConfigure(o), Commit({o}, NoSurface)>>)
    /\ UNCHANGED <<synced, lockVars, lock_outputs, lock_surfaces, frame_cb, authVars,
                   pwVars>>

-----------------------------------------------------------------------------
(* The frame loop *)

\* The first configured output, in the order of lock_outputs.
FrameOutput ==
    LET first == CHOOSE i \in DOMAIN lock_outputs :
                     /\ lock_outputs[i] \in configured
                     /\ \A j \in 1..(i - 1) : lock_outputs[j] \notin configured
    IN  lock_outputs[first]

FrameSurface == IF configured = {} THEN Window ELSE FrameOutput

\* Ask for a callback on FrameSurface and render every configured output.
ArmFrame ==
    /\ frame_cb' = FrameSurface
    /\ Send(<<Commit(configured, FrameSurface)>>)

\* Mutant: the timer is not clamped at zero.
DecayUnclamped(timer, dt) == timer - dt

Decay(timer, dt) == IF timer > dt THEN timer - dt ELSE 0

\* Mutant: the countdown must fall below zero.
CountDownBelowZero(dt) ==
    \/ /\ counting_down
       /\ countdown_timer' = Decay(countdown_timer, dt)
       /\ UNCHANGED <<counting_down, auth_result>>
    \/ /\ ~counting_down
       /\ UNCHANGED <<counting_down, countdown_timer, auth_result>>

\* The countdown to the unlock.
CountDown(dt) ==
    \/ /\ counting_down
       /\ countdown_timer' = Decay(countdown_timer, dt)
       /\ counting_down' = (countdown_timer > dt)
       /\ auth_result' = IF countdown_timer > dt THEN auth_result ELSE 1
    \/ /\ ~counting_down
       /\ UNCHANGED <<counting_down, countdown_timer, auth_result>>

\* wl_surface_frame_done
HandleFrame ==
    /\ Dispatch("frame")
    /\ ArmFrame
    /\ flash_timer' = Decay(flash_timer, Head(events).dt)
    /\ CountDown(Head(events).dt)
    /\ UNCHANGED <<synced, lockVars, outputVars, flash, pwVars>>

-----------------------------------------------------------------------------
(* wl_keyboard_key, for a key press *)

StartFlash(colour) ==
    /\ flash' = colour
    /\ flash_timer' = Flash

\* Mutant: a countdown that is running is not started again.
StartCountdownOnce ==
    /\ counting_down' = TRUE
    /\ countdown_timer' = IF counting_down THEN countdown_timer ELSE Countdown

StartCountdown ==
    /\ counting_down' = TRUE
    /\ countdown_timer' = Countdown

\* The session is not locked yet, or not any more: only Escape counts.
KeyUnlocked(sym) ==
    /\ ~session_locked
    /\ closed' = (closed \/ sym = "Escape")
    /\ UNCHANGED <<authVars, pwVars>>

\* Return: eva_authenticate blocks until PAM has answered.
KeySubmit(sym) ==
    /\ session_locked
    /\ sym = "Return"
    /\ ClearPassword
    /\ \/ StartCountdown /\ StartFlash("green")
       \/ StartFlash("red") /\ UNCHANGED <<counting_down, countdown_timer>>
    /\ UNCHANGED <<closed, auth_result>>

KeyEdit(sym) ==
    /\ session_locked
    /\ \/ sym = "BackSpace" /\ PressBackSpace
       \/ sym \in {"Escape", "text"} /\ \E b \in KeyByte : PressText(b)
    /\ UNCHANGED <<closed, authVars>>

HandleKey ==
    /\ Dispatch("key")
    /\ LET sym == Head(events).sym IN
           KeyUnlocked(sym) \/ KeySubmit(sym) \/ KeyEdit(sym)
    /\ UNCHANGED <<requests, synced, has_manager, lock_object, session_locked, locked,
                   outputVars, frame_cb>>

-----------------------------------------------------------------------------
(* main() *)

\* handle_signal: SIGTERM or SIGINT.
Signal ==
    /\ ~g_should_exit
    /\ pc # "exited"
    /\ g_should_exit' = TRUE
    /\ UNCHANGED <<connVars, pc, synced, dispatched, exit_code, lockVars, outputVars,
                   frame_cb, authVars, pwVars>>

\* A roundtrip ends with its sync or with the connection; main() does not
\* look at which.
RoundtripOver == synced \/ conn = "dead"

\* The first roundtrip has delivered the globals.  Without a manager main()
\* gives up; otherwise it asks for the lock.
GiveUp ==
    /\ pc = "connecting" /\ RoundtripOver
    /\ ~has_manager
    /\ pc' = "exited" /\ exit_code' = 1
    /\ Disconnect(<<>>)
    /\ UNCHANGED <<synced, dispatched, g_should_exit, lockVars, outputVars, frame_cb,
                   authVars, pwVars>>

RequestLock ==
    /\ pc = "connecting" /\ RoundtripOver
    /\ has_manager
    /\ pc' = "locking"
    /\ synced' = FALSE
    /\ lock_object' = "live"
    /\ Send(<<Lock, Sync>>)
    /\ UNCHANGED <<events, conn, dispatched, g_should_exit, exit_code, has_manager,
                   session_locked, locked, closed, outputVars, frame_cb, authVars, pwVars>>

\* "compositor refused the lock"
LockRefused ==
    /\ pc = "locking" /\ RoundtripOver
    /\ closed
    /\ pc' = "exited" /\ exit_code' = 1
    /\ Disconnect(<<>>)
    /\ UNCHANGED <<synced, dispatched, g_should_exit, lockVars, outputVars, frame_cb,
                   authVars, pwVars>>

\* Mutant: the frame callback is not followed by a commit.
EnterLoopUncommitted ==
    /\ pc = "locking" /\ RoundtripOver
    /\ ~closed
    /\ pc' = "running"
    /\ dispatched' = FALSE
    /\ frame_cb' = FrameSurface
    /\ UNCHANGED <<requests, events, conn, synced, g_should_exit, exit_code, lockVars,
                   outputVars, authVars, pwVars>>

EnterLoop ==
    /\ pc = "locking" /\ RoundtripOver
    /\ ~closed
    /\ pc' = "running"
    /\ dispatched' = FALSE
    /\ ArmFrame
    /\ UNCHANGED <<events, conn, synced, g_should_exit, exit_code, lockVars, outputVars,
                   authVars, pwVars>>

\* The body of the loop, after a dispatch.
PassOver == pc = "running" /\ dispatched

\* Mutant: the loop forgets g_should_exit.
ShouldStopOnlyWhenClosed == closed

ShouldStop == closed \/ g_should_exit

\* Mutant: the loop forgets auth_result.
AuthenticatedByLock == session_locked

Authenticated == auth_result = 1 /\ session_locked

LeaveLoop ==
    /\ PassOver
    /\ ShouldStop
    /\ pc' = "teardown"
    /\ UNCHANGED <<connVars, synced, dispatched, g_should_exit, exit_code, lockVars,
                   outputVars, frame_cb, authVars, pwVars>>

\* Mutant: no roundtrip after the unlock.
UnlockSessionAndLeave ==
    /\ PassOver
    /\ ~ShouldStop
    /\ Authenticated
    /\ Send(<<UnlockAndDestroy>>)
    /\ lock_object' = "null"
    /\ session_locked' = FALSE
    /\ pc' = "teardown"
    /\ UNCHANGED <<events, conn, synced, dispatched, g_should_exit, exit_code, has_manager,
                   locked, closed, outputVars, frame_cb, authVars, pwVars>>

UnlockSession ==
    /\ PassOver
    /\ ~ShouldStop
    /\ Authenticated
    /\ Send(<<UnlockAndDestroy, Sync>>)
    /\ lock_object' = "null"
    /\ session_locked' = FALSE
    /\ pc' = "unlocking"
    /\ synced' = FALSE
    /\ UNCHANGED <<events, conn, dispatched, g_should_exit, exit_code, has_manager, locked,
                   closed, outputVars, frame_cb, authVars, pwVars>>

KeepRunning ==
    /\ PassOver
    /\ ~ShouldStop
    /\ ~Authenticated
    /\ auth_result' = 0
    /\ dispatched' = FALSE
    /\ UNCHANGED <<connVars, pc, synced, g_should_exit, exit_code, lockVars, outputVars,
                   frame_cb, counting_down, countdown_timer, flash, flash_timer, pwVars>>

\* wl_display_dispatch returns -1.
DispatchFails ==
    /\ pc = "running" /\ ~dispatched
    /\ conn = "dead"
    /\ pc' = "teardown"
    /\ UNCHANGED <<connVars, synced, dispatched, g_should_exit, exit_code, lockVars,
                   outputVars, frame_cb, authVars, pwVars>>

\* Mutant: the roundtrip after the unlock does not wait.
UnlockRoundtripSkipped ==
    /\ pc = "unlocking"
    /\ pc' = "teardown"
    /\ UNCHANGED <<connVars, synced, dispatched, g_should_exit, exit_code, lockVars,
                   outputVars, frame_cb, authVars, pwVars>>

UnlockRoundtripReturns ==
    /\ pc = "unlocking" /\ RoundtripOver
    /\ pc' = "teardown"
    /\ UNCHANGED <<connVars, synced, dispatched, g_should_exit, exit_code, lockVars,
                   outputVars, frame_cb, authVars, pwVars>>

\* The end of main(): what is left of the lock is released or destroyed, and
\* the display disconnected.  The surfaces, destroyed on the way, are left
\* out: nothing looks at them after.
Release ==
    CASE lock_object = "null" -> <<>>
      [] lock_object = "live" /\ session_locked -> <<UnlockAndDestroy>>
      [] lock_object = "live" /\ ~session_locked -> <<Destroy>>

Teardown ==
    /\ pc = "teardown"
    /\ pc' = "exited"
    /\ Disconnect(Release)
    /\ UNCHANGED <<synced, dispatched, g_should_exit, exit_code, lockVars, outputVars,
                   frame_cb, authVars, pwVars>>

HandleEvent ==
    \/ Synced
    \/ HandleOther
    \/ HandleManager
    \/ HandleGlobal
    \/ HandleLocked
    \/ HandleFinished
    \/ DropStaleEvent
    \/ HandleConfigure
    \/ HandleFrame
    \/ HandleKey

RunMain ==
    \/ GiveUp
    \/ RequestLock
    \/ LockRefused
    \/ EnterLoop
    \/ LeaveLoop
    \/ UnlockSession
    \/ KeepRunning
    \/ DispatchFails
    \/ UnlockRoundtripReturns
    \/ Teardown

ClientNext == HandleEvent \/ RunMain \/ Signal
=============================================================================
