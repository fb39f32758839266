------------------------------ MODULE EvaLock -------------------------------
(***************************************************************************)
(* The locker and the compositor together: every interleaving of the       *)
(* program's handlers, its main loop, its signal handler, and the          *)
(* compositor's answers, events and failures.                              *)
(***************************************************************************)
EXTENDS LockClient, Compositor

ASSUME EnvironmentAssumption ==
    /\ Initial \cup Pluggable \subseteq Output
    /\ FrameTime \subseteq 1..MaxDt
    /\ Keys \subseteq KeySym
    /\ NoFrame \notin Output

vars == <<clientVars, connVars, compVars>>

Init ==
    /\ ClientInit
    /\ CompInit
    /\ requests = <<GetRegistry, Sync>>
    /\ events = <<>>
    /\ conn = "up"

ClientStep == ClientNext /\ UNCHANGED compVars

CompStep == CompNext /\ UNCHANGED clientVars

Next == ClientStep \/ CompStep

Spec == Init /\ [][Next]_vars

-----------------------------------------------------------------------------
(* Fairness: the program runs whenever it can, and so does the compositor: *)
(* it reads its requests, decides about the lock and draws frames.  Users, *)
(* signals, monitors and failures owe nothing.                             *)

Fairness ==
    /\ WF_vars(HandleEvent /\ UNCHANGED compVars)
    /\ WF_vars(RunMain /\ UNCHANGED compVars)
    /\ WF_vars(ServeRequest /\ UNCHANGED clientVars)
    /\ WF_vars((GrantLock \/ DenyLock) /\ UNCHANGED clientVars)
    /\ WF_vars(DrawFrame /\ UNCHANGED clientVars)

FairSpec == Spec /\ Fairness

-----------------------------------------------------------------------------
MainTypeOK ==
    /\ pc \in {"connecting", "locking", "running", "unlocking", "teardown", "exited"}
    /\ synced \in BOOLEAN /\ dispatched \in BOOLEAN
    /\ g_should_exit \in BOOLEAN /\ exit_code \in {0, 1}

LockTypeOK ==
    /\ has_manager \in BOOLEAN /\ lock_object \in {"null", "live"}
    /\ session_locked \in BOOLEAN /\ locked \in BOOLEAN /\ closed \in BOOLEAN

OutputTypeOK ==
    /\ lock_outputs \in Seq(Output) /\ Len(lock_outputs) <= MaxOutputs
    /\ lock_surfaces \subseteq Range(lock_outputs)
    /\ configured \subseteq lock_surfaces
    /\ frame_cb \in Output \cup {Window, NoSurface}

AuthTypeOK ==
    /\ counting_down \in BOOLEAN /\ countdown_timer \in 0..Countdown
    /\ auth_result \in {0, 1}
    /\ flash \in {"none", "red", "green"} /\ flash_timer \in 0..Flash

ConnTypeOK ==
    /\ requests \in Seq(Request) /\ events \in Seq(Event)
    /\ conn \in {"up", "closed", "dead"}

CompTypeOK ==
    /\ present \subseteq Output
    /\ lock_state \in {"none", "pending", "denied", "locked", "unlocked", "destroyed"}
    /\ revoked \in BOOLEAN
    /\ surfaces \subseteq Output /\ acked \subseteq Output /\ mapped \subseteq Output
    /\ frame_ready \in Output \cup {NoFrame}
    /\ perror \in {"none", "invalid_unlock", "invalid_destroy", "duplicate_output",
                   "commit_before_first_ack"}

TypeOK ==
    /\ MainTypeOK /\ LockTypeOK /\ OutputTypeOK /\ AuthTypeOK /\ PwTypeOK
    /\ ConnTypeOK /\ CompTypeOK

-----------------------------------------------------------------------------
(* Safety *)

\* The client never breaks the session-lock protocol, with one exception: a
\* signal that arrives before the locked event is read makes main() send
\* destroy (main.c 203-208) for a lock that the compositor has granted.
OnlyDestroyRace ==
    perror # "none" =>
        perror = "invalid_destroy" /\ pc = "exited" /\ g_should_exit /\ ~session_locked

\* The abstract locker: the session is what the compositor has done, the
\* permits are read off the program and the compositor.
AbstractSession ==
    CASE lock_state = "locked" -> "locked"
      [] lock_state = "unlocked" -> "released"
      [] OTHER -> "open"

AbstractPermits ==
    (IF counting_down \/ auth_result = 1 THEN {"password"} ELSE {})
        \cup (IF revoked THEN {"compositor"} ELSE {})
        \cup (IF g_should_exit THEN {"signal"} ELSE {})

Abstract == INSTANCE SessionLock WITH
                session <- AbstractSession, permits <- AbstractPermits

\* The program and the compositor implement the abstract locker: whatever is
\* lost, reordered or revoked, the session is opened only after a correct
\* password, the compositor's decision or a signal.
SessionLockSpec == Abstract!Spec

\* The same as an invariant.
UnlockNeedsCause == lock_state = "unlocked" => AbstractPermits # {}

\* The roundtrip after unlock_and_destroy (main.c 178-181) does its work: when
\* it is over and the connection stands, the session is unlocked.
UnlockConfirmed ==
    pc = "teardown" /\ locked /\ lock_object = "null" /\ conn = "up" =>
        lock_state = "unlocked"

\* A program that has left an intact connection behind leaves a locked
\* session only after a signal or a revocation, never after a password.
AbandonedOnlyOnSignalOrRevoke ==
    pc = "exited" /\ conn = "closed" /\ requests = <<>> /\ lock_state = "locked" =>
        g_should_exit \/ revoked

\* A green flash on screen means that the countdown to the unlock is running
\* and how far it has come; a later failed attempt turns the flash red and
\* leaves the countdown alone (keyboard.h 76-85, wl_callback_listener.h 44-62).
GreenFlashCountsDown ==
    flash = "green" /\ flash_timer > 0 =>
        counting_down /\ countdown_timer - flash_timer = Countdown - Flash

\* When all is delivered, every monitor that got a lock surface and is still
\* there shows it, and client and compositor agree on what is shown.
SettledSurfacesShown ==
    session_locked /\ conn = "up" /\ requests = <<>> /\ ~Pending("configure") =>
        /\ surfaces = lock_surfaces
        /\ mapped = configured
        /\ lock_surfaces \cap present \subseteq mapped

\* The frame callback is never lost and never doubled: exactly one commit,
\* waiting surface or frame event carries it on.
FrameCarriers ==
    Cardinality({i \in DOMAIN requests : requests[i].type = "commit"
                                          /\ requests[i].frame \in requests[i].on})
        + (IF frame_ready = NoFrame THEN 0 ELSE 1)
        + Cardinality({i \in DOMAIN events : events[i].type = "frame"})

OneFrameCallback ==
    pc \in {"running", "unlocking"} /\ conn = "up" =>
        FrameCarriers = (IF frame_cb \in Output THEN 1 ELSE 0)

-----------------------------------------------------------------------------
(* Liveness *)

\* The lock ended, or something other than the password took over.
Ended == lock_state = "unlocked" \/ closed \/ g_should_exit \/ conn # "up"

KeysCease == <>[]~Pending("key")

\* After a correct password the countdown runs out and the session is
\* unlocked, if frames are being drawn and the user stops typing: every
\* further correct password starts the countdown again (keyboard.h 76-81,
\* wl_callback_listener.h 54-62, main.c 176-183).
SuccessUnlocks == KeysCease => (counting_down /\ frame_cb \in Output ~> Ended)

\* A program whose lock is refused ends.
RefusalExits == lock_state = "denied" ~> pc = "exited"

\* A revocation ends the program, and so does the end of the connection, also
\* in the roundtrip after the unlock, whose result is not looked at (main.c
\* 181); so does a signal, even while it is unlocking, as long as frames wake
\* its loop (main.c 172-174).
StopExits ==
    revoked \/ conn = "dead" \/ (g_should_exit /\ frame_cb \in Output) ~> pc = "exited"

-----------------------------------------------------------------------------
(* What comments say, and the code does not do. *)

\* main.c 133-134: the roundtrip "waits for .locked", then "handle_locked
\* creates lock surface then .configure", which "renders first frame".  So
\* the loop starts with a lock surface that can carry the frame callback.
LoopStartsConfigured ==
    pc = "running" /\ lock_outputs # <<>> /\ conn = "up" => configured # {}

\* client_state.h 71: indicator_visible "toggles on each keypress".  So a key
\* that is pressed in the locked session and does not submit the line turns
\* the box over.
KeypressToggles ==
    [][HandleKey /\ session_locked /\ Head(events).sym # "Return" =>
           indicator_visible' # indicator_visible]_vars
=============================================================================
