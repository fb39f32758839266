------------------------------- MODULE Startup -------------------------------
(***************************************************************************)
(* From main() to the event loop (src/main.c 54-136): the connection, the  *)
(* globals that registry_handle_global binds with fixed versions, EGL, GL  *)
(* and the lock request, with every way in which that may go wrong.        *)
(*                                                                         *)
(* Requests reach the compositor in order and some time later.  A bind     *)
(* with a version that the compositor does not have kills the program.     *)
(* What a bound seat leads to comes later still: its capabilities, and the *)
(* keymap of a keyboard, are handled in the roundtrip behind the lock      *)
(* request (main.c 135), or in the loop.                                   *)
(***************************************************************************)
EXTENDS Naturals, Sequences, FiniteSets

CONSTANTS
    Global,         \* the globals that the program knows the interface of
    Compositor, WmBase, Manager,    \* those it cannot do without
    Seats, Outputs, \* those there may be several of, and later too
    Versioned,      \* those bound with a version above 1, that not every
                    \* compositor has
    MaxOutputs,     \* MAX_OUTPUTS
    None,           \* NULL
    MaxRequests,    \* bounds: the compositor tells of no global and no change
    MaxEvents       \* while so many requests are unread, and of no change
                    \* while so many events are

ASSUME GlobalAssumption ==
    /\ {Compositor, WmBase, Manager} \subseteq Global
    /\ Seats \subseteq Global /\ Outputs \subseteq Global /\ Versioned \subseteq Global
    /\ {MaxOutputs, MaxRequests, MaxEvents} \subseteq Nat
    /\ None \notin Global

Capability == {"pointer", "keyboard"}

VARIABLES
    lock_mode,                  \* MODE_LOCK
    pc,                         \* where main() is, or how it ended
    bound,                      \* the globals that are not NULL
    late_bind,                  \* a global was bound after the lock request
    wl_seat, devices,           \* the seat, which of its devices are not NULL
    requests, events,
    seated, ever,               \* the compositor: seats with a listener, what
                                \* each seat ever had
    perror,                     \* the protocol error that has ended the connection
    session                     \* "open" or "locked"

mainVars == <<lock_mode, pc>>
globalVars == <<bound, late_bind, wl_seat>>
wireVars == <<requests, events>>
compVars == <<seated, ever, perror, session>>
startVars == <<mainVars, globalVars, devices, wireVars, compVars>>

StartInit ==
    /\ lock_mode \in BOOLEAN
    /\ pc = "connect"
    /\ bound = {} /\ late_bind = FALSE
    /\ wl_seat = None /\ devices = {}
    /\ requests = <<>> /\ events = <<>>
    /\ seated = {} /\ ever = [s \in Seats |-> {}]
    /\ perror = "none" /\ session = "open"

-----------------------------------------------------------------------------
(* The program *)

GoTo(place) == pc' = place

\* A step of main() that handles no event.
Walk == UNCHANGED <<lock_mode, globalVars, devices, events, compVars>>

Connect ==
    /\ pc = "connect"
    /\ GoTo("registry")
    /\ Walk /\ UNCHANGED requests

\* wl_display_connect returns NULL, and wl_display_get_registry reads it.
ConnectFails ==
    /\ pc = "connect"
    /\ GoTo("crashed")
    /\ Walk /\ UNCHANGED requests

\* Nothing is sent over a connection that has ended.
Send(rs) == requests' = IF perror = "none" THEN requests \o rs ELSE requests

\* Events are handled in the two roundtrips and in the loop.
Dispatching == pc \in {"registry", "loop"}

Bind(g) == [type |-> "bind", global |-> g]

Lock == [type |-> "lock", global |-> Manager]

\* A compositor tells of what it has in the first roundtrip; a seat or a
\* monitor may be plugged in later.
ToldOf(g) ==
    /\ Dispatching /\ Len(requests) < MaxRequests
    /\ g \notin bound
    /\ pc = "loop" => g \in Seats \cup Outputs

\* Mutant: the lock is requested as soon as that is possible.
HandleGlobalLocking(g) ==
    /\ ToldOf(g)
    /\ bound' = bound \cup {g} /\ late_bind' = (pc = "loop")
    /\ wl_seat' = IF g \in Seats THEN g ELSE wl_seat
    /\ Send(IF g = Manager /\ lock_mode THEN <<Bind(g), Lock>> ELSE <<Bind(g)>>)
    /\ UNCHANGED <<mainVars, devices, events, compVars>>

\* registry_handle_global: the last seat is the one that is kept, the ninth
\* output is not bound.
HandleGlobal(g) ==
    /\ ToldOf(g)
    /\ g \in Outputs => Cardinality(bound \cap Outputs) < MaxOutputs
    /\ bound' = bound \cup {g} /\ late_bind' = (pc = "loop")
    /\ wl_seat' = IF g \in Seats THEN g ELSE wl_seat
    /\ Send(<<Bind(g)>>)
    /\ UNCHANGED <<mainVars, devices, events, compVars>>

Receive(type) ==
    /\ Dispatching
    /\ events # <<>>
    /\ Head(events).type = type
    /\ events' = Tail(events)
    /\ UNCHANGED <<lock_mode, globalVars, compVars>>

Get(c) == [type |-> "get", global |-> wl_seat, capability |-> c]

\* One of the two halves of wl_seat_capabilities; to release a device is of no
\* consequence here.
Ask(c, have) == IF have /\ c \notin devices THEN <<Get(c)>> ELSE <<>>

\* wl_seat_capabilities, which does not look at whose capabilities they are.
HandleCapabilities ==
    /\ Receive("capabilities")
    /\ LET have == Head(events).capabilities IN
           /\ Send(Ask("pointer", "pointer" \in have) \o Ask("keyboard", "keyboard" \in have))
           /\ devices' = have
    /\ UNCHANGED pc

\* wl_keyboard_keymap: a keymap of another format, or one that cannot be
\* mapped, fails an assertion; one that does not compile is a NULL that is
\* used.
HandleKeymap ==
    /\ Receive("keymap")
    /\ pc' = IF Head(events).fit THEN pc ELSE "no keymap"
    /\ UNCHANGED <<devices, requests>>

\* The first roundtrip is over: the compositor has no more to tell of, or the
\* connection is broken, which is not looked at.
RegistryRead ==
    /\ pc = "registry"
    /\ GoTo("surface")
    /\ Walk /\ UNCHANGED requests

Needed == IF lock_mode THEN {Compositor} ELSE {Compositor, WmBase}

\* The rest of wayland_init: a global that is NULL is used all the same.
CreateSurface ==
    /\ pc = "surface"
    /\ GoTo(IF Needed \subseteq bound THEN "egl" ELSE "crashed")
    /\ Walk /\ UNCHANGED requests

\* create_window_egl asserts, gladLoadGLLoader is checked; either may fail.
LoadGl ==
    /\ pc = "egl"
    /\ pc' \in {"ready", "aborted", "exit 1"}
    /\ Walk /\ UNCHANGED requests

Enter ==
    /\ pc = "ready"
    /\ IF lock_mode /\ Manager \notin bound
       THEN GoTo("exit 1") /\ UNCHANGED requests
       ELSE GoTo("loop") /\ IF lock_mode THEN Send(<<Lock>>) ELSE UNCHANGED requests
    /\ Walk

\* wl_display_dispatch returns -1; what was still to be handled is not.
LoopEnds ==
    /\ pc = "loop" /\ perror # "none"
    /\ GoTo("over") /\ events' = <<>>
    /\ UNCHANGED <<lock_mode, globalVars, devices, requests, compVars>>

-----------------------------------------------------------------------------
(* The compositor *)

Serve(type) ==
    /\ requests # <<>> /\ perror = "none"
    /\ Head(requests).type = type
    /\ UNCHANGED <<mainVars, globalVars, devices>>

\* The connection ends with an error, and what is behind the request with it.
Refuse(error) ==
    /\ perror' = error /\ requests' = <<>>
    /\ UNCHANGED <<events, seated, ever, session>>

Tell(s, caps) ==
    /\ events' = Append(events, [type |-> "capabilities", seat |-> s, capabilities |-> caps])
    /\ ever' = [ever EXCEPT ![s] = @ \cup caps]

ServeBind ==
    /\ Serve("bind")
    /\ LET g == Head(requests).global IN
       \/ g \in Versioned /\ Refuse("version")
       \/ /\ requests' = Tail(requests)
          /\ IF g \in Seats
             THEN seated' = seated \cup {g} /\ \E caps \in SUBSET Capability : Tell(g, caps)
             ELSE UNCHANGED <<events, seated, ever>>
          /\ UNCHANGED <<perror, session>>

ServeLock ==
    /\ Serve("lock")
    /\ requests' = Tail(requests)
    /\ session' = "locked"
    /\ UNCHANGED <<events, seated, ever, perror>>

\* A device of a kind that the seat has never had is a protocol error; a
\* keyboard comes with its keymap.
ServeGet ==
    /\ Serve("get")
    /\ LET r == Head(requests) IN
       \/ r.capability \notin ever[r.global] /\ Refuse("capability")
       \/ /\ r.capability \in ever[r.global]
          /\ requests' = Tail(requests)
          /\ IF r.capability = "keyboard"
             THEN \E fit \in BOOLEAN : events' = Append(events, [type |-> "keymap", fit |-> fit])
             ELSE UNCHANGED events
          /\ UNCHANGED <<seated, ever, perror, session>>

Alive == {"registry", "surface", "egl", "ready", "loop"}

\* A device is plugged in or unplugged.
ChangeCapabilities(s, caps) ==
    /\ perror = "none" /\ pc \in Alive
    /\ s \in seated /\ Len(events) < MaxEvents /\ Len(requests) < MaxRequests
    /\ Tell(s, caps)
    /\ UNCHANGED <<mainVars, globalVars, devices, requests, seated, perror, session>>

StartNext ==
    \/ Connect
    \/ ConnectFails
    \/ \E g \in Global : HandleGlobal(g)
    \/ HandleCapabilities
    \/ HandleKeymap
    \/ RegistryRead
    \/ CreateSurface
    \/ LoadGl
    \/ Enter
    \/ LoopEnds
    \/ ServeBind
    \/ ServeLock
    \/ ServeGet
    \/ \E s \in Seats, caps \in SUBSET Capability : ChangeCapabilities(s, caps)

StartSpec == StartInit /\ [][StartNext]_startVars

-----------------------------------------------------------------------------
SeveralSeats == \E s, t \in bound \cap Seats : s # t

\* The session is locked by a program that has got to its loop (main.c 107-135:
\* the lock request comes last), so no bind of the start, no failure of EGL and
\* no missing global leaves a locked session behind.  Three things do: a global
\* bound after the request, in a version the compositor does not have; two
\* seats, there from the start or not, whose devices are mixed up (wl_seat.h
\* 18, 27); and a keymap that cannot be used (keyboard.h 18-27).
LockedByLivingLocker ==
    session = "locked" =>
        /\ pc \in {"loop", "over", "no keymap"}
        /\ perror = "version" => late_bind
        /\ perror = "capability" => SeveralSeats
        /\ pc = "no keymap" => \E s \in Seats : "keyboard" \in ever[s]
=============================================================================
