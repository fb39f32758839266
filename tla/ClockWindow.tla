----------------------------- MODULE ClockWindow -----------------------------
(***************************************************************************)
(* The program without --lock: a window under xdg-shell.  The handlers of  *)
(* include/wayland/xdg_surface.h, xdg_toplevel.h and wm_base.h, the frame  *)
(* callback, and main() from the window's first commit to the exit         *)
(* (src/main.c 137-185, 209-218), with the compositor at the other end.    *)
(*                                                                         *)
(* Every picture ends in eglSwapBuffers.  With the default swap interval   *)
(* it waits until the compositor has drawn the picture before, by a frame  *)
(* callback of EGL's own: a window that is not visible may block there.    *)
(***************************************************************************)
EXTENDS Naturals, Sequences, FiniteSets

CONSTANTS
    Sizes,      \* sizes of the window
    Default,    \* 1920 x 1080
    MaxEvents   \* bound: nothing new happens while so many messages are unread

ASSUME SizeAssumption ==
    /\ Default \in Sizes /\ Sizes \subseteq Nat \ {0}
    /\ MaxEvents \in Nat

VARIABLES
    pc,                 \* main() or its handlers
    woken,              \* something was handled since the loop last looked
    closed, g_should_exit,
    size,               \* client_state: width and height
    window, buffer,     \* the size of the egl_window, of EGL's next buffer
    requests, events,
    initial,            \* the compositor: has seen the first commit
    acked,              \* ... and the first ack
    shown, told,        \* the size of the picture it has; that it asked for
    requested, waiting, \* frame callbacks: not yet committed; to be answered
    throttle,           \* EGL's frame callback is to be answered
    visible, pinged,
    perror

mainVars == <<pc, woken, closed, g_should_exit>>
drawVars == <<size, window, buffer>>
wireVars == <<requests, events>>
compVars == <<initial, acked, shown, told, requested, waiting, throttle,
              visible, pinged, perror>>
windowVars == <<mainVars, drawVars, wireVars, compVars>>

WindowInit ==
    /\ pc = "setup" /\ woken = FALSE /\ closed = FALSE /\ g_should_exit = FALSE
    /\ size = Default /\ window = Default /\ buffer = Default
    /\ requests = <<>> /\ events = <<>>
    /\ initial = FALSE /\ acked = FALSE /\ shown = 0 /\ told = 0
    /\ requested = FALSE /\ waiting = FALSE /\ throttle = FALSE
    /\ visible = FALSE /\ pinged = FALSE
    /\ perror = FALSE

-----------------------------------------------------------------------------
(* The program *)

Commit(picture) == [type |-> "commit", size |-> picture]
Request(kind) == [type |-> kind, size |-> 0]

Ask(new) == requests' = requests \o new

Setup ==
    /\ pc = "setup"
    /\ pc' = "loop"
    /\ Ask(<<Commit(0), Request("frame")>>)
    /\ UNCHANGED <<woken, closed, g_should_exit, drawVars, events, compVars>>

Handle(type) ==
    /\ pc = "loop" /\ ~perror
    /\ events # <<>> /\ Head(events).type = type
    /\ events' = Tail(events)
    /\ woken' = TRUE
    /\ UNCHANGED <<g_should_exit, compVars>>

\* Mutant: the size is noted, but the window keeps its own.
ToplevelConfigureUnresized ==
    /\ Handle("toplevel")
    /\ LET s == Head(events).size IN
           IF s = 0 THEN UNCHANGED <<drawVars, requests>>
           ELSE /\ size' = s
                /\ Ask(<<Commit(0)>>)
                /\ UNCHANGED <<window, buffer>>
    /\ UNCHANGED <<pc, closed>>

\* xdg_toplevel_configure.  EGL may take the new size for the next picture,
\* or only for the one after it.
ToplevelConfigure ==
    /\ Handle("toplevel")
    /\ LET s == Head(events).size IN
           IF s = 0 THEN UNCHANGED <<drawVars, requests>>
           ELSE /\ size' = s /\ window' = s
                /\ buffer' \in {buffer, s}
                /\ Ask(<<Commit(0)>>)
    /\ UNCHANGED <<pc, closed>>

\* Mutant: the configure event is not acknowledged.
SurfaceConfigureUnacked ==
    /\ Handle("configure")
    /\ pc' = "drawing for configure"
    /\ UNCHANGED <<closed, drawVars, requests>>

\* xdg_surface_configure, up to the swap.
SurfaceConfigure ==
    /\ Handle("configure")
    /\ Ask(<<Request("ack")>>)
    /\ pc' = "drawing for configure"
    /\ UNCHANGED <<closed, drawVars>>

\* Mutant: the frame callback is not requested again.
FrameDoneOnce ==
    /\ Handle("done")
    /\ pc' = "drawing"
    /\ UNCHANGED <<closed, drawVars, requests>>

\* wl_surface_frame_done, up to the swap.
FrameDone ==
    /\ Handle("done")
    /\ Ask(<<Request("frame")>>)
    /\ pc' = "drawing"
    /\ UNCHANGED <<closed, drawVars>>

\* Mutant: a ping is read and forgotten.
PingUnanswered ==
    /\ Handle("ping")
    /\ UNCHANGED <<pc, closed, drawVars, requests>>

Ping ==
    /\ Handle("ping")
    /\ Ask(<<Request("pong")>>)
    /\ UNCHANGED <<pc, closed, drawVars>>

\* xdg_toplevel_close, or Escape.
Close ==
    /\ Handle("close")
    /\ closed' = TRUE
    /\ UNCHANGED <<pc, drawVars, requests>>

\* eglSwapBuffers, once it need not wait, and the rest of the handler.
Swap ==
    /\ pc \in {"drawing", "drawing for configure"} /\ ~perror
    /\ ~throttle
    /\ Ask(IF pc = "drawing" THEN <<Commit(buffer)>> ELSE <<Commit(buffer), Commit(0)>>)
    /\ throttle' = TRUE
    /\ buffer' = window
    /\ pc' = "loop"
    /\ UNCHANGED <<woken, closed, g_should_exit, size, window, events, initial, acked,
                   shown, told, requested, waiting, visible, pinged, perror>>

\* Mutant: only a closed window ends the loop.
StopWhenClosed ==
    /\ pc = "loop" /\ woken
    /\ woken' = FALSE
    /\ pc' = IF closed THEN "over" ELSE pc
    /\ UNCHANGED <<closed, g_should_exit, drawVars, wireVars, compVars>>

\* The loop looks at the flags when dispatch has handled something.
Stop ==
    /\ pc = "loop" /\ woken
    /\ woken' = FALSE
    /\ pc' = IF closed \/ g_should_exit THEN "over" ELSE pc
    /\ UNCHANGED <<closed, g_should_exit, drawVars, wireVars, compVars>>

Signal ==
    /\ ~g_should_exit /\ g_should_exit' = TRUE
    /\ UNCHANGED <<pc, woken, closed, drawVars, wireVars, compVars>>

Program ==
    \/ Setup
    \/ ToplevelConfigure \/ SurfaceConfigure \/ FrameDone \/ Ping \/ Close
    \/ Swap
    \/ Stop

-----------------------------------------------------------------------------
(* The compositor *)

Event(type) == [type |-> type, size |-> 0]

Configure(s) == <<[type |-> "toplevel", size |-> s], Event("configure")>>

Told(s) == told' = IF s = 0 THEN told ELSE s

Serve(type) ==
    /\ ~perror
    /\ requests # <<>> /\ Head(requests).type = type
    /\ requests' = Tail(requests)
    /\ UNCHANGED <<mainVars, drawVars, throttle, visible>>

\* A first picture before the first ack is a protocol error.
ServeCommit ==
    /\ Serve("commit")
    /\ LET picture == Head(requests).size IN
           /\ perror' = (picture # 0 /\ ~acked)
           /\ shown' = IF picture # 0 THEN picture ELSE shown
    /\ waiting' = (waiting \/ requested) /\ requested' = FALSE
    /\ initial' = TRUE
    /\ IF initial THEN UNCHANGED <<events, told>>
       ELSE \E s \in Sizes \cup {0} : events' = events \o Configure(s) /\ Told(s)
    /\ UNCHANGED <<acked, pinged>>

ServeFrame ==
    /\ Serve("frame")
    /\ requested' = TRUE
    /\ UNCHANGED <<events, initial, acked, shown, told, waiting, pinged, perror>>

ServeAck ==
    /\ Serve("ack")
    /\ acked' = TRUE
    /\ UNCHANGED <<events, initial, shown, told, requested, waiting, pinged, perror>>

ServePong ==
    /\ Serve("pong")
    /\ pinged' = FALSE
    /\ UNCHANGED <<events, initial, acked, shown, told, requested, waiting, perror>>

Server == ServeCommit \/ ServeFrame \/ ServeAck \/ ServePong

Roomy == ~perror /\ Len(events) + Len(requests) < MaxEvents

Quiet == UNCHANGED <<mainVars, drawVars, requests, initial, acked, shown, requested, perror>>

Resize(s) ==
    /\ Roomy /\ initial
    /\ events' = events \o Configure(s) /\ Told(s)
    /\ UNCHANGED <<waiting, throttle, visible, pinged>> /\ Quiet

SendPing ==
    /\ Roomy /\ ~pinged
    /\ events' = Append(events, Event("ping")) /\ pinged' = TRUE
    /\ UNCHANGED <<told, waiting, throttle, visible>> /\ Quiet

SendClose ==
    /\ Roomy /\ shown # 0
    /\ events' = Append(events, Event("close"))
    /\ UNCHANGED <<told, waiting, throttle, visible, pinged>> /\ Quiet

Toggle ==
    /\ visible' = ~visible
    /\ UNCHANGED <<events, told, waiting, throttle, pinged>> /\ Quiet

\* A window that is visible is drawn, and its callbacks are answered.
DrawFrame ==
    /\ ~perror
    /\ visible /\ shown # 0
    /\ waiting \/ throttle
    /\ events' = IF waiting THEN Append(events, Event("done")) ELSE events
    /\ waiting' = FALSE /\ throttle' = FALSE
    /\ UNCHANGED <<told, visible, pinged>> /\ Quiet

World ==
    \/ Signal
    \/ \E s \in Sizes \cup {0} : Resize(s)
    \/ SendPing
    \/ SendClose
    \/ Toggle

WindowNext == Program \/ Server \/ DrawFrame \/ World

WindowSpec == WindowInit /\ [][WindowNext]_windowVars

\* The program and the compositor go on, and a window that is visible again
\* and again is drawn again and again.
FairWindowSpec ==
    /\ WindowSpec
    /\ WF_windowVars(Program) /\ SF_windowVars(Stop)
    /\ WF_windowVars(Server)
    /\ SF_windowVars(DrawFrame)

-----------------------------------------------------------------------------
\* No picture is sent before the compositor has configured the window and the
\* program has acknowledged that, though xdg_toplevel_configure commits before
\* it (xdg_toplevel.h 21, xdg_surface.h 18-28).
NoPictureBeforeAck == ~perror

Count(type, queue) == Cardinality({i \in DOMAIN queue : queue[i].type = type})

\* There is one frame callback, wherever it is: the frame loop neither stops
\* nor doubles (main.c 151, wl_callback_listener.h 36).
OneCallback ==
    pc # "setup" /\ ~perror =>
        Count("frame", requests) + Count("done", events)
            + (IF requested THEN 1 ELSE 0) + (IF waiting THEN 1 ELSE 0) = 1

Seen == []<>visible

\* Closing the window, Escape or a signal ends the program, if the window is
\* seen again and again (main.c 172-174).
CloseExits == Seen => (closed \/ g_should_exit ~> pc = "over")

\* So is every ping answered, until the program ends (wm_base.h 17).
PingsAnswered == Seen => (pinged ~> ~pinged \/ pc = "over")

\* When the compositor leaves its size alone, the window comes to have it,
\* also if EGL is a picture late (xdg_toplevel.h 19-25).
WindowFits ==
    Seen => \A s \in Sizes : <>[](told = s) => <>[](shown = s \/ pc = "over")
=============================================================================
