---------------------------- MODULE WlConnection ----------------------------
(***************************************************************************)
(* The Wayland connection between the clock and the compositor: libwayland *)
(* and a Unix socket, both outside the repository, modelled from how       *)
(* src/main.c and the listeners of include/wayland use them.  Each         *)
(* direction is a FIFO.  Requests a handler makes are queued at once; when *)
(* a peer is gone nothing more is delivered to it.                         *)
(***************************************************************************)
EXTENDS Sequences

VARIABLES
    requests,   \* client to compositor, oldest first
    events,     \* compositor to client, oldest first
    conn        \* "up", "closed" by the client, or "dead": lost or broken off
                \* by the compositor

connVars == <<requests, events, conn>>

\* Marshalling requests never fails for the caller: after the connection is
\* lost they go nowhere.
Send(msgs) == requests' = IF conn = "up" THEN requests \o msgs ELSE requests

\* wl_display_disconnect, or the death of the process, after some last
\* requests.  It neither flushes nor waits: how much of requests still
\* arrives is up to the socket.
Disconnect(msgs) ==
    /\ Send(msgs)
    /\ conn' = IF conn = "up" THEN "closed" ELSE conn
    /\ events' = <<>>

\* The compositor notices the hangup and drops what it has not read.
Hangup ==
    /\ conn = "closed"
    /\ requests # <<>>
    /\ requests' = <<>>
    /\ UNCHANGED <<events, conn>>
=============================================================================
