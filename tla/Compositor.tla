----------------------------- MODULE Compositor -----------------------------
(***************************************************************************)
(* The compositor, outside the repository: what the program expects of it  *)
(* according to the session-lock protocol, whose text is in                *)
(* include/ext-session-lock-v1-protocol.h, and to the requests it makes.   *)
(* The compositor may be slow, refuse, revoke, resize, lose monitors and   *)
(* die; it never sends an event the protocol forbids.                      *)
(***************************************************************************)
EXTENDS WlConnection, Naturals, FiniteSets, Functions

CONSTANTS
    Initial,        \* outputs present when the client connects
    Pluggable,      \* outputs that may be plugged in later
    Unpluggable,    \* outputs that may be unplugged
    FrameTime,      \* ticks that may pass between two frames
    Keys,           \* keys the user may press
    Whims,          \* what else it may do: "deny", "revoke", "resize", "other", "die"
    MaxBacklog      \* bound: it resizes nothing with so many requests unread

\* An output that is plugged back in is a new output, with a new name.
ASSUME HotplugAssumption ==
    /\ IsFiniteSet(Initial)
    /\ Pluggable \cap (Initial \cup Unpluggable) = {}
    /\ FrameTime \subseteq Nat \ {0}
    /\ Whims \subseteq {"deny", "revoke", "resize", "other", "die"}
    /\ MaxBacklog \in Nat

VARIABLES
    present,            \* outputs plugged in
    lock_state,         \* the ext_session_lock_v1 object and the session
    revoked,            \* finished was sent after locked
    surfaces,           \* outputs that have a lock surface
    acked,              \* ... whose first configure was acknowledged
    mapped,             \* ... that show something
    frame_ready,        \* surface that waits for a frame callback
    perror              \* the protocol error the client was killed for

compVars ==
    <<present, lock_state, revoked, surfaces, acked, mapped, frame_ready, perror>>

NoFrame == "no frame"

CompInit ==
    /\ present = Initial
    /\ lock_state = "none"
    /\ revoked = FALSE
    /\ surfaces = {} /\ acked = {} /\ mapped = {}
    /\ frame_ready = NoFrame
    /\ perror = "none"

-----------------------------------------------------------------------------
Emit(msgs) == events' = IF conn = "up" THEN events \o msgs ELSE events

Pending(type) == \E i \in DOMAIN events : events[i].type = type

\* Take the oldest request; a client that has hung up may still be served.
Serve(type) ==
    /\ conn # "dead"
    /\ requests # <<>>
    /\ Head(requests).type = type
    /\ requests' = Tail(requests)
    /\ UNCHANGED conn

\* A protocol error: the client is disconnected.
Reject(type, error) ==
    /\ conn # "dead"
    /\ requests # <<>>
    /\ Head(requests).type = type
    /\ requests' = <<>>
    /\ conn' = IF conn = "up" THEN "dead" ELSE conn
    /\ perror' = error
    /\ UNCHANGED <<events, present, lock_state, revoked, surfaces, acked, mapped,
                   frame_ready>>

\* The globals, in any order; a session lock manager may be missing.
Advertise ==
    /\ Serve("get_registry")
    /\ \E manager \in {<<>>, <<[type |-> "manager"]>>},
          order \in [1..Cardinality(present) -> present] :
           /\ Range(order) = present
           /\ Emit(manager \o [i \in DOMAIN order |-> [type |-> "global", output |-> order[i]]])
    /\ UNCHANGED compVars

ServeSync ==
    /\ Serve("sync")
    /\ Emit(<<[type |-> "done"]>>)
    /\ UNCHANGED compVars

ServeLock ==
    /\ Serve("lock")
    /\ lock_state' = "pending"
    /\ UNCHANGED <<events, present, revoked, surfaces, acked, mapped, frame_ready, perror>>

GrantLock ==
    /\ lock_state = "pending"
    /\ lock_state' = "locked"
    /\ Emit(<<[type |-> "locked"]>>)
    /\ UNCHANGED <<requests, conn, present, revoked, surfaces, acked, mapped, frame_ready,
                   perror>>

DenyLock ==
    /\ "deny" \in Whims
    /\ lock_state = "pending"
    /\ lock_state' = "denied"
    /\ Emit(<<[type |-> "finished"]>>)
    /\ UNCHANGED <<requests, conn, present, revoked, surfaces, acked, mapped, frame_ready,
                   perror>>

RevokeLock ==
    /\ "revoke" \in Whims
    /\ conn = "up"
    /\ lock_state = "locked"
    /\ ~revoked
    /\ revoked' = TRUE
    /\ Emit(<<[type |-> "finished"]>>)
    /\ UNCHANGED <<requests, conn, present, lock_state, surfaces, acked, mapped,
                   frame_ready, perror>>

ServeUnlock ==
    \/ /\ Serve("unlock_and_destroy")
       /\ lock_state = "locked"
       /\ lock_state' = "unlocked"
       /\ UNCHANGED <<events, present, revoked, surfaces, acked, mapped, frame_ready, perror>>
    \/ /\ lock_state # "locked"
       /\ Reject("unlock_and_destroy", "invalid_unlock")

ServeDestroy ==
    \/ /\ Serve("destroy")
       /\ lock_state # "locked"
       /\ lock_state' = "destroyed"
       /\ UNCHANGED <<events, present, revoked, surfaces, acked, mapped, frame_ready, perror>>
    \/ /\ lock_state = "locked"
       /\ Reject("destroy", "invalid_destroy")

\* An output that is gone gets no configure.
ServeGetLockSurface ==
    LET o == Head(requests).output IN
    \/ /\ Serve("get_lock_surface")
       /\ o \notin surfaces
       /\ surfaces' = surfaces \cup {o}
       /\ Emit(IF o \in present THEN <<[type |-> "configure", output |-> o]>> ELSE <<>>)
       /\ UNCHANGED <<present, lock_state, revoked, acked, mapped, frame_ready, perror>>
    \/ /\ Reject("get_lock_surface", "duplicate_output")
       /\ o \in surfaces

ServeAck ==
    /\ Serve("ack_configure")
    /\ acked' = acked \cup {Head(requests).output}
    /\ UNCHANGED <<events, present, lock_state, revoked, surfaces, mapped, frame_ready,
                   perror>>

\* A frame callback takes effect with the commit of its own surface.
ServeCommit ==
    LET c == Head(requests) IN
    \/ /\ Serve("commit")
       /\ c.on \subseteq acked
       /\ mapped' = mapped \cup c.on
       /\ frame_ready' = IF c.frame \in c.on THEN c.frame ELSE frame_ready
       /\ UNCHANGED <<events, present, lock_state, revoked, surfaces, acked, perror>>
    \/ /\ Reject("commit", "commit_before_first_ack")
       /\ ~(c.on \subseteq acked)

\* A new size for a lock surface: at most one on its way.
Resize ==
    /\ "resize" \in Whims
    /\ conn = "up"
    /\ Len(requests) < MaxBacklog
    /\ ~Pending("configure")
    /\ \E o \in mapped \cap present :
           Emit(<<[type |-> "configure", output |-> o]>>)
    /\ UNCHANGED <<requests, conn, compVars>>

\* Frames are drawn for surfaces on outputs that are there.
DrawFrame ==
    /\ conn = "up"
    /\ frame_ready \in present
    /\ frame_ready' = NoFrame
    /\ \E dt \in FrameTime : Emit(<<[type |-> "frame", dt |-> dt]>>)
    /\ UNCHANGED <<requests, conn, present, lock_state, revoked, surfaces, acked, mapped,
                   perror>>

\* The user presses a key; the lock surfaces have the focus once shown.  At
\* most one key press is on its way.
PressKey ==
    /\ conn = "up"
    /\ lock_state = "locked"
    /\ mapped \cap present # {}
    /\ ~Pending("key")
    /\ \E sym \in Keys : Emit(<<[type |-> "key", sym |-> sym]>>)
    /\ UNCHANGED <<requests, conn, compVars>>

Plug ==
    /\ conn = "up"
    /\ ~\E i \in DOMAIN requests : requests[i].type = "get_registry"
    /\ \E o \in Pluggable \ present :
           /\ present' = present \cup {o}
           /\ Emit(<<[type |-> "global", output |-> o]>>)
    /\ UNCHANGED <<requests, conn, lock_state, revoked, surfaces, acked, mapped,
                   frame_ready, perror>>

Unplug ==
    /\ conn = "up"
    /\ \E o \in Unpluggable \cap present :
           present' = present \ {o}
    /\ Emit(<<[type |-> "other"]>>)
    /\ UNCHANGED <<requests, conn, lock_state, revoked, surfaces, acked, mapped,
                   frame_ready, perror>>

\* Anything else the client hears of: at most one on its way.
SendOther ==
    /\ "other" \in Whims
    /\ conn = "up"
    /\ ~Pending("other")
    /\ Emit(<<[type |-> "other"]>>)
    /\ UNCHANGED <<requests, conn, compVars>>

Die ==
    /\ "die" \in Whims
    /\ conn = "up"
    /\ conn' = "dead"
    /\ requests' = <<>>
    /\ UNCHANGED <<events, compVars>>

ServeRequest ==
    \/ Advertise
    \/ ServeSync
    \/ ServeLock
    \/ ServeUnlock
    \/ ServeDestroy
    \/ ServeGetLockSurface
    \/ ServeAck
    \/ ServeCommit

CompNext ==
    \/ ServeRequest
    \/ GrantLock \/ DenyLock \/ RevokeLock
    \/ Resize \/ DrawFrame \/ PressKey
    \/ Plug \/ Unplug \/ SendOther
    \/ Die
    \/ Hangup /\ UNCHANGED compVars
=============================================================================
