-------------------------------- MODULE Seat --------------------------------
(***************************************************************************)
(* Seats and their devices: wl_seat_capabilities of include/wayland/       *)
(* wl_seat.h, the part of registry_handle_global that binds a seat, and    *)
(* the compositor's end.  The program keeps one seat, one pointer and one  *)
(* keyboard; every seat it is told of gets its listener.                   *)
(***************************************************************************)
EXTENDS Naturals, Sequences, FiniteSets

CONSTANTS
    Seats,      \* seats the compositor may have
    NoSeat,       \* NULL
    MaxEvents   \* bound: it changes nothing while so many events are unread

ASSUME SeatAssumption == NoSeat \notin Seats /\ MaxEvents \in Nat

Capability == {"pointer", "keyboard"}

VARIABLES
    wl_seat, device,            \* client_state: device[c] is wl_pointer, wl_keyboard
    requests, events,
    announced, bound,           \* the compositor: seats it told of, seats with a listener
    offered, ever,              \* capabilities each seat has, has had
    live,                       \* devices it keeps for the client
    perror

clientVars == <<wl_seat, device>>
seatVars == <<announced, bound, offered, ever, live, perror>>
allSeatVars == <<clientVars, requests, events, seatVars>>

SeatInit ==
    /\ wl_seat = NoSeat
    /\ device = [c \in Capability |-> NoSeat]
    /\ requests = <<>> /\ events = <<>>
    /\ announced = {} /\ bound = {}
    /\ offered \in [Seats -> SUBSET Capability]
    /\ ever = offered
    /\ live = {}
    /\ perror = "none"

-----------------------------------------------------------------------------
(* The program *)

Receive(type) ==
    /\ perror = "none"
    /\ events # <<>>
    /\ Head(events).type = type
    /\ events' = Tail(events)
    /\ UNCHANGED seatVars

\* registry_handle_global: the last seat is the one that is kept.
HandleSeat ==
    /\ Receive("global")
    /\ wl_seat' = Head(events).seat
    /\ requests' = Append(requests, [type |-> "bind", seat |-> Head(events).seat])
    /\ UNCHANGED device

Get(c) == [type |-> "get", seat |-> wl_seat, capability |-> c]

Release(c) == [type |-> "release", seat |-> device[c], capability |-> c]

\* Mutant: a device is asked for again although there is one.
FollowAgain(c, have) ==
    IF have THEN [req |-> <<Get(c)>>, dev |-> wl_seat]
    ELSE IF device[c] # NoSeat THEN [req |-> <<Release(c)>>, dev |-> NoSeat]
    ELSE [req |-> <<>>, dev |-> NoSeat]

\* Mutant: a device that is released is not forgotten.
FollowKept(c, have) ==
    IF have /\ device[c] = NoSeat THEN [req |-> <<Get(c)>>, dev |-> wl_seat]
    ELSE IF ~have /\ device[c] # NoSeat THEN [req |-> <<Release(c)>>, dev |-> device[c]]
    ELSE [req |-> <<>>, dev |-> device[c]]

\* Mutant: every device is asked for.
FollowAlways(c, have) ==
    IF device[c] = NoSeat THEN [req |-> <<Get(c)>>, dev |-> wl_seat]
    ELSE [req |-> <<>>, dev |-> device[c]]

\* What one of the two halves of wl_seat_capabilities does: the request that
\* it makes and the device that is there after.
Follow(c, have) ==
    IF have /\ device[c] = NoSeat THEN [req |-> <<Get(c)>>, dev |-> wl_seat]
    ELSE IF ~have /\ device[c] # NoSeat THEN [req |-> <<Release(c)>>, dev |-> NoSeat]
    ELSE [req |-> <<>>, dev |-> device[c]]

\* wl_seat_capabilities, which does not look at whose capabilities they are.
HandleCapabilities ==
    /\ Receive("capabilities")
    /\ LET step == [c \in Capability |-> Follow(c, c \in Head(events).capabilities)] IN
           /\ requests' = requests \o step["pointer"].req \o step["keyboard"].req
           /\ device' = [c \in Capability |-> step[c].dev]
    /\ UNCHANGED wl_seat

-----------------------------------------------------------------------------
(* The compositor *)

Capabilities(s, caps) == [type |-> "capabilities", seat |-> s, capabilities |-> caps]

Serve(type) ==
    /\ perror = "none"
    /\ requests # <<>>
    /\ Head(requests).type = type
    /\ requests' = Tail(requests)
    /\ UNCHANGED clientVars

Announce(s) ==
    /\ perror = "none"
    /\ s \notin announced
    /\ announced' = announced \cup {s}
    /\ events' = Append(events, [type |-> "global", seat |-> s])
    /\ UNCHANGED <<clientVars, requests, bound, offered, ever, live, perror>>

ServeBind ==
    /\ Serve("bind")
    /\ LET s == Head(requests).seat IN
           /\ bound' = bound \cup {s}
           /\ events' = Append(events, Capabilities(s, offered[s]))
    /\ UNCHANGED <<announced, offered, ever, live, perror>>

\* A device is plugged in or unplugged.
ChangeCapabilities(s, caps) ==
    /\ perror = "none"
    /\ s \in bound /\ caps # offered[s]
    /\ Len(events) < MaxEvents /\ Len(requests) < MaxEvents
    /\ offered' = [offered EXCEPT ![s] = caps]
    /\ ever' = [ever EXCEPT ![s] = @ \cup caps]
    /\ events' = Append(events, Capabilities(s, caps))
    /\ UNCHANGED <<clientVars, requests, announced, bound, live, perror>>

\* A device of a kind that the seat has never had is a protocol error.
ServeGet ==
    /\ Serve("get")
    /\ LET s == Head(requests).seat
           c == Head(requests).capability
       IN \/ c \in ever[s] /\ live' = live \cup {<<s, c>>} /\ UNCHANGED perror
          \/ c \notin ever[s] /\ perror' = "missing_capability" /\ UNCHANGED live
    /\ UNCHANGED <<events, announced, bound, offered, ever>>

ServeRelease ==
    /\ Serve("release")
    /\ live' = live \ {<<Head(requests).seat, Head(requests).capability>>}
    /\ UNCHANGED <<events, announced, bound, offered, ever, perror>>

SeatNext ==
    \/ HandleSeat
    \/ HandleCapabilities
    \/ \E s \in Seats : Announce(s)
    \/ ServeBind
    \/ \E s \in Seats, caps \in SUBSET Capability : ChangeCapabilities(s, caps)
    \/ ServeGet
    \/ ServeRelease

SeatSpec == SeatInit /\ [][SeatNext]_allSeatVars

-----------------------------------------------------------------------------
Settled == requests = <<>> /\ events = <<>> /\ perror = "none"

\* With one seat, the program has the devices that the seat has, once all is
\* delivered, however they came and went (wl_seat.h 16-33).
DevicesFollowTheSeat ==
    \A s \in bound :
        Settled /\ announced = {s} => {c \in Capability : device[c] # NoSeat} = offered[s]

\* The compositor kills the program for a device that a seat has never had
\* only when there is more than one seat: the event of one seat is then
\* answered with a request to another (wl_seat.h 18, 27).
ErrorNeedsTwoSeats == perror # "none" => Cardinality(announced) > 1

\* When all is delivered, the devices that the compositor keeps are those that
\* the program knows of, even with two seats.
DevicesKnown ==
    Settled => live = {<<device[c], c>> : c \in {d \in Capability : device[d] # NoSeat}}

\* No device is asked for while the compositor keeps one of its kind, which
\* nothing would release any more, and none is released twice, however the
\* capabilities of two seats overtake the requests (wl_seat.h 17-33).
OneDeviceOfAKind ==
    perror = "none" /\ requests # <<>> =>
        LET r == Head(requests) IN
        /\ r.type = "get" => \A s \in Seats : <<s, r.capability>> \notin live
        /\ r.type = "release" => <<r.seat, r.capability>> \in live
=============================================================================
