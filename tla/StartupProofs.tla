---------------------------- MODULE StartupProofs ----------------------------
(***************************************************************************)
(* A proof about Startup, for any globals, seats and compositor: no bind   *)
(* of the start and no failure on the way to the event loop leaves a       *)
(* locked session behind, and with one seat no mix-up of devices does.     *)
(*                                                                         *)
(* The lock request is the last of the start: a bind that is behind it in  *)
(* the queue, or still in the queue of a locked session, was made in the   *)
(* loop.  And while there is one seat, what is asked of it are devices of  *)
(* kinds that it told of.                                                  *)
(***************************************************************************)
EXTENDS Startup, SequenceTheorems, TLAPS

Request ==
    [type : {"bind", "lock"}, global : Global]
        \cup [type : {"get"}, global : Seats, capability : Capability]

Event ==
    [type : {"capabilities"}, seat : Seats, capabilities : SUBSET Capability]
        \cup [type : {"keymap"}, fit : BOOLEAN]

InLoop == pc \in {"loop", "over", "no keymap"}

-----------------------------------------------------------------------------
(* The order of the requests *)

RequestsTyped ==
    /\ requests \in Seq(Request)
    /\ perror \in {"none", "version", "capability"}
    /\ session \in {"open", "locked"}

\* Nothing is asked of a connection that has ended.
KilledIsSilent == perror # "none" => requests = <<>>

\* The lock is requested on entering the loop, and no sooner.
LockIsAskedInLoop ==
    /\ \A i \in DOMAIN requests : requests[i].type = "lock" => InLoop
    /\ session = "locked" => InLoop

\* What is behind the lock request was bound after it.
BoundBehindLock ==
    \A i, j \in DOMAIN requests :
        i < j /\ requests[i].type = "lock" /\ requests[j].type = "bind" => late_bind

\* So was what is bound in a locked session, and what was refused in it.
BoundInLockedSession ==
    session = "locked" =>
        /\ \A i \in DOMAIN requests : requests[i].type = "bind" => late_bind
        /\ perror = "version" => late_bind

OrderInv ==
    /\ RequestsTyped
    /\ KilledIsSilent
    /\ LockIsAskedInLoop
    /\ BoundBehindLock
    /\ BoundInLockedSession

-----------------------------------------------------------------------------
(* The seats and their devices *)

KeyboardSeen == \E s \in Seats : "keyboard" \in ever[s]

\* A device is asked of a seat that told of its kind, if there is one seat.
RequestSound(r) ==
    /\ r.type = "bind" => r.global \in bound
    /\ r.type = "get" =>
           r.global \in bound \cap Seats /\ (SeveralSeats \/ r.capability \in ever[r.global])

EventSound(e) ==
    /\ e.type = "capabilities" =>
           e.seat \in bound \cap Seats /\ e.capabilities \subseteq ever[e.seat]
    /\ e.type = "keymap" => KeyboardSeen

SeatsTyped ==
    /\ events \in Seq(Event)
    /\ bound \subseteq Global
    /\ ever \in [Seats -> SUBSET Capability]
    /\ seated \subseteq bound \cap Seats

\* The seat that is kept is a bound one, and there is one if any is bound.
OneSeatKept ==
    /\ wl_seat # None => wl_seat \in bound \cap Seats
    /\ bound \cap Seats # {} => wl_seat # None

RequestsSound == \A i \in DOMAIN requests : RequestSound(requests[i])

EventsSound == \A i \in DOMAIN events : EventSound(events[i])

EndsExplained ==
    /\ perror = "capability" => SeveralSeats
    /\ pc = "no keymap" => KeyboardSeen

DeviceInv ==
    /\ SeatsTyped
    /\ OneSeatKept
    /\ RequestsSound
    /\ EventsSound
    /\ EndsExplained

StartInv == OrderInv /\ DeviceInv

-----------------------------------------------------------------------------
(* Lemmas about the order *)

\* What there is in the queue after requests are sent.
LEMMA Sent ==
    ASSUME OrderInv, NEW rs \in Seq(Request), Send(rs)
    PROVE  /\ requests' \in Seq(Request)
           /\ perror # "none" => requests' = <<>>
           /\ \A i \in DOMAIN requests : i \in DOMAIN requests' /\ requests'[i] = requests[i]
           /\ \A i \in DOMAIN requests' :
                  \/ i \in DOMAIN requests
                  \/ i > Len(requests) /\ \E j \in DOMAIN rs : requests'[i] = rs[j]
<1>1. requests \in Seq(Request) /\ (perror # "none" => requests = <<>>)
  BY DEF OrderInv, RequestsTyped, KilledIsSilent
<1>2. CASE perror # "none"
  BY <1>1, <1>2 DEF Send
<1>3. CASE perror = "none"
  <2>1. requests' = requests \o rs
    BY <1>3 DEF Send
  <2>2. /\ requests' \in Seq(Request) /\ Len(requests') = Len(requests) + Len(rs)
        /\ \A i \in 1..Len(requests') :
               requests'[i] = IF i <= Len(requests) THEN requests[i] ELSE rs[i - Len(requests)]
    BY <1>1, <2>1, ConcatProperties
  <2>3. ASSUME NEW i \in DOMAIN requests', i \notin DOMAIN requests
        PROVE  i > Len(requests) /\ \E j \in DOMAIN rs : requests'[i] = rs[j]
    <3>1. /\ i \in Nat /\ i > Len(requests) /\ i - Len(requests) \in 1..Len(rs)
      BY <1>1, <2>2, <2>3
    <3>2. requests'[i] = rs[i - Len(requests)] /\ i - Len(requests) \in DOMAIN rs
      BY <1>1, <2>2, <3>1
    <3> QED BY <3>1, <3>2
  <2>4. \A i \in DOMAIN requests : i \in DOMAIN requests' /\ requests'[i] = requests[i]
    BY <1>1, <2>2
  <2> QED BY <1>3, <2>2, <2>3, <2>4
<1> QED BY <1>2, <1>3

LEMMA WalkKeepsOrder ==
    ASSUME OrderInv, UNCHANGED <<late_bind, requests, perror, session>>, InLoop => InLoop'
    PROVE  OrderInv'
BY DEF OrderInv, RequestsTyped, KilledIsSilent, LockIsAskedInLoop, BoundBehindLock,
       BoundInLockedSession

\* Before the loop there is no lock request; in the loop every bind is a late
\* one.
LEMMA SendKeepsOrder ==
    ASSUME OrderInv, NEW rs \in Seq(Request), Send(rs),
           UNCHANGED <<perror, session>>, InLoop => InLoop',
           \A j \in DOMAIN rs : rs[j].type # "lock",
           \A j \in DOMAIN rs : rs[j].type = "bind" /\ InLoop => late_bind',
           InLoop /\ late_bind => late_bind'
    PROVE  OrderInv'
<1>1. /\ requests' \in Seq(Request)
      /\ perror # "none" => requests' = <<>>
      /\ \A i \in DOMAIN requests' :
             \/ i \in DOMAIN requests /\ requests'[i] = requests[i]
             \/ i > Len(requests) /\ \E j \in DOMAIN rs : requests'[i] = rs[j]
  BY Sent
<1>2. RequestsTyped' /\ KilledIsSilent'
  BY <1>1 DEF OrderInv, RequestsTyped, KilledIsSilent
<1>3. \A i \in DOMAIN requests' : requests'[i].type = "lock" =>
          i \in DOMAIN requests /\ requests[i].type = "lock"
  BY <1>1
<1>4. \A i \in DOMAIN requests' : requests'[i].type = "bind" /\ InLoop =>
          late_bind' \/ (i \in DOMAIN requests /\ requests[i].type = "bind")
  BY <1>1
<1>5. LockIsAskedInLoop'
  BY <1>3 DEF OrderInv, LockIsAskedInLoop
<1>6. BoundBehindLock'
  <2> SUFFICES ASSUME NEW i \in DOMAIN requests', NEW j \in DOMAIN requests', i < j,
                      requests'[i].type = "lock", requests'[j].type = "bind"
               PROVE  late_bind'
    BY DEF BoundBehindLock
  <2>1. i \in DOMAIN requests /\ requests[i].type = "lock" /\ InLoop
    BY <1>3 DEF OrderInv, LockIsAskedInLoop
  <2> QED BY <1>4, <2>1 DEF OrderInv, BoundBehindLock
<1>7. BoundInLockedSession'
  <2> SUFFICES ASSUME session = "locked"
               PROVE  /\ \A i \in DOMAIN requests' : requests'[i].type = "bind" => late_bind'
                      /\ perror = "version" => late_bind'
    BY DEF BoundInLockedSession
  <2>1. InLoop
    BY DEF OrderInv, LockIsAskedInLoop
  <2> QED BY <1>4, <2>1 DEF OrderInv, BoundInLockedSession
<1> QED BY <1>2, <1>5, <1>6, <1>7 DEF OrderInv

\* The compositor takes the first request, or refuses it and ends the
\* connection.
LEMMA ServeKeepsOrder ==
    ASSUME OrderInv, requests # <<>>, perror = "none", UNCHANGED <<pc, late_bind>>,
           \/ /\ requests' = Tail(requests) /\ UNCHANGED perror
              /\ session' = session \/ (requests[1].type = "lock" /\ session' = "locked")
              /\ requests[1].type = "lock" => session' = "locked"
           \/ /\ requests' = <<>> /\ UNCHANGED session
              /\ perror' \in {"version", "capability"}
              /\ perror' = "version" => requests[1].type = "bind"
    PROVE  OrderInv'
<1>1. /\ requests \in Seq(Request) /\ 1 \in DOMAIN requests
      /\ InLoop' <=> InLoop
  BY DEF OrderInv, RequestsTyped, InLoop
<1>2. CASE requests' = Tail(requests) /\ UNCHANGED perror
  <2>1. /\ requests' \in Seq(Request)
        /\ \A i \in DOMAIN requests' :
               /\ i \in Nat /\ i + 1 \in DOMAIN requests /\ 1 < i + 1
               /\ requests'[i] = requests[i + 1]
    BY <1>1, <1>2
  <2>2. /\ session' = session \/ (requests[1].type = "lock" /\ session' = "locked")
        /\ session' \in {"open", "locked"}
    BY <1>2 DEF OrderInv, RequestsTyped
  <2>3. RequestsTyped' /\ KilledIsSilent'
    BY <1>2, <2>1, <2>2 DEF OrderInv, RequestsTyped, KilledIsSilent
  <2>4. LockIsAskedInLoop'
    BY <1>1, <2>1, <2>2 DEF OrderInv, LockIsAskedInLoop
  <2>5. BoundBehindLock'
    <3> SUFFICES ASSUME NEW i \in DOMAIN requests', NEW j \in DOMAIN requests', i < j,
                        requests'[i].type = "lock", requests'[j].type = "bind"
                 PROVE  late_bind'
      BY DEF BoundBehindLock
    <3>1. i + 1 < j + 1
      BY <2>1
    <3> QED BY <2>1, <3>1 DEF OrderInv, BoundBehindLock
  <2>6. BoundInLockedSession'
    <3> SUFFICES ASSUME session' = "locked"
                 PROVE  /\ \A i \in DOMAIN requests' : requests'[i].type = "bind" => late_bind
                        /\ perror # "version"
      BY <1>2 DEF BoundInLockedSession
    <3>1. CASE session = "locked"
      BY <2>1, <3>1 DEF OrderInv, BoundInLockedSession
    <3>2. CASE requests[1].type = "lock"
      BY <1>1, <2>1, <3>2 DEF OrderInv, BoundBehindLock
    <3> QED BY <2>2, <3>1, <3>2
  <2> QED BY <2>3, <2>4, <2>5, <2>6 DEF OrderInv
<1>3. CASE requests' = <<>> /\ UNCHANGED session /\ perror' \in {"version", "capability"}
  <2>1. requests' \in Seq(Request) /\ DOMAIN requests' = {}
    BY <1>3
  <2>2. perror' = "version" => requests[1].type = "bind"
    BY <1>1, <1>3
  <2>3. session = "locked" /\ perror' = "version" => late_bind
    BY <1>1, <2>2 DEF OrderInv, BoundInLockedSession
  <2> QED
    BY <1>1, <1>3, <2>1, <2>3
    DEF OrderInv, RequestsTyped, KilledIsSilent, LockIsAskedInLoop, BoundBehindLock,
        BoundInLockedSession
<1> QED BY <1>2, <1>3

-----------------------------------------------------------------------------
(* Lemmas about the devices *)

\* What is sound stays so while there are more seats and more is told of them.
LEMMA MoreIsStillSound ==
    ASSUME DeviceInv, bound \subseteq bound', \A s \in Seats : ever[s] \subseteq ever'[s]
    PROVE  /\ \A r \in Request : RequestSound(r) => RequestSound(r)'
           /\ \A e \in Event : EventSound(e) => EventSound(e)'
           /\ SeveralSeats => SeveralSeats'
           /\ KeyboardSeen => KeyboardSeen'
<1>1. (SeveralSeats => SeveralSeats') /\ (KeyboardSeen => KeyboardSeen')
  BY DEF SeveralSeats, KeyboardSeen
<1>2. \A r \in Request : RequestSound(r) => RequestSound(r)'
  BY <1>1 DEF RequestSound
<1>3. \A e \in Event : EventSound(e) => EventSound(e)'
  BY <1>1 DEF EventSound
<1> QED BY <1>1, <1>2, <1>3

\* One queue at a time: the requests are sound after sound ones are sent, ...
LEMMA SendKeepsSound ==
    ASSUME OrderInv, DeviceInv, NEW rs \in Seq(Request), Send(rs),
           bound \subseteq bound', UNCHANGED ever,
           \A r \in Request : (\E j \in DOMAIN rs : rs[j] = r) => RequestSound(r)'
    PROVE  RequestsSound'
<1>1. \A i \in DOMAIN requests' :
          \/ i \in DOMAIN requests /\ requests'[i] = requests[i]
          \/ \E j \in DOMAIN rs : requests'[i] = rs[j]
  BY Sent
<1>2. \A i \in DOMAIN requests : requests[i] \in Request
  BY DEF OrderInv, RequestsTyped
<1>3. \A r \in Request : RequestSound(r) => RequestSound(r)'
  BY MoreIsStillSound
<1>4. \A i \in DOMAIN requests : RequestSound(requests[i])
  BY DEF DeviceInv, RequestsSound
<1>5. \A j \in DOMAIN rs : rs[j] \in Request
  OBVIOUS
<1>6. ASSUME NEW i \in DOMAIN requests'
      PROVE  RequestSound(requests[i])'
  BY <1>1, <1>2, <1>3, <1>4, <1>5, <1>6 DEF RequestSound
<1> QED BY <1>6 DEF RequestsSound

\* ... and after one is served or all are dropped; ...
LEMMA ServeKeepsSound ==
    ASSUME OrderInv, DeviceInv, requests # <<>>, UNCHANGED bound,
           \A s \in Seats : ever[s] \subseteq ever'[s],
           requests' = Tail(requests) \/ requests' = <<>>
    PROVE  RequestsSound'
<1>1. \A i \in DOMAIN requests' : i + 1 \in DOMAIN requests /\ requests'[i] = requests[i + 1]
  BY DEF OrderInv, RequestsTyped
<1>2. \A i \in DOMAIN requests : requests[i] \in Request
  BY DEF OrderInv, RequestsTyped
<1>3. \A r \in Request : RequestSound(r) => RequestSound(r)'
  BY MoreIsStillSound
<1>4. \A i \in DOMAIN requests : RequestSound(requests[i])
  BY DEF DeviceInv, RequestsSound
<1>5. ASSUME NEW i \in DOMAIN requests'
      PROVE  RequestSound(requests[i])'
  BY <1>1, <1>2, <1>3, <1>4, <1>5 DEF RequestSound
<1> QED BY <1>5 DEF RequestsSound

\* ... the events after a sound one is told, ...
LEMMA TellKeepsSound ==
    ASSUME DeviceInv, UNCHANGED bound, \A s \in Seats : ever[s] \subseteq ever'[s],
           NEW e \in Event, events' = Append(events, e), EventSound(e)'
    PROVE  events' \in Seq(Event) /\ EventsSound'
<1>1. /\ events \in Seq(Event)
      /\ \A i \in DOMAIN events : events[i] \in Event /\ EventSound(events[i])
  BY DEF DeviceInv, SeatsTyped, EventsSound
<1>2. /\ events' \in Seq(Event)
      /\ \A i \in DOMAIN events' : (i \in DOMAIN events /\ events'[i] = events[i]) \/ events'[i] = e
  BY <1>1
<1>3. \A d \in Event : EventSound(d) => EventSound(d)'
  BY MoreIsStillSound
<1>4. ASSUME NEW i \in DOMAIN events'
      PROVE  EventSound(events[i])'
  BY <1>1, <1>2, <1>3, <1>4 DEF EventSound
<1> QED BY <1>2, <1>4 DEF EventsSound

\* ... and after one is read or all are dropped.
LEMMA ReceiveKeepsSound ==
    ASSUME DeviceInv, events # <<>>, bound \subseteq bound', UNCHANGED ever,
           events' = events \/ events' = Tail(events) \/ events' = <<>>
    PROVE  events' \in Seq(Event) /\ EventsSound'
<1>1. /\ events \in Seq(Event)
      /\ \A i \in DOMAIN events : events[i] \in Event /\ EventSound(events[i])
  BY DEF DeviceInv, SeatsTyped, EventsSound
<1>2. \A i \in DOMAIN events' :
          \/ i \in DOMAIN events /\ events'[i] = events[i]
          \/ i + 1 \in DOMAIN events /\ events'[i] = events[i + 1]
  BY <1>1
<1>3. \A e \in Event : EventSound(e) => EventSound(e)'
  BY MoreIsStillSound
<1>4. ASSUME NEW i \in DOMAIN events'
      PROVE  EventSound(events[i])'
  BY <1>1, <1>2, <1>3, <1>4 DEF EventSound
<1>5. events' \in Seq(Event)
  <2>1. Tail(events) \in Seq(Event)
    BY <1>1
  <2>2. << >> \in Seq(Event)
    OBVIOUS
  <2> QED BY <1>1, <2>1, <2>2
<1> QED BY <1>4, <1>5 DEF EventsSound

-----------------------------------------------------------------------------
(* The steps *)

LEMMA StartInvInit == StartInit => StartInv
<1> SUFFICES ASSUME StartInit
             PROVE  StartInv
  OBVIOUS
<1>1. /\ requests = <<>> /\ requests \in Seq(Request) /\ DOMAIN requests = {}
      /\ events = <<>> /\ events \in Seq(Event) /\ DOMAIN events = {}
  BY DEF StartInit
<1>2. OrderInv
  BY <1>1 DEF StartInit, OrderInv, RequestsTyped, KilledIsSilent, LockIsAskedInLoop,
              BoundBehindLock, BoundInLockedSession
<1>3. DeviceInv
  BY <1>1 DEF StartInit, DeviceInv, SeatsTyped, OneSeatKept, RequestsSound, EventsSound,
              EndsExplained
<1> QED BY <1>2, <1>3 DEF StartInv

\* A step of main() that sends nothing and does not leave the loop.
LEMMA WalkKeepsInv ==
    ASSUME StartInv, UNCHANGED <<globalVars, requests, events, compVars>>,
           InLoop => InLoop', pc' = "no keymap" => pc = "no keymap"
    PROVE  StartInv'
<1>1. OrderInv'
  BY WalkKeepsOrder DEF StartInv, globalVars, compVars
<1>2. DeviceInv'
  BY DEF StartInv, globalVars, compVars, DeviceInv, SeatsTyped, OneSeatKept, RequestsSound,
         RequestSound, EventsSound, EventSound, EndsExplained, SeveralSeats, KeyboardSeen
<1> QED BY <1>1, <1>2 DEF StartInv

LEMMA HandleGlobalKeepsInv ==
    ASSUME StartInv, NEW g \in Global, HandleGlobal(g)
    PROVE  StartInv'
<1> DEFINE rs == <<Bind(g)>>
<1>1. /\ OrderInv /\ DeviceInv
      /\ pc \in {"registry", "loop"} /\ late_bind' = (pc = "loop")
      /\ bound' = bound \cup {g} /\ wl_seat' = IF g \in Seats THEN g ELSE wl_seat
      /\ Send(rs)
      /\ UNCHANGED <<pc, events, seated, ever, perror, session>>
  BY DEF StartInv, HandleGlobal, ToldOf, Dispatching, mainVars, compVars
<1>2. /\ rs \in Seq(Request)
      /\ \A j \in DOMAIN rs : rs[j] = [type |-> "bind", global |-> g]
  BY DEF Request, Bind
<1> HIDE DEF rs
<1>3. OrderInv'
  <2>1. (InLoop => InLoop') /\ (InLoop => late_bind')
    BY <1>1 DEF InLoop
  <2>2. \A j \in DOMAIN rs : rs[j].type = "bind"
    BY <1>2
  <2> QED BY <1>1, <1>2, <2>1, <2>2, SendKeepsOrder
<1>4. RequestsSound'
  <2>1. \A r \in Request : (\E j \in DOMAIN rs : rs[j] = r) => RequestSound(r)'
    BY <1>1, <1>2 DEF RequestSound
  <2> QED BY <1>1, <1>2, <2>1, SendKeepsSound
<1>5. /\ \A e \in Event : EventSound(e) => EventSound(e)'
      /\ SeveralSeats => SeveralSeats'
      /\ KeyboardSeen => KeyboardSeen'
  BY <1>1, MoreIsStillSound
<1>6. SeatsTyped' /\ OneSeatKept'
  BY <1>1, GlobalAssumption DEF DeviceInv, SeatsTyped, OneSeatKept
<1>7. EventsSound'
  BY <1>1, <1>5 DEF DeviceInv, SeatsTyped, EventsSound, EventSound
<1>8. EndsExplained'
  BY <1>1, <1>5 DEF DeviceInv, EndsExplained
<1> QED BY <1>3, <1>4, <1>6, <1>7, <1>8 DEF StartInv, DeviceInv

LEMMA HandleCapabilitiesKeepsInv ==
    ASSUME StartInv, HandleCapabilities
    PROVE  StartInv'
<1> DEFINE e == Head(events)
           rs == Ask("pointer", "pointer" \in e.capabilities)
                     \o Ask("keyboard", "keyboard" \in e.capabilities)
<1>1. /\ OrderInv /\ DeviceInv
      /\ events # <<>> /\ e.type = "capabilities" /\ events' = Tail(events)
      /\ Send(rs)
      /\ UNCHANGED <<pc, bound, late_bind, wl_seat, seated, ever, perror, session>>
  BY DEF StartInv, HandleCapabilities, Receive, globalVars, compVars
<1>2. /\ e \in Event /\ EventSound(e)
  BY <1>1 DEF DeviceInv, SeatsTyped, EventsSound
<1>3. /\ e.seat \in bound \cap Seats
      /\ wl_seat \in bound \cap Seats
      /\ SeveralSeats \/ wl_seat = e.seat
      /\ e.capabilities \subseteq ever[e.seat]
  BY <1>1, <1>2 DEF EventSound, DeviceInv, OneSeatKept, SeveralSeats
<1>4. /\ rs \in Seq(Request)
      /\ \A j \in DOMAIN rs : \E c \in Capability :
             rs[j] = [type |-> "get", global |-> wl_seat, capability |-> c]
                 /\ c \in e.capabilities
  <2>1. ASSUME NEW c \in Capability
        PROVE  /\ \/ Ask(c, c \in e.capabilities) = << >>
                  \/ Ask(c, c \in e.capabilities) = << Get(c) >> /\ c \in e.capabilities
               /\ Ask(c, c \in e.capabilities) \in Seq(Request)
    <3>1. Get(c) \in Request
      BY <1>3, <2>1 DEF Get, Request
    <3>2. << Get(c) >> \in Seq(Request) /\ << >> \in Seq(Request)
      BY <3>1
    <3> QED BY <3>2 DEF Ask
  <2>2. "pointer" \in Capability /\ "keyboard" \in Capability
    BY DEF Capability
  <2> DEFINE p == Ask("pointer", "pointer" \in e.capabilities)
             k == Ask("keyboard", "keyboard" \in e.capabilities)
  <2>3. /\ p = <<>> \/ (p = << Get("pointer") >> /\ "pointer" \in e.capabilities)
        /\ k = <<>> \/ (k = << Get("keyboard") >> /\ "keyboard" \in e.capabilities)
        /\ p \in Seq(Request) /\ k \in Seq(Request)
    BY <2>1, <2>2
  <2> HIDE DEF p, k
  <2>4. /\ p \o k \in Seq(Request)
        /\ \A j \in DOMAIN (p \o k) :
               \/ (p \o k)[j] = Get("pointer") /\ "pointer" \in e.capabilities
               \/ (p \o k)[j] = Get("keyboard") /\ "keyboard" \in e.capabilities
    BY <2>3
  <2> QED BY <2>2, <2>4 DEF Get, p, k
<1> HIDE DEF rs, e
<1>5. OrderInv'
  <2>1. InLoop => InLoop'
    BY <1>1 DEF InLoop
  <2>2. \A j \in DOMAIN rs : rs[j].type = "get"
    BY <1>4
  <2> QED BY <1>1, <1>4, <2>1, <2>2, SendKeepsOrder
<1>6. RequestsSound'
  <2>1. \A r \in Request : (\E j \in DOMAIN rs : rs[j] = r) => RequestSound(r)'
    <3>1. SeveralSeats' <=> SeveralSeats
      BY <1>1 DEF SeveralSeats
    <3> QED BY <1>1, <1>3, <1>4, <3>1 DEF RequestSound
  <2> QED BY <1>1, <1>4, <2>1, SendKeepsSound
<1>7. events' \in Seq(Event) /\ EventsSound'
  BY <1>1, ReceiveKeepsSound
<1>8. SeatsTyped' /\ OneSeatKept' /\ EndsExplained'
  BY <1>1, <1>7
  DEF DeviceInv, SeatsTyped, OneSeatKept, EndsExplained, SeveralSeats, KeyboardSeen
<1> QED BY <1>5, <1>6, <1>7, <1>8 DEF StartInv, DeviceInv

LEMMA HandleKeymapKeepsInv ==
    ASSUME StartInv, HandleKeymap
    PROVE  StartInv'
<1>1. /\ OrderInv /\ DeviceInv
      /\ events # <<>> /\ Head(events).type = "keymap" /\ events' = Tail(events)
      /\ pc \in {"registry", "loop"} /\ pc' \in {pc, "no keymap"}
      /\ UNCHANGED <<requests, bound, late_bind, wl_seat, seated, ever, perror, session>>
  BY DEF StartInv, HandleKeymap, Receive, Dispatching, globalVars, compVars
<1>2. KeyboardSeen
  <2>1. events \in Seq(Event) /\ events # <<>>
    BY <1>1 DEF DeviceInv, SeatsTyped
  <2>2. Head(events) = events[1] /\ 1 \in DOMAIN events
    BY <2>1
  <2>3. EventSound(events[1])
    BY <1>1, <2>2 DEF DeviceInv, EventsSound
  <2> QED BY <1>1, <2>2, <2>3 DEF EventSound
<1>3. OrderInv'
  BY <1>1, WalkKeepsOrder DEF InLoop
<1>4. events' \in Seq(Event) /\ EventsSound'
  BY <1>1, ReceiveKeepsSound
<1>5. RequestsSound'
  BY <1>1 DEF DeviceInv, RequestsSound, RequestSound, SeveralSeats
<1>6. SeatsTyped' /\ OneSeatKept' /\ EndsExplained'
  BY <1>1, <1>2, <1>4
  DEF DeviceInv, SeatsTyped, OneSeatKept, EndsExplained, SeveralSeats, KeyboardSeen
<1> QED BY <1>3, <1>4, <1>5, <1>6 DEF StartInv, DeviceInv

LEMMA EnterKeepsInv ==
    ASSUME StartInv, Enter
    PROVE  StartInv'
<1>1. /\ OrderInv /\ DeviceInv /\ pc = "ready"
      /\ UNCHANGED <<globalVars, events, compVars>>
  BY DEF StartInv, Enter, Walk
<1>2. /\ \A i \in DOMAIN requests : requests[i].type # "lock"
      /\ session # "locked"
  BY <1>1 DEF OrderInv, LockIsAskedInLoop, InLoop
<1>3. CASE UNCHANGED requests /\ pc' \in {"loop", "exit 1"}
  BY <1>1, <1>3, WalkKeepsInv DEF InLoop
<1>4. ASSUME Send(<<Lock>>), pc' = "loop"
      PROVE  StartInv'
  <2> DEFINE rs == <<Lock>>
  <2>1. rs \in Seq(Request) /\ \A j \in DOMAIN rs : rs[j] = Lock
    BY GlobalAssumption DEF Request, Lock
  <2>2. Send(rs)
    BY <1>4
  <2>3. Lock.type = "lock"
    BY DEF Lock
  <2>4. InLoop'
    BY <1>4 DEF InLoop
  <2> HIDE DEF rs
  <2>5. /\ requests' \in Seq(Request)
        /\ perror # "none" => requests' = <<>>
        /\ \A i \in DOMAIN requests' :
               \/ i \in DOMAIN requests /\ requests'[i] = requests[i]
               \/ i > Len(requests) /\ \E j \in DOMAIN rs : requests'[i] = rs[j]
    BY <1>1, <2>1, <2>2, Sent
  <2>6. \A i \in DOMAIN requests' : requests'[i].type = "bind" =>
            i \in DOMAIN requests /\ i <= Len(requests)
    BY <1>1, <2>1, <2>3, <2>5 DEF OrderInv, RequestsTyped
  <2>7. \A i \in DOMAIN requests' : requests'[i].type = "lock" => i > Len(requests)
    BY <1>2, <2>5
  <2>8. BoundBehindLock'
    <3> SUFFICES ASSUME NEW i \in DOMAIN requests', NEW j \in DOMAIN requests', i < j,
                        requests'[i].type = "lock"
                 PROVE  requests'[j].type # "bind"
      BY DEF BoundBehindLock
    <3>1. Len(requests) \in Nat /\ i \in Nat /\ j \in Nat
      BY <1>1, <2>5 DEF OrderInv, RequestsTyped
    <3> QED BY <2>6, <2>7, <3>1
  <2>9. OrderInv'
    BY <1>1, <1>2, <2>4, <2>5, <2>8
    DEF OrderInv, RequestsTyped, KilledIsSilent, LockIsAskedInLoop, BoundInLockedSession,
        compVars
  <2>10. RequestsSound'
    <3>1. \A r \in Request : (\E j \in DOMAIN rs : rs[j] = r) => RequestSound(r)'
      BY <2>1, <2>3 DEF RequestSound
    <3> QED BY <1>1, <2>1, <2>2, <3>1, SendKeepsSound DEF globalVars, compVars
  <2>11. SeatsTyped' /\ OneSeatKept' /\ EventsSound' /\ EndsExplained'
    BY <1>1, <1>4
    DEF globalVars, compVars, DeviceInv, SeatsTyped, OneSeatKept, EventsSound, EventSound,
        EndsExplained, SeveralSeats, KeyboardSeen
  <2> QED BY <2>9, <2>10, <2>11 DEF StartInv, DeviceInv
<1> QED BY <1>3, <1>4 DEF Enter, GoTo

LEMMA LoopEndsKeepsInv ==
    ASSUME StartInv, LoopEnds
    PROVE  StartInv'
<1>1. /\ OrderInv /\ DeviceInv
      /\ pc' = "over" /\ events' = <<>>
      /\ UNCHANGED <<requests, bound, late_bind, wl_seat, seated, ever, perror, session>>
  BY DEF StartInv, LoopEnds, GoTo, globalVars, compVars
<1>2. OrderInv'
  BY <1>1, WalkKeepsOrder DEF InLoop
<1>3. events' \in Seq(Event) /\ DOMAIN events' = {}
  BY <1>1
<1>4. RequestsSound' /\ EventsSound'
  BY <1>1, <1>3 DEF DeviceInv, RequestsSound, RequestSound, SeveralSeats, EventsSound
<1>5. SeatsTyped' /\ OneSeatKept' /\ EndsExplained'
  BY <1>1, <1>3
  DEF DeviceInv, SeatsTyped, OneSeatKept, EndsExplained, SeveralSeats, KeyboardSeen
<1> QED BY <1>2, <1>4, <1>5 DEF StartInv, DeviceInv

\* A seat tells of its capabilities.
LEMMA TellKeepsInv ==
    ASSUME DeviceInv, UNCHANGED bound, NEW s \in bound \cap Seats,
           NEW caps \in SUBSET Capability, Tell(s, caps)
    PROVE  /\ events' \in Seq(Event) /\ EventsSound'
           /\ ever' \in [Seats -> SUBSET Capability]
           /\ \A t \in Seats : ever[t] \subseteq ever'[t]
<1>1. /\ ever' \in [Seats -> SUBSET Capability] /\ caps \subseteq ever'[s]
      /\ \A t \in Seats : ever[t] \subseteq ever'[t]
  BY DEF Tell, DeviceInv, SeatsTyped
<1> DEFINE e == [type |-> "capabilities", seat |-> s, capabilities |-> caps]
<1>2. /\ e \in Event /\ e.type = "capabilities" /\ e.seat = s /\ e.capabilities = caps
      /\ events' = Append(events, e)
  BY DEF Event, Tell
<1> HIDE DEF e
<1>3. \A d \in Event : d = e => EventSound(d)'
  BY <1>1, <1>2 DEF EventSound
<1>4. events' \in Seq(Event) /\ EventsSound'
  BY <1>1, <1>2, <1>3, TellKeepsSound
<1> QED BY <1>1, <1>4

LEMMA ServeBindKeepsInv ==
    ASSUME StartInv, ServeBind
    PROVE  StartInv'
<1> DEFINE g == requests[1].global
<1>1. /\ OrderInv /\ DeviceInv
      /\ requests # <<>> /\ perror = "none" /\ requests[1].type = "bind"
      /\ Head(requests) = requests[1] /\ requests[1] \in Request
      /\ RequestSound(requests[1])
      /\ UNCHANGED <<pc, bound, late_bind, wl_seat, session>>
  BY DEF StartInv, ServeBind, Serve, Refuse, mainVars, globalVars, OrderInv, RequestsTyped,
         DeviceInv, RequestsSound
<1>2. \/ requests' = <<>> /\ perror' = "version" /\ UNCHANGED <<events, seated, ever>>
      \/ /\ requests' = Tail(requests) /\ UNCHANGED perror
         /\ \/ /\ g \in Seats /\ seated' = seated \cup {g}
               /\ \E caps \in SUBSET Capability : Tell(g, caps)
            \/ UNCHANGED <<events, seated, ever>>
  BY <1>1 DEF ServeBind, Refuse
<1>3. g \in bound
  BY <1>1 DEF RequestSound
<1> HIDE DEF g
<1>4. OrderInv'
  BY <1>1, <1>2, ServeKeepsOrder
<1>5. /\ events' \in Seq(Event) /\ EventsSound'
      /\ ever' \in [Seats -> SUBSET Capability]
      /\ \A t \in Seats : ever[t] \subseteq ever'[t]
      /\ seated' \subseteq bound \cap Seats
  <2>1. CASE UNCHANGED <<events, seated, ever>>
    BY <1>1, <2>1
    DEF DeviceInv, SeatsTyped, EventsSound, EventSound, KeyboardSeen
  <2>2. CASE g \in Seats /\ seated' = seated \cup {g}
             /\ \E caps \in SUBSET Capability : Tell(g, caps)
    <3>1. seated' \subseteq bound \cap Seats
      BY <1>1, <1>3, <2>2 DEF DeviceInv, SeatsTyped
    <3>2. g \in bound \cap Seats
      BY <1>3, <2>2
    <3> QED BY <1>1, <2>2, <3>1, <3>2, TellKeepsInv
  <2> QED BY <1>2, <2>1, <2>2
<1>6. RequestsSound'
  BY <1>1, <1>2, <1>5, ServeKeepsSound
<1>7. SeatsTyped' /\ OneSeatKept' /\ EndsExplained'
  BY <1>1, <1>2, <1>5
  DEF DeviceInv, SeatsTyped, OneSeatKept, EndsExplained, SeveralSeats, KeyboardSeen
<1> QED BY <1>4, <1>5, <1>6, <1>7 DEF StartInv, DeviceInv

LEMMA ServeLockKeepsInv ==
    ASSUME StartInv, ServeLock
    PROVE  StartInv'
<1>1. /\ OrderInv /\ DeviceInv
      /\ requests # <<>> /\ perror = "none" /\ requests[1].type = "lock"
      /\ requests' = Tail(requests) /\ session' = "locked"
      /\ UNCHANGED <<pc, bound, late_bind, wl_seat, events, seated, ever, perror>>
  BY DEF StartInv, ServeLock, Serve, mainVars, globalVars, OrderInv, RequestsTyped
<1>2. OrderInv'
  BY <1>1, ServeKeepsOrder
<1>3. RequestsSound'
  BY <1>1, ServeKeepsSound
<1>4. SeatsTyped' /\ OneSeatKept' /\ EventsSound' /\ EndsExplained'
  BY <1>1
  DEF DeviceInv, SeatsTyped, OneSeatKept, EventsSound, EventSound, EndsExplained,
      SeveralSeats, KeyboardSeen
<1> QED BY <1>2, <1>3, <1>4 DEF StartInv, DeviceInv

LEMMA ServeGetKeepsInv ==
    ASSUME StartInv, ServeGet
    PROVE  StartInv'
<1> DEFINE r == requests[1]
<1>1. /\ OrderInv /\ DeviceInv
      /\ requests # <<>> /\ perror = "none" /\ r.type = "get"
      /\ Head(requests) = r
      /\ RequestSound(r)
      /\ UNCHANGED <<pc, bound, late_bind, wl_seat, seated, ever, session>>
  BY DEF StartInv, ServeGet, Serve, Refuse, mainVars, globalVars, OrderInv, RequestsTyped,
         DeviceInv, RequestsSound
<1>2. \/ /\ r.capability \notin ever[r.global]
         /\ requests' = <<>> /\ perror' = "capability" /\ UNCHANGED events
      \/ /\ r.capability \in ever[r.global] /\ requests' = Tail(requests)
         /\ UNCHANGED perror
         /\ \/ UNCHANGED events
            \/ /\ r.capability = "keyboard"
               /\ \E fit \in BOOLEAN : events' = Append(events, [type |-> "keymap", fit |-> fit])
  BY <1>1 DEF ServeGet, Refuse
<1>3. r.global \in Seats /\ (SeveralSeats \/ r.capability \in ever[r.global])
  BY <1>1 DEF RequestSound
<1>4. OrderInv'
  BY <1>1, <1>2, ServeKeepsOrder
<1>5. RequestsSound'
  BY <1>1, <1>2, ServeKeepsSound
<1> HIDE DEF r
<1>6. events' \in Seq(Event) /\ EventsSound'
  <2>1. CASE UNCHANGED events
    BY <1>1, <2>1 DEF DeviceInv, SeatsTyped, EventsSound, EventSound, KeyboardSeen
  <2>2. ASSUME r.capability \in ever[r.global], r.capability = "keyboard", NEW fit \in BOOLEAN,
               events' = Append(events, [type |-> "keymap", fit |-> fit])
        PROVE  events' \in Seq(Event) /\ EventsSound'
    <3> DEFINE e == [type |-> "keymap", fit |-> fit]
    <3>1. e \in Event /\ e.type = "keymap" /\ events' = Append(events, e)
      BY <2>2 DEF Event
    <3> HIDE DEF e
    <3>2. KeyboardSeen'
      BY <1>1, <1>3, <2>2 DEF KeyboardSeen
    <3>3. \A d \in Event : d = e => EventSound(d)'
      BY <3>1, <3>2 DEF EventSound
    <3> QED BY <1>1, <3>1, <3>3, TellKeepsSound
  <2> QED BY <1>2, <2>1, <2>2
<1>7. SeatsTyped' /\ OneSeatKept' /\ EndsExplained'
  BY <1>1, <1>2, <1>3, <1>6
  DEF DeviceInv, SeatsTyped, OneSeatKept, EndsExplained, SeveralSeats, KeyboardSeen
<1> QED BY <1>4, <1>5, <1>6, <1>7 DEF StartInv, DeviceInv

LEMMA ChangeCapabilitiesKeepsInv ==
    ASSUME StartInv, NEW s \in Seats, NEW caps \in SUBSET Capability,
           ChangeCapabilities(s, caps)
    PROVE  StartInv'
<1>1. /\ OrderInv /\ DeviceInv /\ s \in seated /\ Tell(s, caps)
      /\ UNCHANGED <<pc, requests, bound, late_bind, wl_seat, seated, perror, session>>
  BY DEF StartInv, ChangeCapabilities, mainVars, globalVars
<1>2. OrderInv'
  BY <1>1, WalkKeepsOrder DEF InLoop
<1>3. s \in bound \cap Seats
  BY <1>1 DEF DeviceInv, SeatsTyped
<1>4. /\ events' \in Seq(Event) /\ EventsSound'
      /\ ever' \in [Seats -> SUBSET Capability]
      /\ \A t \in Seats : ever[t] \subseteq ever'[t]
  BY <1>1, <1>3, TellKeepsInv
<1>5. RequestsSound'
  BY <1>1, <1>4 DEF DeviceInv, RequestsSound, RequestSound, SeveralSeats
<1>6. SeatsTyped' /\ OneSeatKept' /\ EndsExplained'
  BY <1>1, <1>4
  DEF DeviceInv, SeatsTyped, OneSeatKept, EndsExplained, SeveralSeats, KeyboardSeen
<1> QED BY <1>2, <1>4, <1>5, <1>6 DEF StartInv, DeviceInv

LEMMA StartInvNext ==
    ASSUME StartInv, [StartNext]_startVars
    PROVE  StartInv'
<1>1. CASE Connect \/ ConnectFails \/ RegistryRead \/ CreateSurface \/ LoadGl
  <2>1. UNCHANGED <<globalVars, requests, events, compVars>> /\ ~InLoop
        /\ pc' # "no keymap"
    BY <1>1 DEF Connect, ConnectFails, RegistryRead, CreateSurface, LoadGl, GoTo, Walk, InLoop
  <2> QED BY <2>1, WalkKeepsInv
<1>2. ASSUME NEW g \in Global, HandleGlobal(g) PROVE StartInv'
  BY <1>2, HandleGlobalKeepsInv
<1>3. ASSUME NEW s \in Seats, NEW caps \in SUBSET Capability, ChangeCapabilities(s, caps)
      PROVE  StartInv'
  BY <1>3, ChangeCapabilitiesKeepsInv
<1>4. CASE UNCHANGED startVars
  BY <1>4, WalkKeepsInv DEF startVars, mainVars, wireVars, InLoop
<1> QED
  BY <1>1, <1>2, <1>3, <1>4, HandleCapabilitiesKeepsInv, HandleKeymapKeepsInv, EnterKeepsInv,
     LoopEndsKeepsInv, ServeBindKeepsInv, ServeLockKeepsInv, ServeGetKeepsInv DEF StartNext

\* Whatever globals and seats the compositor has: a session is locked by a
\* program that has got to its loop, and left behind by it only for a global
\* bound after the lock request, for devices asked of the wrong one of several
\* seats, or for a keymap of a keyboard that was told of (main.c 107-135,
\* wl_seat.h 16-33, keyboard.h 16-33).
THEOREM LockedSessionHasLocker == StartSpec => []LockedByLivingLocker
<1>1. StartInit => StartInv
  BY StartInvInit
<1>2. StartInv /\ [StartNext]_startVars => StartInv'
  BY StartInvNext
<1>3. StartInv => LockedByLivingLocker
  BY DEF StartInv, OrderInv, LockIsAskedInLoop, BoundInLockedSession, InLoop, DeviceInv,
         EndsExplained, KeyboardSeen, LockedByLivingLocker
<1> QED BY <1>1, <1>2, <1>3, PTL DEF StartSpec
=============================================================================
