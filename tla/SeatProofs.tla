----------------------------- MODULE SeatProofs ------------------------------
(***************************************************************************)
(* Proofs about Seat, for any seats, however often they and their devices  *)
(* come and go.                                                            *)
(*                                                                         *)
(* The requests about one kind of device that are on their way alternate:  *)
(* each begins where the one before it ended, the first where the          *)
(* compositor is and the last where the program is (Chained).  So when     *)
(* none is left the two agree.                                             *)
(***************************************************************************)
EXTENDS Seat, SequenceTheorems, FiniteSetTheorems, TLAPS

DeviceRequest == [type : {"get", "release"}, seat : Seats, capability : Capability]

Request == [type : {"bind"}, seat : Seats] \cup DeviceRequest

Event == [type : {"global"}, seat : Seats]
             \cup [type : {"capabilities"}, seat : Seats, capabilities : SUBSET Capability]

SeatTypeInv ==
    /\ wl_seat \in Seats \cup {NoSeat}
    /\ device \in [Capability -> Seats \cup {NoSeat}]
    /\ requests \in Seq(Request) /\ events \in Seq(Event)
    /\ announced \subseteq Seats /\ IsFiniteSet(announced) /\ bound \subseteq announced
    /\ offered \in [Seats -> SUBSET Capability] /\ ever \in [Seats -> SUBSET Capability]
    /\ live \subseteq Seats \X Capability

\* The program has a seat before it hears of capabilities.
SeatIsKept ==
    /\ \A i \in DOMAIN events : events[i].type = "capabilities" => wl_seat # NoSeat
    /\ \A i \in DOMAIN requests : wl_seat # NoSeat
    /\ bound # {} => wl_seat # NoSeat

\* Whatever is spoken of has been announced.
OnlyAnnounced ==
    /\ wl_seat \in announced \cup {NoSeat}
    /\ \A c \in Capability : device[c] \in announced \cup {NoSeat}
    /\ \A i \in DOMAIN events : events[i].seat \in announced
    /\ \A i \in DOMAIN requests : requests[i].seat \in announced

HasWhatItEverHad == \A s \in Seats : offered[s] \subseteq ever[s]

\* A device is asked for because some seat has had it.
SomeSeatHadIt ==
    /\ \A i \in DOMAIN events :
           events[i].type = "capabilities" => events[i].capabilities \subseteq ever[events[i].seat]
    /\ \A i \in DOMAIN requests :
           requests[i].type = "get" => \E s \in announced : requests[i].capability \in ever[s]

-----------------------------------------------------------------------------
(* The requests about one kind of device *)

About(r, c) == r.type \in {"get", "release"} /\ r.capability = c

\* The device there must be before a request, and the one there is after it.
Before(r) == IF r.type = "get" THEN NoSeat ELSE r.seat
After(r) == IF r.type = "get" THEN r.seat ELSE NoSeat

\* What the compositor keeps of a kind of device, as a set.
Kept(devices, c) == {s \in Seats : <<s, c>> \in devices}
Only(s) == {s} \ {NoSeat}

First(queue, c, i) ==
    About(queue[i], c) /\ \A j \in DOMAIN queue : j < i => ~About(queue[j], c)

Last(queue, c, i) ==
    About(queue[i], c) /\ \A j \in DOMAIN queue : i < j => ~About(queue[j], c)

Follows(queue, c, i, j) ==
    /\ i < j /\ About(queue[i], c) /\ About(queue[j], c)
    /\ \A k \in DOMAIN queue : i < k /\ k < j => ~About(queue[k], c)

Chained(queue, c, kept, dev) ==
    /\ \A i \in DOMAIN queue : First(queue, c, i) => kept = Only(Before(queue[i]))
    /\ \A i, j \in DOMAIN queue :
           Follows(queue, c, i, j) => Before(queue[j]) = After(queue[i])
    /\ \A i \in DOMAIN queue : Last(queue, c, i) => After(queue[i]) = dev
    /\ (\A i \in DOMAIN queue : ~About(queue[i], c)) => kept = Only(dev)

DevicesChained ==
    perror = "none" => \A c \in Capability : Chained(requests, c, Kept(live, c), device[c])

-----------------------------------------------------------------------------
(* The capabilities that are on their way *)

\* With one seat, the last capabilities that were sent are those it has, and
\* when they have been handled they are the devices that the program has.
LastTold(i) ==
    /\ events[i].type = "capabilities"
    /\ \A j \in DOMAIN events : i < j => events[j].type # "capabilities"

LastToldIsCurrent ==
    \A s \in bound : announced = {s} =>
        /\ \A i \in DOMAIN events : LastTold(i) => events[i].capabilities = offered[s]
        /\ (\A i \in DOMAIN events : events[i].type # "capabilities")
               => \A c \in Capability : device[c] # NoSeat <=> c \in offered[s]

SeatInv ==
    /\ SeatTypeInv
    /\ HasWhatItEverHad
    /\ SeatIsKept
    /\ OnlyAnnounced
    /\ SomeSeatHadIt
    /\ DevicesChained
    /\ LastToldIsCurrent
    /\ ErrorNeedsTwoSeats

-----------------------------------------------------------------------------
LEMMA Appended ==
    ASSUME NEW S, NEW queue \in Seq(S), NEW r \in S
    PROVE  /\ Append(queue, r) \in Seq(S)
           /\ Len(queue) + 1 \in DOMAIN Append(queue, r)
           /\ Append(queue, r)[Len(queue) + 1] = r
           /\ \A i \in DOMAIN queue :
                  i \in DOMAIN Append(queue, r) /\ Append(queue, r)[i] = queue[i]
                      /\ i < Len(queue) + 1
           /\ \A i \in DOMAIN Append(queue, r) : i \in DOMAIN queue \/ i = Len(queue) + 1
OBVIOUS

LEMMA Tailed ==
    ASSUME NEW S, NEW queue \in Seq(S), queue # <<>>
    PROVE  /\ Tail(queue) \in Seq(S) /\ Head(queue) \in S
           /\ 1 \in DOMAIN queue /\ queue[1] = Head(queue)
           /\ \A i \in DOMAIN Tail(queue) :
                  /\ i \in Int /\ i + 1 \in DOMAIN queue /\ 1 < i + 1
                  /\ Tail(queue)[i] = queue[i + 1]
           /\ \A i \in DOMAIN queue : i # 1 => i \in Int /\ i - 1 \in DOMAIN Tail(queue)
                                                  /\ Tail(queue)[i - 1] = queue[i]
           /\ \A i \in DOMAIN queue : 1 <= i
OBVIOUS

LEMMA RestFollows ==
    ASSUME NEW S, NEW queue \in Seq(S), queue # <<>>, NEW c
    PROVE  \A i, j \in DOMAIN Tail(queue) :
               Follows(Tail(queue), c, i, j) => Follows(queue, c, i + 1, j + 1)
<1> DEFINE rest == Tail(queue)
<1>1. /\ \A i \in DOMAIN rest : i \in Int /\ i + 1 \in DOMAIN queue /\ 1 < i + 1
                                    /\ rest[i] = queue[i + 1]
      /\ \A i \in DOMAIN queue : i # 1 => i \in Int /\ i - 1 \in DOMAIN rest
                                              /\ rest[i - 1] = queue[i]
  BY Tailed
<1> HIDE DEF rest
<1>2. ASSUME NEW i \in DOMAIN rest, NEW j \in DOMAIN rest, Follows(rest, c, i, j)
      PROVE  Follows(queue, c, i + 1, j + 1)
  <2>1. ASSUME NEW k \in DOMAIN queue, i + 1 < k, k < j + 1
        PROVE  ~About(queue[k], c)
    <3>1. k # 1
      BY <1>1, <2>1
    <3>2. k - 1 \in DOMAIN rest /\ i < k - 1 /\ k - 1 < j /\ rest[k - 1] = queue[k]
      BY <1>1, <2>1, <3>1
    <3> QED BY <1>2, <3>2 DEF Follows
  <2> QED BY <1>1, <1>2, <2>1 DEF Follows
<1> QED BY <1>2 DEF rest

\* A request about another kind of device changes nothing.
LEMMA ChainPassesOther ==
    ASSUME NEW S, NEW queue \in Seq(S), NEW r \in S, NEW c, NEW kept, NEW dev,
           ~About(r, c), Chained(queue, c, kept, dev)
    PROVE  Chained(Append(queue, r), c, kept, dev)
<1> DEFINE longer == Append(queue, r)
           n == Len(queue) + 1
<1>1. /\ n \in DOMAIN longer /\ longer[n] = r
      /\ \A i \in DOMAIN queue : i \in DOMAIN longer /\ longer[i] = queue[i] /\ i < n
      /\ \A i \in DOMAIN longer : i \in DOMAIN queue \/ i = n
  BY Appended
<1> HIDE DEF longer, n
<1>2. \A i \in DOMAIN longer : About(longer[i], c) => i \in DOMAIN queue
  BY <1>1
<1>3. \A i \in DOMAIN queue :
          /\ First(longer, c, i) => First(queue, c, i)
          /\ Last(longer, c, i) => Last(queue, c, i)
  BY <1>1 DEF First, Last
<1>4. \A i, j \in DOMAIN queue : Follows(longer, c, i, j) => Follows(queue, c, i, j)
  BY <1>1 DEF Follows
<1>5. \A i \in DOMAIN longer : First(longer, c, i) => kept = Only(Before(longer[i]))
  BY <1>1, <1>2, <1>3 DEF Chained, First
<1>6. \A i, j \in DOMAIN longer :
          Follows(longer, c, i, j) => Before(longer[j]) = After(longer[i])
  BY <1>1, <1>2, <1>4 DEF Chained, Follows
<1>7. \A i \in DOMAIN longer : Last(longer, c, i) => After(longer[i]) = dev
  BY <1>1, <1>2, <1>3 DEF Chained, Last
<1>8. (\A i \in DOMAIN longer : ~About(longer[i], c)) => kept = Only(dev)
  BY <1>1 DEF Chained
<1>9. Chained(longer, c, kept, dev)
  BY <1>5, <1>6, <1>7, <1>8 DEF Chained
<1> QED BY <1>9 DEF longer

\* A request that begins where the program is goes on the chain.
LEMMA ChainGrows ==
    ASSUME NEW S, NEW queue \in Seq(S), NEW r \in S, NEW c, NEW kept, NEW dev,
           About(r, c), Before(r) = dev, Chained(queue, c, kept, dev)
    PROVE  Chained(Append(queue, r), c, kept, After(r))
<1> DEFINE longer == Append(queue, r)
           n == Len(queue) + 1
<1>1. /\ n \in DOMAIN longer /\ longer[n] = r
      /\ \A i \in DOMAIN queue : i \in DOMAIN longer /\ longer[i] = queue[i] /\ i < n
      /\ \A i \in DOMAIN longer : i \in DOMAIN queue \/ i = n
      /\ n \in Int /\ \A i \in DOMAIN queue : i \in Int
  BY Appended
<1> HIDE DEF longer, n
<1>3. \A i \in DOMAIN longer : First(longer, c, i) => kept = Only(Before(longer[i]))
  <2>1. \A i \in DOMAIN queue : First(longer, c, i) => First(queue, c, i)
    BY <1>1 DEF First
  <2>2. First(longer, c, n) => \A i \in DOMAIN queue : ~About(queue[i], c)
    BY <1>1 DEF First
  <2> QED BY <1>1, <2>1, <2>2 DEF Chained
<1>4. ASSUME NEW i \in DOMAIN longer, NEW j \in DOMAIN longer, Follows(longer, c, i, j)
      PROVE  Before(longer[j]) = After(longer[i])
  <2>1. i \in DOMAIN queue
    BY <1>1, <1>4 DEF Follows
  <2>2. CASE j \in DOMAIN queue
    <3>1. Follows(queue, c, i, j)
      BY <1>1, <1>4, <2>1, <2>2 DEF Follows
    <3> QED BY <1>1, <2>1, <2>2, <3>1 DEF Chained
  <2>3. CASE j = n
    <3>1. Last(queue, c, i)
      BY <1>1, <1>4, <2>1, <2>3 DEF Follows, Last
    <3> QED BY <1>1, <2>1, <2>3, <3>1 DEF Chained
  <2> QED BY <1>1, <2>2, <2>3
<1>5. \A i \in DOMAIN longer : Last(longer, c, i) => After(longer[i]) = After(r)
  <2>1. \A i \in DOMAIN queue : ~Last(longer, c, i)
    BY <1>1 DEF Last
  <2> QED BY <1>1, <2>1
<1>6. ~ \A i \in DOMAIN longer : ~About(longer[i], c)
  BY <1>1
<1>7. Chained(longer, c, kept, After(r))
  BY <1>3, <1>4, <1>5, <1>6 DEF Chained
<1> QED BY <1>7 DEF longer

\* The compositor reads a request about another kind of device.
LEMMA ChainShiftsOther ==
    ASSUME NEW S, NEW queue \in Seq(S), queue # <<>>, NEW c, NEW kept, NEW dev,
           ~About(Head(queue), c), Chained(queue, c, kept, dev)
    PROVE  Chained(Tail(queue), c, kept, dev)
<1> DEFINE rest == Tail(queue)
<1>1. /\ 1 \in DOMAIN queue /\ queue[1] = Head(queue)
      /\ \A i \in DOMAIN rest : i \in Int /\ i + 1 \in DOMAIN queue /\ 1 < i + 1
                                    /\ rest[i] = queue[i + 1]
      /\ \A i \in DOMAIN queue : i # 1 => i \in Int /\ i - 1 \in DOMAIN rest
                                              /\ rest[i - 1] = queue[i]
  BY Tailed
<1> HIDE DEF rest
<1>2. \A i \in DOMAIN rest :
          /\ First(rest, c, i) => First(queue, c, i + 1)
          /\ Last(rest, c, i) => Last(queue, c, i + 1)
  <2> SUFFICES ASSUME NEW i \in DOMAIN rest
               PROVE  /\ First(rest, c, i) => First(queue, c, i + 1)
                      /\ Last(rest, c, i) => Last(queue, c, i + 1)
    OBVIOUS
  <2>1. ASSUME First(rest, c, i), NEW j \in DOMAIN queue, j < i + 1
        PROVE  ~About(queue[j], c)
    <3>1. CASE j = 1
      BY <1>1, <3>1
    <3>2. CASE j # 1
      <4>1. j - 1 \in DOMAIN rest /\ j - 1 < i /\ rest[j - 1] = queue[j]
        BY <1>1, <2>1, <3>2
      <4> QED BY <2>1, <4>1 DEF First
    <3> QED BY <3>1, <3>2
  <2>2. ASSUME Last(rest, c, i), NEW j \in DOMAIN queue, i + 1 < j
        PROVE  ~About(queue[j], c)
    <3>1. j # 1
      BY <1>1, <2>2
    <3>2. j - 1 \in DOMAIN rest /\ i < j - 1 /\ rest[j - 1] = queue[j]
      BY <1>1, <2>2, <3>1
    <3> QED BY <2>2, <3>2 DEF Last
  <2> QED BY <1>1, <2>1, <2>2 DEF First, Last
<1>3. \A i, j \in DOMAIN rest : Follows(rest, c, i, j) => Follows(queue, c, i + 1, j + 1)
  BY RestFollows DEF rest
<1>4. \A i \in DOMAIN rest : First(rest, c, i) => kept = Only(Before(rest[i]))
  BY <1>1, <1>2 DEF Chained
<1>5. \A i, j \in DOMAIN rest : Follows(rest, c, i, j) => Before(rest[j]) = After(rest[i])
  BY <1>1, <1>3 DEF Chained
<1>6. \A i \in DOMAIN rest : Last(rest, c, i) => After(rest[i]) = dev
  BY <1>1, <1>2 DEF Chained
<1>7. (\A i \in DOMAIN rest : ~About(rest[i], c)) => kept = Only(dev)
  <2>1. (\A i \in DOMAIN rest : ~About(rest[i], c)) => \A i \in DOMAIN queue : ~About(queue[i], c)
    BY <1>1
  <2> QED BY <2>1 DEF Chained
<1>8. Chained(rest, c, kept, dev)
  BY <1>4, <1>5, <1>6, <1>7 DEF Chained
<1> QED BY <1>8 DEF rest

\* The compositor reads one that is on the chain, and is where it ends.
LEMMA ChainShifts ==
    ASSUME NEW S, NEW queue \in Seq(S), queue # <<>>, NEW c, NEW kept, NEW dev,
           About(Head(queue), c), Chained(queue, c, kept, dev)
    PROVE  /\ kept = Only(Before(Head(queue)))
           /\ Chained(Tail(queue), c, Only(After(Head(queue))), dev)
<1> DEFINE rest == Tail(queue)
           head == Head(queue)
<1>1. /\ 1 \in DOMAIN queue /\ queue[1] = head
      /\ \A i \in DOMAIN rest : i \in Int /\ i + 1 \in DOMAIN queue /\ 1 < i + 1
                                    /\ rest[i] = queue[i + 1]
      /\ \A i \in DOMAIN queue : i # 1 => i \in Int /\ i - 1 \in DOMAIN rest
                                              /\ rest[i - 1] = queue[i]
      /\ \A i \in DOMAIN queue : 1 <= i
  BY Tailed
<1>2. \A i, j \in DOMAIN rest : Follows(rest, c, i, j) => Follows(queue, c, i + 1, j + 1)
  BY RestFollows
<1> HIDE DEF rest, head
<1>first. \A j \in DOMAIN queue : ~(j < 1)
  BY <1>1
<1>3. First(queue, c, 1)
  BY <1>1, <1>first DEF First, head
<1>4. kept = Only(Before(head))
  BY <1>1, <1>3 DEF Chained
<1>5. ASSUME NEW i \in DOMAIN rest, First(rest, c, i)
      PROVE  After(head) = Before(rest[i])
  <2>1. ASSUME NEW k \in DOMAIN queue, 1 < k, k < i + 1
        PROVE  ~About(queue[k], c)
    <3>1. k - 1 \in DOMAIN rest /\ k - 1 < i /\ rest[k - 1] = queue[k]
      BY <1>1, <2>1
    <3> QED BY <1>5, <3>1 DEF First
  <2>2. Follows(queue, c, 1, i + 1)
    BY <1>1, <1>3, <1>5, <2>1 DEF Follows, First
  <2> QED BY <1>1, <2>2 DEF Chained
<1>6. \A i \in DOMAIN rest : Last(rest, c, i) => Last(queue, c, i + 1)
  <2> SUFFICES ASSUME NEW i \in DOMAIN rest, Last(rest, c, i),
                      NEW j \in DOMAIN queue, i + 1 < j
               PROVE  ~About(queue[j], c)
    BY <1>1 DEF Last
  <2>1. j # 1
    BY <1>1
  <2>2. j - 1 \in DOMAIN rest /\ i < j - 1 /\ rest[j - 1] = queue[j]
    BY <1>1, <2>1
  <2> QED BY <2>2 DEF Last
<1>7. \A i, j \in DOMAIN rest : Follows(rest, c, i, j) => Before(rest[j]) = After(rest[i])
  BY <1>1, <1>2 DEF Chained
<1>8. \A i \in DOMAIN rest : Last(rest, c, i) => After(rest[i]) = dev
  BY <1>1, <1>6 DEF Chained
<1>9. (\A i \in DOMAIN rest : ~About(rest[i], c)) => After(head) = dev
  <2> SUFFICES ASSUME \A i \in DOMAIN rest : ~About(rest[i], c)
               PROVE  After(head) = dev
    OBVIOUS
  <2>1. ASSUME NEW j \in DOMAIN queue, 1 < j
        PROVE  ~About(queue[j], c)
    <3>1. j - 1 \in DOMAIN rest /\ rest[j - 1] = queue[j]
      BY <1>1, <2>1
    <3> QED BY <3>1
  <2>2. Last(queue, c, 1)
    BY <1>1, <1>3, <2>1 DEF First, Last
  <2> QED BY <1>1, <2>2 DEF Chained
<1>10. Chained(rest, c, Only(After(head)), dev)
  BY <1>5, <1>7, <1>8, <1>9 DEF Chained
<1> QED BY <1>4, <1>10 DEF rest, head

-----------------------------------------------------------------------------
\* What one half of wl_seat_capabilities asks for begins where the program is
\* and ends where it is then.
LEMMA FollowFacts ==
    ASSUME SeatTypeInv, wl_seat # NoSeat, NEW c \in Capability, NEW have \in BOOLEAN
    PROVE  /\ Follow(c, have).dev \in {NoSeat, wl_seat, device[c]}
           /\ Follow(c, have).dev # NoSeat <=> have
           /\ \/ Follow(c, have).req = <<>> /\ Follow(c, have).dev = device[c]
              \/ \E r \in DeviceRequest :
                     /\ Follow(c, have).req = <<r>>
                     /\ About(r, c) /\ Before(r) = device[c] /\ After(r) = Follow(c, have).dev
                     /\ r.seat \in {wl_seat, device[c]} \ {NoSeat}
                     /\ r.type = "get" => have
<1>1. wl_seat \in Seats /\ device[c] \in Seats \cup {NoSeat}
  BY DEF SeatTypeInv
<1>2. CASE have /\ device[c] = NoSeat
  <2>1. Follow(c, have) = [req |-> <<Get(c)>>, dev |-> wl_seat]
    BY <1>2 DEF Follow
  <2>2. Get(c) \in DeviceRequest /\ Get(c).type = "get" /\ Get(c).seat = wl_seat
        /\ Get(c).capability = c
    BY <1>1 DEF Get, DeviceRequest
  <2>3. /\ About(Get(c), c) /\ Before(Get(c)) = device[c] /\ After(Get(c)) = wl_seat
        /\ Get(c).seat \in {wl_seat, device[c]} \ {NoSeat}
    BY <1>2, <2>2 DEF About, Before, After
  <2>4. PICK r : r = Get(c)
    OBVIOUS
  <2>5. /\ Follow(c, have).req = <<r>> /\ Follow(c, have).dev = wl_seat
    BY <2>1, <2>4
  <2>6. /\ r \in DeviceRequest /\ About(r, c) /\ Before(r) = device[c] /\ After(r) = wl_seat
        /\ r.seat \in {wl_seat, device[c]} \ {NoSeat}
    BY <2>2, <2>3, <2>4
  <2> QED BY <1>2, <2>5, <2>6
<1>3. CASE ~have /\ device[c] # NoSeat
  <2>1. Follow(c, have) = [req |-> <<Release(c)>>, dev |-> NoSeat]
    BY <1>3 DEF Follow
  <2>2. Release(c) \in DeviceRequest /\ Release(c).type = "release"
        /\ Release(c).seat = device[c] /\ Release(c).capability = c
    BY <1>1, <1>3 DEF Release, DeviceRequest
  <2>3. /\ About(Release(c), c) /\ Before(Release(c)) = device[c] /\ After(Release(c)) = NoSeat
        /\ Release(c).seat \in {wl_seat, device[c]} \ {NoSeat}
    BY <1>3, <2>2 DEF About, Before, After
  <2> QED BY <1>3, <2>1, <2>2, <2>3
<1>4. CASE (have /\ device[c] # NoSeat) \/ (~have /\ device[c] = NoSeat)
  <2>1. Follow(c, have) = [req |-> <<>>, dev |-> device[c]]
    BY <1>4 DEF Follow
  <2> QED BY <1>1, <1>4, <2>1
<1> QED BY <1>2, <1>3, <1>4

\* So the chain goes on, and that of the other kind of device is the same.
GoesOn(queue, longer, c, have, step) ==
    /\ longer \in Seq(Request)
    /\ \A i \in DOMAIN longer :
           \/ i \in DOMAIN queue /\ longer[i] = queue[i]
           \/ /\ longer[i].seat \in {wl_seat, device[c]} \ {NoSeat}
              /\ longer[i].type = "get" => have /\ longer[i].capability = c
    /\ \A kept : Chained(queue, c, kept, device[c]) => Chained(longer, c, kept, step.dev)
    /\ \A other, kept, dev : other # c /\ Chained(queue, other, kept, dev)
                     => Chained(longer, other, kept, dev)

LEMMA ChainFollows ==
    ASSUME SeatTypeInv, wl_seat # NoSeat, NEW c \in Capability, NEW have \in BOOLEAN,
           NEW queue \in Seq(Request), NEW step, step = Follow(c, have),
           NEW longer, longer = queue \o step.req
    PROVE  GoesOn(queue, longer, c, have, step)
<1>1. CASE step.req = <<>> /\ step.dev = device[c]
  <2>1. longer = queue
    BY <1>1
  <2> QED BY <1>1, <2>1 DEF GoesOn
<1>2. ASSUME NEW r \in DeviceRequest, step.req = <<r>>,
             About(r, c), Before(r) = device[c], After(r) = step.dev,
             r.seat \in {wl_seat, device[c]} \ {NoSeat}, r.type = "get" => have
      PROVE  GoesOn(queue, longer, c, have, step)
  <2>1. longer = Append(queue, r)
    BY <1>2
  <2>2. r \in Request /\ r.capability = c /\ \A other : other # c => ~About(r, other)
    BY <1>2 DEF Request, About
  <2>3. /\ longer \in Seq(Request)
        /\ \A i \in DOMAIN longer :
               (i \in DOMAIN queue /\ longer[i] = queue[i]) \/ longer[i] = r
    BY <2>1, <2>2, Appended
  <2>4. \A kept : Chained(queue, c, kept, device[c]) => Chained(longer, c, kept, step.dev)
    BY <1>2, <2>1, <2>2, ChainGrows
  <2>5. \A other, kept, dev : other # c /\ Chained(queue, other, kept, dev)
                                  => Chained(longer, other, kept, dev)
    BY <2>1, <2>2, ChainPassesOther
  <2> QED BY <1>2, <2>2, <2>3, <2>4, <2>5 DEF GoesOn
<1> QED BY <1>1, <1>2, FollowFacts

-----------------------------------------------------------------------------
LEMMA SeatInvInit == SeatInit => SeatInv
<1> SUFFICES ASSUME SeatInit
             PROVE  SeatInv
  OBVIOUS
<1>1. /\ requests = <<>> /\ events = <<>> /\ DOMAIN requests = {} /\ DOMAIN events = {}
      /\ requests \in Seq(Request) /\ events \in Seq(Event)
      /\ announced = {} /\ bound = {} /\ live = {} /\ perror = "none"
      /\ wl_seat = NoSeat /\ device = [c \in Capability |-> NoSeat]
      /\ offered \in [Seats -> SUBSET Capability] /\ ever = offered
  BY DEF SeatInit
<1>2. IsFiniteSet(announced)
  BY <1>1, FS_EmptySet
<1>3. DevicesChained
  BY <1>1 DEF DevicesChained, Chained, Kept, Only
<1> QED
  BY <1>1, <1>2, <1>3
  DEF SeatInv, SeatTypeInv, HasWhatItEverHad, SeatIsKept, OnlyAnnounced, SomeSeatHadIt,
      LastToldIsCurrent, ErrorNeedsTwoSeats

\* What a handler finds and leaves.
LEMMA Received ==
    ASSUME SeatInv, NEW type, Receive(type)
    PROVE  /\ perror = "none"
           /\ Head(events) \in Event /\ Head(events).type = type
           /\ 1 \in DOMAIN events /\ events[1] = Head(events)
           /\ events' \in Seq(Event)
           /\ \A i \in DOMAIN events' :
                  i \in Int /\ i + 1 \in DOMAIN events /\ 1 < i + 1 /\ events'[i] = events[i + 1]
           /\ \A i \in DOMAIN events : i # 1 =>
                  i \in Int /\ i - 1 \in DOMAIN events' /\ events'[i - 1] = events[i]
           /\ UNCHANGED seatVars
BY Tailed DEF SeatInv, SeatTypeInv, Receive

\* The last capabilities that were sent are still the last.
LEMMA LastToldStays ==
    ASSUME SeatInv, NEW type, Receive(type), NEW i \in DOMAIN events', LastTold(i)'
    PROVE  i + 1 \in DOMAIN events /\ LastTold(i + 1) /\ events'[i] = events[i + 1]
<1>1. /\ i \in Int /\ i + 1 \in DOMAIN events /\ events'[i] = events[i + 1]
      /\ 1 < i + 1
  BY Received
<1>2. ASSUME NEW j \in DOMAIN events, i + 1 < j
      PROVE  events[j].type # "capabilities"
  <2>1. j \in Int /\ j # 1
    BY <1>1, <1>2 DEF SeatInv, SeatTypeInv
  <2>2. j - 1 \in DOMAIN events' /\ events'[j - 1] = events[j] /\ i < j - 1
    BY <1>1, <1>2, <2>1, Received
  <2> QED BY <2>2 DEF LastTold
<1> QED BY <1>1, <1>2 DEF LastTold

LEMMA HandleSeatKeepsInv ==
    ASSUME SeatInv, HandleSeat
    PROVE  SeatInv'
<1> DEFINE s == Head(events).seat
           r == [type |-> "bind", seat |-> s]
<1>1. /\ Receive("global") /\ wl_seat' = s /\ requests' = Append(requests, r)
      /\ device' = device /\ UNCHANGED <<announced, bound, offered, ever, live, perror>>
  BY Received DEF HandleSeat, seatVars
<1>2. /\ Head(events) \in Event /\ Head(events).type = "global"
      /\ 1 \in DOMAIN events /\ events[1] = Head(events)
      /\ events' \in Seq(Event)
      /\ \A i \in DOMAIN events' : i + 1 \in DOMAIN events /\ events'[i] = events[i + 1]
      /\ \A i \in DOMAIN events : i # 1 => i - 1 \in DOMAIN events' /\ events'[i - 1] = events[i]
  BY <1>1, Received
<1>3. s \in announced /\ s \in Seats /\ s # NoSeat
  BY <1>2, SeatAssumption DEF SeatInv, OnlyAnnounced, SeatTypeInv
<1> HIDE DEF s
<1>4. r \in Request /\ r.type = "bind" /\ r.seat = s /\ \A c : ~About(r, c)
  BY <1>3 DEF Request, About
<1> HIDE DEF r
<1>5. requests \in Seq(Request)
  BY DEF SeatInv, SeatTypeInv
<1>6. /\ requests' \in Seq(Request)
      /\ \A i \in DOMAIN requests' :
             (i \in DOMAIN requests /\ requests'[i] = requests[i]) \/ requests'[i] = r
  BY <1>1, <1>4, <1>5, Appended
<1>7. SeatTypeInv'
  BY <1>1, <1>2, <1>3, <1>6 DEF SeatInv, SeatTypeInv
<1>8. SeatIsKept'
  BY <1>1, <1>3 DEF SeatIsKept
<1>9. OnlyAnnounced'
  BY <1>1, <1>2, <1>3, <1>4, <1>6 DEF SeatInv, OnlyAnnounced
<1>10. SomeSeatHadIt'
  BY <1>1, <1>2, <1>4, <1>6 DEF SeatInv, SomeSeatHadIt
<1>11. DevicesChained'
  <2>1. \A c, kept, dev : Chained(requests, c, kept, dev) => Chained(requests', c, kept, dev)
    BY <1>1, <1>4, <1>5, ChainPassesOther
  <2> QED BY <1>1, <2>1 DEF SeatInv, DevicesChained
<1>12. LastToldIsCurrent'
  <2> SUFFICES ASSUME NEW t \in bound, announced = {t}
               PROVE  /\ \A i \in DOMAIN events' :
                             LastTold(i)' => events'[i].capabilities = offered[t]
                      /\ (\A i \in DOMAIN events' : events'[i].type # "capabilities")
                             => \A c \in Capability : device[c] # NoSeat <=> c \in offered[t]
    BY <1>1 DEF LastToldIsCurrent
  <2>1. ASSUME NEW i \in DOMAIN events', LastTold(i)'
        PROVE  events'[i].capabilities = offered[t]
    BY <1>1, <2>1, LastToldStays DEF SeatInv, LastToldIsCurrent
  <2>2. (\A i \in DOMAIN events' : events'[i].type # "capabilities")
            => \A i \in DOMAIN events : events[i].type # "capabilities"
    BY <1>2
  <2> QED BY <2>1, <2>2 DEF SeatInv, LastToldIsCurrent
<1>13. ErrorNeedsTwoSeats' /\ HasWhatItEverHad'
  BY <1>1 DEF SeatInv, ErrorNeedsTwoSeats, HasWhatItEverHad
<1> QED BY <1>7, <1>8, <1>9, <1>10, <1>11, <1>12, <1>13 DEF SeatInv

LEMMA HandleCapabilitiesKeepsInv ==
    ASSUME SeatInv, HandleCapabilities
    PROVE  SeatInv'
<1> DEFINE e == Head(events)
           have == [c \in Capability |-> c \in e.capabilities]
           step == [c \in Capability |-> Follow(c, have[c])]
           half == requests \o step["pointer"].req
<1>1. /\ Receive("capabilities") /\ UNCHANGED <<wl_seat, seatVars>>
      /\ requests' = half \o step["keyboard"].req
      /\ \A c \in Capability : device'[c] = step[c].dev
      /\ DOMAIN device' = Capability
      /\ device' = [c \in Capability |-> step[c].dev]
  BY Received DEF HandleCapabilities, Capability
<1>2. /\ e \in Event /\ e.type = "capabilities" /\ perror = "none"
      /\ 1 \in DOMAIN events /\ events[1] = e
      /\ events' \in Seq(Event)
      /\ \A i \in DOMAIN events' : i + 1 \in DOMAIN events /\ events'[i] = events[i + 1]
      /\ \A i \in DOMAIN events : i # 1 =>
             i \in Int /\ i - 1 \in DOMAIN events' /\ events'[i - 1] = events[i]
  BY <1>1, Received
<1>3. /\ SeatTypeInv /\ requests \in Seq(Request)
      /\ wl_seat # NoSeat /\ wl_seat \in announced
      /\ \A c \in Capability : device[c] \in announced \cup {NoSeat}
      /\ e.seat \in announced /\ e.capabilities \subseteq ever[e.seat]
  BY <1>2 DEF SeatInv, SeatTypeInv, SeatIsKept, OnlyAnnounced, SomeSeatHadIt
<1>4. "pointer" \in Capability /\ "keyboard" \in Capability
      /\ \A c \in Capability : c = "pointer" \/ c = "keyboard"
  BY DEF Capability
<1> HIDE DEF e
<1>5. have \in [Capability -> BOOLEAN]
  OBVIOUS
<1>wanted. \A c \in Capability : have[c] <=> c \in e.capabilities
  OBVIOUS
<1>steps. \A c \in Capability : step[c] = Follow(c, have[c])
  OBVIOUS
<1> HIDE DEF have, step
<1>6. \A c \in Capability :
          /\ step[c].dev \in {NoSeat, wl_seat, device[c]}
          /\ step[c].dev # NoSeat <=> have[c]
  <2>1. ASSUME NEW c \in Capability, NEW h \in BOOLEAN, h = have[c]
        PROVE  /\ Follow(c, h).dev \in {NoSeat, wl_seat, device[c]}
               /\ Follow(c, h).dev # NoSeat <=> h
    <3>1. SeatTypeInv /\ wl_seat # NoSeat
      BY <1>3
    <3> QED BY <3>1, FollowFacts
  <2> QED BY <1>5, <1>steps, <2>1
<1>mid. half = requests \o step["pointer"].req
  OBVIOUS
<1> HIDE DEF half
<1>pointer. GoesOn(requests, half, "pointer", have["pointer"], step["pointer"])
  BY <1>3, <1>4, <1>5, <1>steps, <1>mid, ChainFollows
<1>midType. half \in Seq(Request)
  BY <1>pointer DEF GoesOn
<1>keyboard. GoesOn(half, requests', "keyboard", have["keyboard"], step["keyboard"])
  <2>1. have["keyboard"] \in BOOLEAN /\ step["keyboard"] = Follow("keyboard", have["keyboard"])
    BY <1>4, <1>5, <1>steps
  <2>2. requests' = half \o step["keyboard"].req
    BY <1>1
  <2> QED BY <1>3, <1>4, <1>midType, <2>1, <2>2, ChainFollows
<1>7. /\ \A i \in DOMAIN half :
             \/ i \in DOMAIN requests /\ half[i] = requests[i]
             \/ /\ half[i].seat \in {wl_seat, device["pointer"]} \ {NoSeat}
                /\ half[i].type = "get" => have["pointer"] /\ half[i].capability = "pointer"
      /\ \A kept : Chained(requests, "pointer", kept, device["pointer"])
                       => Chained(half, "pointer", kept, step["pointer"].dev)
      /\ \A other, kept, dev : other # "pointer" /\ Chained(requests, other, kept, dev)
                       => Chained(half, other, kept, dev)
  BY <1>pointer DEF GoesOn
<1>8. /\ requests' \in Seq(Request)
      /\ \A i \in DOMAIN requests' :
             \/ i \in DOMAIN half /\ requests'[i] = half[i]
             \/ /\ requests'[i].seat \in {wl_seat, device["keyboard"]} \ {NoSeat}
                /\ requests'[i].type = "get"
                       => have["keyboard"] /\ requests'[i].capability = "keyboard"
      /\ \A kept : Chained(half, "keyboard", kept, device["keyboard"])
                       => Chained(requests', "keyboard", kept, step["keyboard"].dev)
      /\ \A other, kept, dev : other # "keyboard" /\ Chained(half, other, kept, dev)
                       => Chained(requests', other, kept, dev)
  BY <1>keyboard DEF GoesOn
<1>9. \A i \in DOMAIN requests' :
          \/ i \in DOMAIN requests /\ requests'[i] = requests[i]
          \/ /\ requests'[i].seat \in announced
             /\ requests'[i].type = "get" => requests'[i].capability \in e.capabilities
  BY <1>3, <1>4, <1>wanted, <1>7, <1>8
<1>10. \A c \in Capability : device'[c] \in announced \cup {NoSeat}
  BY <1>1, <1>3, <1>6
<1>11. SeatTypeInv'
  <2>1. device' \in [Capability -> Seats \cup {NoSeat}]
    BY <1>1, <1>3, <1>10 DEF SeatTypeInv
  <2> QED BY <1>1, <1>2, <1>3, <1>8, <2>1 DEF SeatTypeInv, seatVars
<1>12. SeatIsKept'
  BY <1>1, <1>3 DEF SeatIsKept
<1>13. OnlyAnnounced'
  BY <1>1, <1>2, <1>9, <1>10 DEF SeatInv, OnlyAnnounced, seatVars
<1>14. SomeSeatHadIt'
  <2>1. ASSUME NEW i \in DOMAIN requests', requests'[i].type = "get"
        PROVE  \E s \in announced : requests'[i].capability \in ever[s]
    <3>1. CASE requests'[i].capability \in e.capabilities
      BY <1>3, <3>1
    <3>2. CASE i \in DOMAIN requests /\ requests'[i] = requests[i]
      BY <2>1, <3>2 DEF SeatInv, SomeSeatHadIt
    <3> QED BY <1>9, <2>1, <3>1, <3>2
  <2> QED BY <1>1, <1>2, <2>1 DEF SeatInv, SomeSeatHadIt, seatVars
<1>15. DevicesChained'
  <2>1. \A c \in Capability : Chained(requests, c, Kept(live, c), device[c])
    BY <1>2 DEF SeatInv, DevicesChained
  <2>2. Chained(requests', "pointer", Kept(live, "pointer"), step["pointer"].dev)
    BY <1>4, <1>7, <1>8, <2>1
  <2>3. Chained(requests', "keyboard", Kept(live, "keyboard"), step["keyboard"].dev)
    BY <1>4, <1>7, <1>8, <2>1
  <2> QED BY <1>1, <1>4, <2>2, <2>3 DEF DevicesChained, seatVars
<1>16. LastToldIsCurrent'
  <2> SUFFICES ASSUME NEW t \in bound, announced = {t}
               PROVE  /\ \A i \in DOMAIN events' :
                             LastTold(i)' => events'[i].capabilities = offered[t]
                      /\ (\A i \in DOMAIN events' : events'[i].type # "capabilities")
                             => \A c \in Capability : device'[c] # NoSeat <=> c \in offered[t]
    BY <1>1 DEF LastToldIsCurrent, seatVars
  <2>1. ASSUME NEW i \in DOMAIN events', LastTold(i)'
        PROVE  events'[i].capabilities = offered[t]
    BY <1>1, <2>1, LastToldStays DEF SeatInv, LastToldIsCurrent
  <2>2. ASSUME \A i \in DOMAIN events' : events'[i].type # "capabilities",
               NEW c \in Capability
        PROVE  device'[c] # NoSeat <=> c \in offered[t]
    <3>1. \A j \in DOMAIN events : 1 < j => events[j].type # "capabilities"
      BY <1>2, <2>2
    <3>2. LastTold(1)
      BY <1>2, <3>1 DEF LastTold
    <3>3. e.capabilities = offered[t]
      BY <1>2, <3>2 DEF SeatInv, LastToldIsCurrent
    <3> QED BY <1>1, <1>6, <1>wanted, <3>3
  <2> QED BY <2>1, <2>2
<1>17. ErrorNeedsTwoSeats' /\ HasWhatItEverHad'
  BY <1>1 DEF SeatInv, ErrorNeedsTwoSeats, HasWhatItEverHad, seatVars
<1> QED BY <1>11, <1>12, <1>13, <1>14, <1>15, <1>16, <1>17 DEF SeatInv

-----------------------------------------------------------------------------
(* The compositor *)

\* A seat is announced, or a seat that is there has other capabilities, or is
\* bound: an event goes out, and nothing else of the invariant but what the
\* compositor knows of its seats.
LEMMA AnnounceKeepsInv ==
    ASSUME SeatInv, NEW s \in Seats, Announce(s)
    PROVE  SeatInv'
<1> DEFINE e == [type |-> "global", seat |-> s]
<1>1. /\ s \notin announced /\ announced' = announced \cup {s} /\ perror = "none"
      /\ events' = Append(events, e)
      /\ UNCHANGED <<wl_seat, device, requests, bound, offered, ever, live, perror>>
  BY DEF Announce, clientVars
<1>2. e \in Event /\ e.type = "global" /\ e.seat = s
  BY DEF Event
<1> HIDE DEF e
<1>3. /\ events' \in Seq(Event)
      /\ \A i \in DOMAIN events' :
             (i \in DOMAIN events /\ events'[i] = events[i]) \/ events'[i] = e
  BY <1>1, <1>2, Appended DEF SeatInv, SeatTypeInv
<1>4. SeatTypeInv'
  <2>1. IsFiniteSet(announced')
    BY <1>1, FS_AddElement DEF SeatInv, SeatTypeInv
  <2> QED BY <1>1, <1>3, <2>1 DEF SeatInv, SeatTypeInv
<1>5. SeatIsKept'
  BY <1>1, <1>2, <1>3 DEF SeatInv, SeatIsKept
<1>6. OnlyAnnounced'
  BY <1>1, <1>2, <1>3 DEF SeatInv, OnlyAnnounced
<1>7. SomeSeatHadIt'
  BY <1>1, <1>2, <1>3 DEF SeatInv, SomeSeatHadIt
<1>8. DevicesChained'
  BY <1>1 DEF SeatInv, DevicesChained
<1>9. LastToldIsCurrent'
  <2>1. ASSUME NEW t \in bound', announced' = {t}
        PROVE  FALSE
    BY <1>1, <2>1 DEF SeatInv, SeatTypeInv
  <2> QED BY <2>1 DEF LastToldIsCurrent
<1>10. ErrorNeedsTwoSeats' /\ HasWhatItEverHad'
  BY <1>1 DEF SeatInv, ErrorNeedsTwoSeats, HasWhatItEverHad
<1> QED BY <1>4, <1>5, <1>6, <1>7, <1>8, <1>9, <1>10 DEF SeatInv

\* The capabilities of a seat go out behind whatever is on its way.
LEMMA ToldLast ==
    ASSUME SeatInv, NEW s \in bound', bound' \subseteq announced, announced' = announced,
           ever' \in [Seats -> SUBSET Capability], \A t \in Seats : ever[t] \subseteq ever'[t],
           offered' \in [Seats -> SUBSET Capability], offered'[s] \subseteq ever'[s],
           events' = Append(events, Capabilities(s, offered'[s])),
           wl_seat' = wl_seat, wl_seat # NoSeat
    PROVE  /\ events' \in Seq(Event)
           /\ \A i \in DOMAIN events' :
                  /\ events'[i].seat \in announced
                  /\ events'[i].type = "capabilities" =>
                         events'[i].capabilities \subseteq ever'[events'[i].seat]
           /\ LastToldIsCurrent'
<1> DEFINE e == Capabilities(s, offered'[s])
           n == Len(events) + 1
<1>0. s \in Seats /\ s \in announced
  BY DEF SeatInv, SeatTypeInv
<1>1. /\ e \in Event /\ e.type = "capabilities" /\ e.seat = s /\ e.capabilities = offered'[s]
      /\ events \in Seq(Event)
  BY <1>0 DEF Capabilities, Event, SeatInv, SeatTypeInv
<1> HIDE DEF e
<1>2. /\ events' \in Seq(Event) /\ n \in DOMAIN events' /\ events'[n] = e
      /\ \A i \in DOMAIN events : events'[i] = events[i] /\ i < n
      /\ \A i \in DOMAIN events' : i \in DOMAIN events \/ i = n
  BY <1>1, Appended DEF e
<1> HIDE DEF n
<1>3. ASSUME NEW i \in DOMAIN events'
      PROVE  /\ events'[i].seat \in announced
             /\ events'[i].type = "capabilities" =>
                    events'[i].capabilities \subseteq ever'[events'[i].seat]
  <2>1. CASE i \in DOMAIN events
    <3>1. events'[i] = events[i] /\ events[i].seat \in announced /\ events[i].seat \in Seats
      BY <1>2, <2>1 DEF SeatInv, OnlyAnnounced, SeatTypeInv
    <3>2. ever[events[i].seat] \subseteq ever'[events[i].seat]
      BY <3>1
    <3> QED BY <2>1, <3>1, <3>2 DEF SeatInv, SomeSeatHadIt
  <2>2. CASE i = n
    BY <1>0, <1>1, <1>2, <2>2
  <2> QED BY <1>2, <2>1, <2>2
<1>4. ASSUME NEW t \in bound', announced' = {t}
      PROVE  /\ \A i \in DOMAIN events' :
                    LastTold(i)' => events'[i].capabilities = offered'[t]
             /\ \E i \in DOMAIN events' : events'[i].type = "capabilities"
  <2>1. t = s
    BY <1>0, <1>4
  <2>2. \A i \in DOMAIN events' : LastTold(i)' => i = n
    BY <1>1, <1>2 DEF LastTold
  <2> QED BY <1>1, <1>2, <2>1, <2>2
<1> QED BY <1>2, <1>3, <1>4 DEF LastToldIsCurrent

\* What the compositor finds and leaves.
LEMMA Served ==
    ASSUME SeatInv, NEW type, Serve(type)
    PROVE  /\ perror = "none" /\ requests # <<>> /\ requests' = Tail(requests)
           /\ Head(requests) \in Request /\ Head(requests).type = type
           /\ 1 \in DOMAIN requests /\ requests[1] = Head(requests)
           /\ requests' \in Seq(Request)
           /\ \A i \in DOMAIN requests' :
                  i + 1 \in DOMAIN requests /\ requests'[i] = requests[i + 1]
           /\ wl_seat' = wl_seat /\ device' = device
BY Tailed DEF SeatInv, SeatTypeInv, Serve, clientVars

LEMMA ServeBindKeepsInv ==
    ASSUME SeatInv, ServeBind
    PROVE  SeatInv'
<1> DEFINE s == Head(requests).seat
<1>1. /\ Serve("bind") /\ bound' = bound \cup {s}
      /\ events' = Append(events, Capabilities(s, offered[s]))
      /\ UNCHANGED <<announced, offered, ever, live, perror>>
  BY DEF ServeBind
<1>2. /\ perror = "none" /\ requests # <<>> /\ requests' = Tail(requests)
      /\ Head(requests) \in Request /\ Head(requests).type = "bind"
      /\ 1 \in DOMAIN requests /\ requests[1] = Head(requests)
      /\ requests' \in Seq(Request)
      /\ \A i \in DOMAIN requests' :
             i + 1 \in DOMAIN requests /\ requests'[i] = requests[i + 1]
      /\ wl_seat' = wl_seat /\ device' = device
  BY <1>1, Served
<1>3. s \in announced /\ wl_seat # NoSeat
  BY <1>2 DEF SeatInv, OnlyAnnounced, SeatIsKept
<1> HIDE DEF s
<1>4. /\ events' \in Seq(Event)
      /\ \A i \in DOMAIN events' :
             /\ events'[i].seat \in announced
             /\ events'[i].type = "capabilities" =>
                    events'[i].capabilities \subseteq ever'[events'[i].seat]
      /\ LastToldIsCurrent'
  <2>1. bound' \subseteq announced /\ s \in Seats
    BY <1>1, <1>3 DEF SeatInv, SeatTypeInv
  <2>2. offered[s] \subseteq ever[s]
    BY <2>1 DEF SeatInv, HasWhatItEverHad
  <2> QED BY <1>1, <1>2, <1>3, <2>1, <2>2, ToldLast DEF SeatInv, SeatTypeInv
<1>5. SeatTypeInv'
  BY <1>1, <1>2, <1>3, <1>4 DEF SeatInv, SeatTypeInv
<1>6. SeatIsKept'
  BY <1>2, <1>3 DEF SeatIsKept
<1>7. OnlyAnnounced' /\ SomeSeatHadIt'
  BY <1>1, <1>2, <1>4 DEF SeatInv, OnlyAnnounced, SomeSeatHadIt
<1>8. DevicesChained'
  <2>1. \A c : ~About(Head(requests), c)
    BY <1>2 DEF About
  <2>2. \A c, kept, dev : Chained(requests, c, kept, dev) => Chained(requests', c, kept, dev)
    BY <1>2, <2>1, ChainShiftsOther DEF SeatInv, SeatTypeInv
  <2> QED BY <1>1, <1>2, <2>2 DEF SeatInv, DevicesChained
<1>9. ErrorNeedsTwoSeats' /\ HasWhatItEverHad'
  BY <1>1 DEF SeatInv, ErrorNeedsTwoSeats, HasWhatItEverHad
<1> QED BY <1>4, <1>5, <1>6, <1>7, <1>8, <1>9 DEF SeatInv

LEMMA ChangeCapabilitiesKeepsInv ==
    ASSUME SeatInv, NEW s \in Seats, NEW caps \in SUBSET Capability,
           ChangeCapabilities(s, caps)
    PROVE  SeatInv'
<1>1. /\ s \in bound /\ perror = "none"
      /\ offered' = [offered EXCEPT ![s] = caps]
      /\ ever' = [ever EXCEPT ![s] = @ \cup caps]
      /\ events' = Append(events, Capabilities(s, caps))
      /\ UNCHANGED <<wl_seat, device, requests, announced, bound, live, perror>>
  BY DEF ChangeCapabilities, clientVars
<1>2. /\ SeatTypeInv /\ HasWhatItEverHad /\ wl_seat # NoSeat
  BY <1>1 DEF SeatInv, SeatIsKept
<1>3. /\ offered' \in [Seats -> SUBSET Capability] /\ ever' \in [Seats -> SUBSET Capability]
      /\ offered'[s] = caps /\ ever'[s] = ever[s] \cup caps
      /\ \A t \in Seats : t # s => offered'[t] = offered[t] /\ ever'[t] = ever[t]
  BY <1>1, <1>2 DEF SeatTypeInv
<1>4. /\ \A t \in Seats : ever[t] \subseteq ever'[t]
      /\ HasWhatItEverHad'
  BY <1>2, <1>3 DEF HasWhatItEverHad
<1>5. /\ events' \in Seq(Event)
      /\ \A i \in DOMAIN events' :
             /\ events'[i].seat \in announced
             /\ events'[i].type = "capabilities" =>
                    events'[i].capabilities \subseteq ever'[events'[i].seat]
      /\ LastToldIsCurrent'
  <2>1. bound' \subseteq announced /\ s \in bound' /\ announced' = announced /\ wl_seat' = wl_seat
    BY <1>1, <1>2 DEF SeatTypeInv
  <2>2. events' = Append(events, Capabilities(s, offered'[s])) /\ offered'[s] \subseteq ever'[s]
    BY <1>1, <1>3
  <2> QED BY <1>2, <1>3, <1>4, <2>1, <2>2, ToldLast
<1>6. SeatTypeInv'
  BY <1>1, <1>2, <1>3, <1>5 DEF SeatTypeInv
<1>7. SeatIsKept'
  BY <1>1, <1>2 DEF SeatIsKept
<1>8. OnlyAnnounced'
  BY <1>1, <1>5 DEF SeatInv, OnlyAnnounced
<1>9. SomeSeatHadIt'
  <2>1. ASSUME NEW i \in DOMAIN requests, requests[i].type = "get"
        PROVE  \E t \in announced : requests[i].capability \in ever'[t]
    <3>1. PICK t \in announced : requests[i].capability \in ever[t]
      BY <2>1 DEF SeatInv, SomeSeatHadIt
    <3>2. t \in Seats
      BY <1>2 DEF SeatTypeInv
    <3> QED BY <1>4, <3>1, <3>2
  <2> QED BY <1>1, <1>5, <2>1 DEF SomeSeatHadIt
<1>10. DevicesChained' /\ ErrorNeedsTwoSeats'
  BY <1>1 DEF SeatInv, DevicesChained, ErrorNeedsTwoSeats
<1> QED BY <1>4, <1>5, <1>6, <1>7, <1>8, <1>9, <1>10 DEF SeatInv

\* The compositor reads a request about a device and, unless it is an error,
\* keeps then what the request says.
LEMMA ServeDeviceKeepsInv ==
    ASSUME SeatInv, NEW type \in {"get", "release"}, Serve(type),
           UNCHANGED <<events, announced, bound, offered, ever>>,
           live' \subseteq Seats \X Capability,
           ErrorNeedsTwoSeats',
           perror' = "none" =>
               \A c \in Capability :
                   Kept(live', c) = IF c = Head(requests).capability
                                    THEN Only(After(Head(requests)))
                                    ELSE Kept(live, c)
    PROVE  SeatInv'
<1>1. /\ perror = "none" /\ requests # <<>> /\ requests' = Tail(requests)
      /\ Head(requests) \in Request /\ Head(requests).type = type
      /\ requests' \in Seq(Request)
      /\ \A i \in DOMAIN requests' :
             i + 1 \in DOMAIN requests /\ requests'[i] = requests[i + 1]
      /\ wl_seat' = wl_seat /\ device' = device
  BY Served
<1>2. /\ UNCHANGED <<wl_seat, device, events, announced, bound, offered, ever>>
  BY <1>1
<1>3. SeatTypeInv' /\ HasWhatItEverHad'
  BY <1>1, <1>2 DEF SeatInv, SeatTypeInv, HasWhatItEverHad
<1>4. SeatIsKept'
  BY <1>1, <1>2 DEF SeatInv, SeatIsKept
<1>5. OnlyAnnounced'
  BY <1>1, <1>2 DEF SeatInv, OnlyAnnounced
<1>6. SomeSeatHadIt'
  BY <1>1, <1>2 DEF SeatInv, SomeSeatHadIt
<1>7. ASSUME perror' = "none", NEW c \in Capability
      PROVE  Chained(requests', c, Kept(live', c), device[c])
  <2>1. Chained(requests, c, Kept(live, c), device[c]) /\ requests \in Seq(Request)
    BY <1>1 DEF SeatInv, SeatTypeInv, DevicesChained
  <2>2. CASE c = Head(requests).capability
    <3>1. About(Head(requests), c)
      BY <1>1, <2>2 DEF About
    <3> QED BY <1>1, <1>7, <2>1, <2>2, <3>1, ChainShifts
  <2>3. CASE c # Head(requests).capability
    <3>1. ~About(Head(requests), c)
      BY <2>3 DEF About
    <3> QED BY <1>1, <1>7, <2>1, <2>3, <3>1, ChainShiftsOther
  <2> QED BY <2>2, <2>3
<1>8. DevicesChained'
  BY <1>2, <1>7 DEF DevicesChained
<1>9. LastToldIsCurrent'
  BY <1>2 DEF SeatInv, LastToldIsCurrent, LastTold
<1> QED BY <1>3, <1>4, <1>5, <1>6, <1>8, <1>9 DEF SeatInv

LEMMA TwoAreMoreThanOne ==
    ASSUME NEW S, IsFiniteSet(S), NEW s \in S, NEW t \in S, s # t
    PROVE  Cardinality(S) > 1
<1>1. {s, t} \subseteq S /\ Cardinality({s, t}) = 2
  <2>1. IsFiniteSet({s}) /\ Cardinality({s}) = 1 /\ t \notin {s}
    BY FS_Singleton
  <2>2. Cardinality({s} \cup {t}) = 1 + 1
    BY <2>1, FS_AddElement
  <2>3. {s, t} = {s} \cup {t}
    OBVIOUS
  <2> QED BY <2>2, <2>3
<1>2. Cardinality({s, t}) <= Cardinality(S) /\ Cardinality(S) \in Nat
  BY <1>1, FS_Subset, FS_CardinalityType
<1> QED BY <1>1, <1>2

LEMMA ServeGetKeepsInv ==
    ASSUME SeatInv, ServeGet
    PROVE  SeatInv'
<1> DEFINE r == Head(requests)
           s == r.seat
           c == r.capability
<1>1. /\ Serve("get") /\ UNCHANGED <<events, announced, bound, offered, ever>>
      /\ \/ c \in ever[s] /\ live' = live \cup {<<s, c>>} /\ UNCHANGED perror
         \/ c \notin ever[s] /\ perror' = "missing_capability" /\ UNCHANGED live
  BY DEF ServeGet
<1>2. /\ perror = "none" /\ requests # <<>> /\ r \in Request /\ r.type = "get"
      /\ 1 \in DOMAIN requests /\ requests[1] = r /\ requests \in Seq(Request)
  BY <1>1, Served DEF SeatInv, SeatTypeInv
<1>3. /\ s \in announced /\ s \in Seats /\ c \in Capability
      /\ \E t \in announced : c \in ever[t]
  <2>1. r \in DeviceRequest
    BY <1>2 DEF Request
  <2> QED BY <1>2, <2>1 DEF SeatInv, OnlyAnnounced, SomeSeatHadIt, DeviceRequest
<1>4. About(r, c) /\ Before(r) = NoSeat /\ After(r) = s
  BY <1>2 DEF About, Before, After
<1>5. Kept(live, c) = {}
  <2>1. Chained(requests, c, Kept(live, c), device[c])
    BY <1>2, <1>3 DEF SeatInv, DevicesChained
  <2>2. Kept(live, c) = Only(NoSeat)
    BY <1>2, <1>4, <2>1, ChainShifts
  <2> QED BY <2>2 DEF Only
<1>6. Only(s) = {s}
  BY <1>3, SeatAssumption DEF Only
<1> HIDE DEF r, s, c
<1>7. live' \subseteq Seats \X Capability
  BY <1>1, <1>3 DEF SeatInv, SeatTypeInv
<1>8. ErrorNeedsTwoSeats'
  <2>1. CASE c \notin ever[s]
    <3>1. PICK t \in announced : c \in ever[t]
      BY <1>3
    <3>2. IsFiniteSet(announced) /\ s # t
      BY <2>1, <3>1 DEF SeatInv, SeatTypeInv
    <3> QED BY <1>1, <1>3, <3>2, TwoAreMoreThanOne DEF ErrorNeedsTwoSeats
  <2>2. CASE c \in ever[s]
    BY <1>1, <1>2, <2>2 DEF ErrorNeedsTwoSeats
  <2> QED BY <2>1, <2>2
<1>9. ASSUME perror' = "none", NEW d \in Capability
      PROVE  Kept(live', d) = IF d = c THEN Only(After(r)) ELSE Kept(live, d)
  <2>1. live' = live \cup {<<s, c>>}
    BY <1>1, <1>9
  <2>2. CASE d = c
    <3>1. Kept(live', c) = {s}
      BY <1>3, <1>5, <2>1 DEF Kept
    <3> QED BY <1>4, <1>6, <2>2, <3>1
  <2>3. CASE d # c
    BY <2>1, <2>3 DEF Kept
  <2> QED BY <2>2, <2>3
<1> QED BY <1>1, <1>7, <1>8, <1>9, ServeDeviceKeepsInv DEF r, c

LEMMA ServeReleaseKeepsInv ==
    ASSUME SeatInv, ServeRelease
    PROVE  SeatInv'
<1> DEFINE r == Head(requests)
           s == r.seat
           c == r.capability
<1>1. /\ Serve("release") /\ UNCHANGED <<events, announced, bound, offered, ever, perror>>
      /\ live' = live \ {<<s, c>>}
  BY DEF ServeRelease
<1>2. /\ perror = "none" /\ requests # <<>> /\ r \in Request /\ r.type = "release"
      /\ requests \in Seq(Request)
  BY <1>1, Served DEF SeatInv, SeatTypeInv
<1>3. s \in Seats /\ c \in Capability
  BY <1>2 DEF Request, DeviceRequest
<1>4. About(r, c) /\ Before(r) = s /\ After(r) = NoSeat
  BY <1>2 DEF About, Before, After
<1>5. Kept(live, c) = {s}
  <2>1. Chained(requests, c, Kept(live, c), device[c])
    BY <1>2, <1>3 DEF SeatInv, DevicesChained
  <2>2. Kept(live, c) = Only(s)
    BY <1>2, <1>4, <2>1, ChainShifts
  <2> QED BY <1>3, <2>2, SeatAssumption DEF Only
<1>6. Only(After(r)) = {}
  BY <1>4 DEF Only
<1> HIDE DEF r, s, c
<1>7. live' \subseteq Seats \X Capability
  BY <1>1 DEF SeatInv, SeatTypeInv
<1>8. ErrorNeedsTwoSeats'
  BY <1>1 DEF SeatInv, ErrorNeedsTwoSeats
<1>9. ASSUME NEW d \in Capability
      PROVE  Kept(live', d) = IF d = c THEN Only(After(r)) ELSE Kept(live, d)
  <2>1. CASE d = c
    <3>1. Kept(live', c) = {}
      <4>1. ASSUME NEW t \in Seats, <<t, c>> \in live'
            PROVE  FALSE
        <5>1. <<t, c>> \in live /\ t # s
          BY <1>1, <4>1
        <5> QED BY <1>5, <5>1 DEF Kept
      <4> QED BY <4>1 DEF Kept
    <3> QED BY <1>6, <2>1, <3>1
  <2>2. CASE d # c
    BY <1>1, <2>2 DEF Kept
  <2> QED BY <2>1, <2>2
<1> QED BY <1>1, <1>7, <1>8, <1>9, ServeDeviceKeepsInv DEF r, c

LEMMA SeatInvNext == SeatInv /\ [SeatNext]_allSeatVars => SeatInv'
<1> SUFFICES ASSUME SeatInv, [SeatNext]_allSeatVars
             PROVE  SeatInv'
  OBVIOUS
<1>1. CASE HandleSeat
  BY <1>1, HandleSeatKeepsInv
<1>2. CASE HandleCapabilities
  BY <1>2, HandleCapabilitiesKeepsInv
<1>3. ASSUME NEW s \in Seats, Announce(s)
      PROVE  SeatInv'
  BY <1>3, AnnounceKeepsInv
<1>4. CASE ServeBind
  BY <1>4, ServeBindKeepsInv
<1>5. ASSUME NEW s \in Seats, NEW caps \in SUBSET Capability, ChangeCapabilities(s, caps)
      PROVE  SeatInv'
  BY <1>5, ChangeCapabilitiesKeepsInv
<1>6. CASE ServeGet
  BY <1>6, ServeGetKeepsInv
<1>7. CASE ServeRelease
  BY <1>7, ServeReleaseKeepsInv
<1>8. CASE UNCHANGED allSeatVars
  BY <1>8
  DEF allSeatVars, clientVars, seatVars, SeatInv, SeatTypeInv, HasWhatItEverHad, SeatIsKept,
      OnlyAnnounced, SomeSeatHadIt, DevicesChained, LastToldIsCurrent, LastTold,
      ErrorNeedsTwoSeats
<1> QED BY <1>1, <1>2, <1>3, <1>4, <1>5, <1>6, <1>7, <1>8 DEF SeatNext

LEMMA SeatInvHolds == SeatSpec => []SeatInv
BY SeatInvInit, SeatInvNext, PTL DEF SeatSpec

\* The oldest request about a kind of device begins with what the compositor
\* keeps of it: nothing, if it asks for one, and if not, what it releases.
THEOREM DevicesAreAskedForOnce == SeatSpec => []OneDeviceOfAKind
<1>1. ASSUME SeatInv
      PROVE  OneDeviceOfAKind
  <2> DEFINE r == Head(requests)
  <2> SUFFICES ASSUME perror = "none", requests # <<>>
               PROVE  /\ r.type = "get" => \A s \in Seats : <<s, r.capability>> \notin live
                      /\ r.type = "release" => <<r.seat, r.capability>> \in live
    BY DEF OneDeviceOfAKind
  <2>1. requests \in Seq(Request) /\ r \in Request
    BY <1>1 DEF SeatInv, SeatTypeInv
  <2>2. ASSUME r.type \in {"get", "release"}
        PROVE  /\ r.seat \in Seats /\ r.capability \in Capability
               /\ Kept(live, r.capability) = Only(Before(r))
    <3>1. r.seat \in Seats /\ r.capability \in Capability
      BY <2>1, <2>2 DEF Request, DeviceRequest
    <3>2. About(r, r.capability)
      BY <2>2 DEF About
    <3>3. Chained(requests, r.capability, Kept(live, r.capability), device[r.capability])
      BY <1>1, <3>1 DEF SeatInv, DevicesChained
    <3> QED BY <2>1, <3>1, <3>2, <3>3, ChainShifts
  <2>3. CASE r.type = "get"
    <3>1. Kept(live, r.capability) = {}
      BY <2>2, <2>3 DEF Only, Before
    <3>2. \A s \in Seats : <<s, r.capability>> \notin live
      BY <3>1 DEF Kept
    <3> QED BY <2>3, <3>2
  <2>4. CASE r.type = "release"
    <3>1. r.seat \in Kept(live, r.capability)
      BY <2>2, <2>4, SeatAssumption DEF Only, Before
    <3>2. <<r.seat, r.capability>> \in live
      BY <3>1 DEF Kept
    <3> QED BY <2>4, <3>2
  <2> QED BY <2>3, <2>4
<1> QED BY <1>1, SeatInvHolds, PTL

\* When nothing is on its way the compositor keeps the devices that the
\* program knows of, and no other.
THEOREM NoDeviceIsLost == SeatSpec => []DevicesKnown
<1>1. ASSUME SeatInv
      PROVE  DevicesKnown
  <2> SUFFICES ASSUME Settled
               PROVE  live = {<<device[c], c>> : c \in {d \in Capability : device[d] # NoSeat}}
    BY DEF DevicesKnown
  <2>1. DOMAIN requests = {} /\ perror = "none"
    BY DEF Settled
  <2>2. \A c \in Capability : Kept(live, c) = Only(device[c])
    BY <1>1, <2>1 DEF SeatInv, DevicesChained, Chained
  <2>3. ASSUME NEW s \in Seats, NEW c \in Capability
        PROVE  <<s, c>> \in live <=> device[c] # NoSeat /\ s = device[c]
    BY <2>2, <2>3, SeatAssumption DEF Kept, Only
  <2>4. /\ live \subseteq Seats \X Capability
        /\ \A c \in Capability : device[c] # NoSeat => device[c] \in Seats
    BY <1>1 DEF SeatInv, SeatTypeInv
  <2>5. live \subseteq {<<device[c], c>> : c \in {d \in Capability : device[d] # NoSeat}}
    BY <2>3, <2>4
  <2>6. {<<device[c], c>> : c \in {d \in Capability : device[d] # NoSeat}} \subseteq live
    BY <2>3, <2>4
  <2> QED BY <2>5, <2>6
<1> QED BY <1>1, SeatInvHolds, PTL

\* The compositor never kills the program over a device while it has one seat.
THEOREM OneSeatIsSafe == SeatSpec => []ErrorNeedsTwoSeats
<1>1. SeatInv => ErrorNeedsTwoSeats
  BY DEF SeatInv
<1> QED BY <1>1, SeatInvHolds, PTL

\* When all is delivered, the program has the devices that its one seat has.
THEOREM DevicesAreThoseOfTheSeat == SeatSpec => []DevicesFollowTheSeat
<1>1. ASSUME SeatInv
      PROVE  DevicesFollowTheSeat
  <2> SUFFICES ASSUME NEW s \in bound, Settled, announced = {s}
               PROVE  {c \in Capability : device[c] # NoSeat} = offered[s]
    BY DEF DevicesFollowTheSeat
  <2>1. DOMAIN events = {}
    BY DEF Settled
  <2>2. \A c \in Capability : device[c] # NoSeat <=> c \in offered[s]
    BY <1>1, <2>1 DEF SeatInv, LastToldIsCurrent
  <2>3. offered[s] \subseteq Capability
    BY <1>1 DEF SeatInv, SeatTypeInv
  <2> QED BY <2>2, <2>3
<1> QED BY <1>1, SeatInvHolds, PTL
=============================================================================
