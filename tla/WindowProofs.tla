---------------------------- MODULE WindowProofs ----------------------------
(***************************************************************************)
(* Proofs about the window of the program without --lock and about the     *)
(* pointer in it.                                                          *)
(*                                                                         *)
(* ClockWindow, for any sizes: the window is acknowledged before it is     *)
(* drawn, and there is one frame callback.  Whatever makes the program draw*)
(* comes after the acknowledgement in the queue (AckIsFirst), and the frame*)
(* callbacks on their way are counted in both queues (CallbackInv).        *)
(*                                                                         *)
(* PointerCamera, for any positions, any limits, and with or without       *)
(* --stationary: the camera stays within its limits, a key is not undone by*)
(* the rest of a group, and the handlers implement OrbitCamera.            *)
(***************************************************************************)
EXTENDS ClockWindow, PointerCamera, SequenceTheorems, FiniteSetTheorems, TLAPS

-----------------------------------------------------------------------------
(* The clock window *)

WindowMessage == [type : {"commit", "frame", "ack", "pong"}, size : Sizes \cup {0}]

WindowEvent == [type : {"toplevel", "configure", "done", "ping", "close"},
                size : Sizes \cup {0}]

WindowTypeInv ==
    /\ pc \in {"setup", "loop", "drawing", "drawing for configure", "over"}
    /\ size \in Sizes /\ window \in Sizes /\ buffer \in Sizes
    /\ requests \in Seq(WindowMessage) /\ events \in Seq(WindowEvent)
    /\ acked \in BOOLEAN /\ requested \in BOOLEAN /\ waiting \in BOOLEAN
    /\ shown \in Sizes \cup {0}

IsPicture(m) == m.type = "commit" /\ m.size # 0

HasAck(queue) == \E i \in DOMAIN queue : queue[i].type = "ack"

\* Before every picture there is an acknowledgement, if none has been read.
AckedBefore(queue, read) ==
    \A i \in DOMAIN queue :
        IsPicture(queue[i]) => read \/ \E j \in DOMAIN queue : j < i /\ queue[j].type = "ack"

\* Whatever makes the program draw comes after the acknowledgement.
AckIsFirst ==
    /\ ~perror
    /\ shown # 0 => acked
    /\ \A i \in DOMAIN events : events[i].type = "done" => acked
    /\ pc = "drawing" => acked
    /\ pc = "drawing for configure" => acked \/ HasAck(requests)
    /\ AckedBefore(requests, acked)

\* The frame callbacks that there are, wherever they are.
Callbacks ==
    Count("frame", requests) + Count("done", events)
        + (IF requested THEN 1 ELSE 0) + (IF waiting THEN 1 ELSE 0)

CallbackInv == Callbacks = IF pc = "setup" THEN 0 ELSE 1

WindowInv == WindowTypeInv /\ AckIsFirst /\ CallbackInv

-----------------------------------------------------------------------------
LEMMA CountType ==
    ASSUME NEW S, NEW queue \in Seq(S), NEW type
    PROVE  Count(type, queue) \in Nat
<1>1. IsFiniteSet(1..Len(queue))
  BY FS_Interval
<1>2. {i \in DOMAIN queue : queue[i].type = type} \subseteq 1..Len(queue)
  OBVIOUS
<1>3. IsFiniteSet({i \in DOMAIN queue : queue[i].type = type})
  BY <1>1, <1>2, FS_Subset
<1> QED BY <1>3, FS_CardinalityType DEF Count

LEMMA CountAppend ==
    ASSUME NEW S, NEW queue \in Seq(S), NEW m, NEW type
    PROVE  Count(type, Append(queue, m))
               = Count(type, queue) + (IF m.type = type THEN 1 ELSE 0)
<1> DEFINE longer == Append(queue, m)
           n == Len(queue) + 1
           old == {i \in DOMAIN queue : queue[i].type = type}
           new == {i \in DOMAIN longer : longer[i].type = type}
<1>1. /\ n \in DOMAIN longer /\ n \notin DOMAIN queue /\ longer[n] = m
      /\ \A i \in DOMAIN queue : i \in DOMAIN longer /\ longer[i] = queue[i]
      /\ \A i \in DOMAIN longer : i \in DOMAIN queue \/ i = n
  OBVIOUS
<1>2. IsFiniteSet(old)
  <2>1. IsFiniteSet(1..Len(queue)) /\ old \subseteq 1..Len(queue)
    BY FS_Interval
  <2> QED BY <2>1, FS_Subset
<1>3. Count(type, longer) = Cardinality(new) /\ Count(type, queue) = Cardinality(old)
  BY DEF Count
<1> HIDE DEF longer, n
<1>4. CASE m.type = type
  <2>1. new = old \cup {n} /\ n \notin old
    BY <1>1, <1>4
  <2> HIDE DEF new, old
  <2>2. Cardinality(new) = Cardinality(old) + 1
    BY <1>2, <2>1, FS_AddElement
  <2> QED BY <1>3, <1>4, <2>2 DEF longer
<1>5. CASE m.type # type
  <2>1. new = old
    BY <1>1, <1>5
  <2>2. Count(type, queue) \in Nat
    BY CountType
  <2> HIDE DEF new, old
  <2> QED BY <1>3, <1>5, <2>1, <2>2 DEF longer
<1> QED BY <1>4, <1>5

LEMMA CountTail ==
    ASSUME NEW S, NEW queue \in Seq(S), queue # <<>>, NEW type
    PROVE  Count(type, queue)
               = Count(type, Tail(queue)) + (IF Head(queue).type = type THEN 1 ELSE 0)
<1> DEFINE shorter == Tail(queue)
           all == {i \in DOMAIN queue : queue[i].type = type}
           later == {i \in DOMAIN queue : i # 1 /\ queue[i].type = type}
           left == {i \in DOMAIN shorter : shorter[i].type = type}
           f == [i \in left |-> i + 1]
<1>1. /\ shorter \in Seq(S)
      /\ 1 \in DOMAIN queue /\ queue[1] = Head(queue)
      /\ \A i \in DOMAIN shorter : i \in Int /\ i + 1 \in DOMAIN queue /\ i + 1 # 1
                                       /\ shorter[i] = queue[i + 1]
      /\ \A i \in DOMAIN queue : i # 1 => i \in Int /\ i - 1 \in DOMAIN shorter
                                              /\ shorter[i - 1] = queue[i]
  OBVIOUS
<1>2. IsFiniteSet(left)
  <2>1. IsFiniteSet(1..Len(shorter)) /\ left \subseteq 1..Len(shorter)
    BY <1>1, FS_Interval
  <2> QED BY <2>1, FS_Subset
<1>3. Count(type, shorter) = Cardinality(left) /\ Count(type, queue) = Cardinality(all)
  BY DEF Count
<1> HIDE DEF shorter
<1>4. ExistsBijection(left, later)
  <2>1. \A i \in left : i \in Int /\ i + 1 \in later /\ f[i] = i + 1
    <3>1. ASSUME NEW i \in left
          PROVE  i \in DOMAIN shorter /\ shorter[i].type = type
      OBVIOUS
    <3>2. ASSUME NEW i \in left
          PROVE  i \in Int /\ i + 1 \in later
      BY <1>1, <3>1
    <3> QED BY <3>2
  <2>2. \A j \in later : j - 1 \in left /\ j - 1 + 1 = j
    <3>1. ASSUME NEW j \in later
          PROVE  j \in DOMAIN queue /\ j # 1 /\ queue[j].type = type
      OBVIOUS
    <3>2. ASSUME NEW j \in later
          PROVE  j - 1 \in left /\ j - 1 + 1 = j
      <4>1. j \in Int /\ j - 1 \in DOMAIN shorter /\ shorter[j - 1] = queue[j]
        BY <1>1, <3>1
      <4> QED BY <3>1, <4>1
    <3> QED BY <3>2
  <2>3. f \in [left -> later]
    BY <2>1
  <2> HIDE DEF f, left, later
  <2>4. \A i, j \in left : f[i] = f[j] => i = j
    BY <2>1
  <2>5. \A j \in later : \E i \in left : f[i] = j
    BY <2>1, <2>2
  <2>6. f \in Bijection(left, later)
    BY <2>3, <2>4, <2>5 DEF Bijection, Injection, Surjection, IsInjective
  <2> QED BY <2>6 DEF ExistsBijection
<1>5. IsFiniteSet(later) /\ Cardinality(later) = Cardinality(left)
  BY <1>2, <1>4, FS_Bijection
<1>6. Cardinality(left) \in Nat
  BY <1>2, FS_CardinalityType
<1>7. CASE Head(queue).type = type
  <2>1. all = later \cup {1} /\ 1 \notin later
    BY <1>1, <1>7
  <2> HIDE DEF all, later, left
  <2>2. Cardinality(all) = Cardinality(later) + 1
    BY <1>5, <2>1, FS_AddElement
  <2> QED BY <1>3, <1>5, <1>7, <2>2 DEF shorter
<1>8. CASE Head(queue).type # type
  <2>1. all = later
    BY <1>1, <1>8
  <2> HIDE DEF all, later, left
  <2> QED BY <1>3, <1>5, <1>6, <1>8, <2>1 DEF shorter
<1> QED BY <1>7, <1>8

\* A message goes on the queue.
Sends(queue, m, longer, read) ==
    /\ longer \in Seq(WindowMessage)
    /\ AckedBefore(longer, read)
    /\ HasAck(queue) \/ m.type = "ack" => HasAck(longer)
    /\ Count("frame", longer) = Count("frame", queue) + (IF m.type = "frame" THEN 1 ELSE 0)
    /\ Count("frame", queue) \in Nat

LEMMA Sending ==
    ASSUME NEW queue \in Seq(WindowMessage), NEW read \in BOOLEAN, AckedBefore(queue, read),
           NEW m \in WindowMessage, IsPicture(m) => read \/ HasAck(queue),
           NEW longer, longer = Append(queue, m)
    PROVE  Sends(queue, m, longer, read)
<1>1. /\ longer \in Seq(WindowMessage)
      /\ Len(queue) + 1 \in DOMAIN longer /\ longer[Len(queue) + 1] = m
      /\ \A i \in DOMAIN queue : /\ i \in DOMAIN longer /\ longer[i] = queue[i]
                                 /\ i < Len(queue) + 1
      /\ \A i \in DOMAIN longer : i \in DOMAIN queue \/ i = Len(queue) + 1
  OBVIOUS
<1>2. HasAck(queue) \/ m.type = "ack" => HasAck(longer)
  BY <1>1 DEF HasAck
<1>3. ASSUME NEW i \in DOMAIN longer, IsPicture(longer[i]), ~read
      PROVE  \E j \in DOMAIN longer : j < i /\ longer[j].type = "ack"
  <2>1. CASE i \in DOMAIN queue
    <3>1. PICK j \in DOMAIN queue : j < i /\ queue[j].type = "ack"
      BY <1>1, <1>3, <2>1 DEF AckedBefore
    <3> QED BY <1>1, <3>1
  <2>2. CASE i = Len(queue) + 1
    <3>1. PICK j \in DOMAIN queue : queue[j].type = "ack"
      BY <1>1, <1>3, <2>2 DEF HasAck
    <3> QED BY <1>1, <2>2, <3>1
  <2> QED BY <1>1, <2>1, <2>2
<1>4. AckedBefore(longer, read)
  BY <1>3 DEF AckedBefore
<1>5. Count("frame", longer) = Count("frame", queue) + (IF m.type = "frame" THEN 1 ELSE 0)
  BY CountAppend
<1>6. Count("frame", queue) \in Nat
  BY CountType
<1> QED BY <1>1, <1>2, <1>4, <1>5, <1>6 DEF Sends

\* A message is read.
LEMMA Reading ==
    ASSUME NEW queue \in Seq(WindowMessage), queue # <<>>, NEW read \in BOOLEAN,
           AckedBefore(queue, read), NEW shorter, shorter = Tail(queue)
    PROVE  /\ shorter \in Seq(WindowMessage)
           /\ Head(queue) \in WindowMessage
           /\ IsPicture(Head(queue)) => read
           /\ HasAck(queue) => HasAck(shorter) \/ Head(queue).type = "ack"
           /\ Head(queue).type # "ack" => AckedBefore(shorter, read)
           /\ Count("frame", queue)
                  = Count("frame", shorter) + (IF Head(queue).type = "frame" THEN 1 ELSE 0)
           /\ Count("frame", shorter) \in Nat
<1>1. /\ shorter \in Seq(WindowMessage) /\ Head(queue) \in WindowMessage
      /\ 1 \in DOMAIN queue /\ queue[1] = Head(queue)
      /\ \A i \in DOMAIN shorter : i \in Int /\ i + 1 \in DOMAIN queue /\ i + 1 # 1
                                       /\ shorter[i] = queue[i + 1]
      /\ \A i \in DOMAIN queue : i # 1 => i \in Int /\ i - 1 \in DOMAIN shorter
                                              /\ shorter[i - 1] = queue[i]
  OBVIOUS
<1>front. \A i \in DOMAIN queue : ~(i < 1)
  OBVIOUS
<1>2. IsPicture(Head(queue)) => read
  BY <1>1, <1>front DEF AckedBefore
<1>3. ASSUME HasAck(queue), Head(queue).type # "ack"
      PROVE  HasAck(shorter)
  <2>1. PICK j \in DOMAIN queue : queue[j].type = "ack"
    BY <1>3 DEF HasAck
  <2>2. j - 1 \in DOMAIN shorter /\ shorter[j - 1] = queue[j]
    BY <1>1, <1>3, <2>1
  <2> QED BY <2>1, <2>2 DEF HasAck
<1>4. ASSUME NEW i \in DOMAIN shorter, IsPicture(shorter[i]), ~read, Head(queue).type # "ack"
      PROVE  \E j \in DOMAIN shorter : j < i /\ shorter[j].type = "ack"
  <2>1. PICK j \in DOMAIN queue : j < i + 1 /\ queue[j].type = "ack"
    BY <1>1, <1>4 DEF AckedBefore
  <2>2. j # 1
    BY <1>1, <1>4, <2>1
  <2>3. j - 1 \in DOMAIN shorter /\ shorter[j - 1] = queue[j] /\ j - 1 < i
    BY <1>1, <2>1, <2>2
  <2> QED BY <2>1, <2>3
<1>5. Head(queue).type # "ack" => AckedBefore(shorter, read)
  BY <1>4 DEF AckedBefore
<1> QED BY <1>1, <1>2, <1>3, <1>5, CountTail, CountType

\* An event goes to the program.
Tells(queue, e, longer) ==
    /\ longer \in Seq(WindowEvent)
    /\ \A i \in DOMAIN longer :
           longer[i] = e \/ \E j \in DOMAIN queue : longer[i] = queue[j]
    /\ Count("done", longer) = Count("done", queue) + (IF e.type = "done" THEN 1 ELSE 0)
    /\ Count("done", queue) \in Nat

LEMMA Telling ==
    ASSUME NEW queue \in Seq(WindowEvent), NEW e \in WindowEvent,
           NEW longer, longer = Append(queue, e)
    PROVE  Tells(queue, e, longer)
<1>1. /\ longer \in Seq(WindowEvent)
      /\ \A i \in DOMAIN longer :
             longer[i] = e \/ (i \in DOMAIN queue /\ longer[i] = queue[i])
  OBVIOUS
<1>2. Count("done", longer) = Count("done", queue) + (IF e.type = "done" THEN 1 ELSE 0)
  BY CountAppend
<1>3. Count("done", queue) \in Nat
  BY CountType
<1> QED BY <1>1, <1>2, <1>3 DEF Tells

\* The program handles one.
LEMMA Handling ==
    ASSUME WindowInv, NEW type, Handle(type)
    PROVE  /\ pc = "loop" /\ Head(events).type = type
           /\ Head(events).size \in Sizes \cup {0}
           /\ type = "done" => acked
           /\ events' \in Seq(WindowEvent)
           /\ \A i \in DOMAIN events' : events'[i].type = "done" => acked
           /\ Count("done", events)
                  = Count("done", events') + (IF type = "done" THEN 1 ELSE 0)
           /\ Count("done", events') \in Nat
           /\ UNCHANGED compVars
<1>1. /\ events # <<>> /\ events \in Seq(WindowEvent) /\ events' = Tail(events)
      /\ Head(events).type = type /\ pc = "loop" /\ UNCHANGED compVars
  BY DEF Handle, WindowInv, WindowTypeInv
<1>2. /\ Head(events) \in WindowEvent /\ events' \in Seq(WindowEvent)
      /\ 1 \in DOMAIN events /\ events[1] = Head(events)
      /\ \A i \in DOMAIN events' : i + 1 \in DOMAIN events /\ events'[i] = events[i + 1]
  BY <1>1
<1>3. \A i \in DOMAIN events : events[i].type = "done" => acked
  BY DEF WindowInv, AckIsFirst
<1>4. Head(events).size \in Sizes \cup {0}
  BY <1>2 DEF WindowEvent
<1> QED BY <1>1, <1>2, <1>3, <1>4, CountTail, CountType

LEMMA MessageTypes ==
    /\ \A picture \in Sizes \cup {0} : Commit(picture) \in WindowMessage
    /\ \A kind \in {"commit", "frame", "ack", "pong"} : Request(kind) \in WindowMessage
    /\ \A picture : Commit(picture).type = "commit" /\ Commit(picture).size = picture
    /\ \A kind : Request(kind).type = kind /\ Request(kind).size = 0
BY DEF Commit, Request, WindowMessage

-----------------------------------------------------------------------------
(* What a step leaves when it sends up to two messages *)

\* The parts of the invariant that a step of the program disturbs.
LEMMA ProgramKeepsInv ==
    ASSUME WindowInv, UNCHANGED <<shown, acked, requested, waiting, perror>>,
           size' \in Sizes, window' \in Sizes, buffer' \in Sizes,
           pc' \in {"setup", "loop", "drawing", "drawing for configure", "over"},
           requests' \in Seq(WindowMessage), AckedBefore(requests', acked),
           events' \in Seq(WindowEvent),
           \A i \in DOMAIN events' : events'[i].type = "done" => acked,
           pc' = "drawing" => acked,
           pc' = "drawing for configure" => acked \/ HasAck(requests'),
           CallbackInv'
    PROVE  WindowInv'
BY DEF WindowInv, WindowTypeInv, AckIsFirst

LEMMA SetupKeepsInv ==
    ASSUME WindowInv, Setup
    PROVE  WindowInv'
<1> DEFINE mid == Append(requests, Commit(0))
<1>1. /\ pc = "setup" /\ pc' = "loop" /\ requests' = Append(mid, Request("frame"))
      /\ UNCHANGED <<size, window, buffer, events, shown, acked, requested, waiting, perror>>
  BY DEF Setup, Ask, drawVars, compVars, WindowInv, WindowTypeInv
<1>2. /\ requests \in Seq(WindowMessage) /\ events \in Seq(WindowEvent)
      /\ AckedBefore(requests, acked) /\ acked \in BOOLEAN
      /\ Callbacks = 0
  BY <1>1 DEF WindowInv, WindowTypeInv, AckIsFirst, CallbackInv
<1>3. ~IsPicture(Commit(0)) /\ ~IsPicture(Request("frame"))
  BY MessageTypes DEF IsPicture
<1>4. /\ mid \in Seq(WindowMessage) /\ AckedBefore(mid, acked)
      /\ Count("frame", mid) = Count("frame", requests) /\ Count("frame", requests) \in Nat
  <2>1. Commit(0) \in WindowMessage /\ Commit(0).type = "commit"
    BY MessageTypes
  <2>2. Sends(requests, Commit(0), mid, acked)
    BY <1>2, <1>3, <2>1, Sending
  <2> QED BY <2>1, <2>2 DEF Sends
<1> HIDE DEF mid
<1>5. /\ requests' \in Seq(WindowMessage) /\ AckedBefore(requests', acked)
      /\ Count("frame", requests') = Count("frame", mid) + 1
  <2>1. Request("frame") \in WindowMessage /\ Request("frame").type = "frame"
    BY MessageTypes
  <2>2. Sends(mid, Request("frame"), requests', acked)
    BY <1>1, <1>2, <1>3, <1>4, <2>1, Sending
  <2> QED BY <2>1, <2>2 DEF Sends
<1>6. Count("done", events) \in Nat
  BY <1>2, CountType
<1>7. CallbackInv'
  BY <1>1, <1>2, <1>4, <1>5, <1>6 DEF CallbackInv, Callbacks
<1> QED
  BY <1>1, <1>5, <1>7, ProgramKeepsInv DEF WindowInv, WindowTypeInv, AckIsFirst

LEMMA ToplevelConfigureKeepsInv ==
    ASSUME WindowInv, ToplevelConfigure
    PROVE  WindowInv'
<1> DEFINE w == Head(events).size
<1>1. Handle("toplevel") /\ UNCHANGED pc
  BY DEF ToplevelConfigure
<1>2. /\ pc = "loop" /\ w \in Sizes \cup {0}
      /\ events' \in Seq(WindowEvent)
      /\ \A i \in DOMAIN events' : events'[i].type = "done" => acked
      /\ Count("done", events) = Count("done", events')
      /\ Count("done", events') \in Nat
      /\ UNCHANGED <<shown, acked, requested, waiting, perror>>
  BY <1>1, Handling DEF compVars
<1>3. /\ requests \in Seq(WindowMessage)
      /\ AckedBefore(requests, acked) /\ acked \in BOOLEAN /\ Callbacks = 1
      /\ size \in Sizes /\ window \in Sizes /\ buffer \in Sizes
  BY <1>2 DEF WindowInv, WindowTypeInv, AckIsFirst, CallbackInv
<1>4. /\ requests' \in Seq(WindowMessage) /\ AckedBefore(requests', acked)
      /\ Count("frame", requests') = Count("frame", requests)
      /\ size' \in Sizes /\ window' \in Sizes /\ buffer' \in Sizes
  <2>1. CASE w = 0
    BY <1>3, <2>1 DEF ToplevelConfigure, drawVars
  <2>2. CASE w # 0
    <3>1. /\ size' = w /\ window' = w /\ buffer' \in {buffer, w}
          /\ requests' = Append(requests, Commit(0))
      BY <1>3, <2>2 DEF ToplevelConfigure, Ask
    <3>2. /\ Commit(0) \in WindowMessage /\ Commit(0).type = "commit"
          /\ ~IsPicture(Commit(0))
      BY MessageTypes DEF IsPicture
    <3>3. /\ requests' \in Seq(WindowMessage) /\ AckedBefore(requests', acked)
          /\ Count("frame", requests') = Count("frame", requests)
      <4>1. Sends(requests, Commit(0), requests', acked)
        BY <1>3, <3>1, <3>2, Sending
      <4> QED BY <3>2, <4>1 DEF Sends
    <3> QED BY <1>2, <1>3, <2>2, <3>1, <3>3
  <2> QED BY <2>1, <2>2
<1>5. CallbackInv'
  BY <1>1, <1>2, <1>3, <1>4 DEF CallbackInv, Callbacks
<1> QED BY <1>1, <1>2, <1>4, <1>5, ProgramKeepsInv

\* A handler that sends one message which is no picture.
LEMMA AnswerKeepsInv ==
    ASSUME WindowInv, NEW type, Handle(type), NEW kind \in {"frame", "ack", "pong"},
           Ask(<<Request(kind)>>), UNCHANGED drawVars,
           pc' \in {"loop", "drawing", "drawing for configure"},
           pc' = "drawing" => type = "done",
           pc' = "drawing for configure" => kind = "ack",
           type = "done" <=> kind = "frame"
    PROVE  WindowInv'
<1>1. /\ pc = "loop"
      /\ type = "done" => acked
      /\ events' \in Seq(WindowEvent)
      /\ \A i \in DOMAIN events' : events'[i].type = "done" => acked
      /\ UNCHANGED <<shown, acked, requested, waiting, perror>>
  BY Handling DEF compVars
<1>7. /\ Count("done", events) = Count("done", events') + (IF type = "done" THEN 1 ELSE 0)
      /\ Count("done", events') \in Nat
  BY Handling
<1>8. UNCHANGED <<requested, waiting>>
  BY <1>1
<1>2. /\ requests \in Seq(WindowMessage)
      /\ AckedBefore(requests, acked) /\ acked \in BOOLEAN /\ Callbacks = 1
      /\ size' \in Sizes /\ window' \in Sizes /\ buffer' \in Sizes
  BY <1>1, Handling DEF WindowInv, WindowTypeInv, AckIsFirst, CallbackInv, drawVars
<1>3. /\ requests' = Append(requests, Request(kind))
      /\ Request(kind) \in WindowMessage /\ Request(kind).type = kind
      /\ ~IsPicture(Request(kind))
  <2>1. PICK m : m = Request(kind)
    OBVIOUS
  <2>2. m \in WindowMessage /\ m.type = kind /\ ~IsPicture(m)
    BY <2>1, MessageTypes DEF IsPicture
  <2>3. requests' = requests \o <<m>>
    BY <2>1 DEF Ask
  <2>4. requests' = Append(requests, m)
    BY ONLY <1>2, <2>2, <2>3
  <2> QED BY <2>1, <2>2, <2>4
<1>4. /\ requests' \in Seq(WindowMessage) /\ AckedBefore(requests', acked)
      /\ kind = "ack" => HasAck(requests')
      /\ Count("frame", requests') = Count("frame", requests) + (IF kind = "frame" THEN 1 ELSE 0)
      /\ Count("frame", requests) \in Nat
  <2>1. Sends(requests, Request(kind), requests', acked)
    BY <1>2, <1>3, Sending
  <2> QED BY <1>3, <2>1 DEF Sends
<1>9. Count("frame", requests) \in Nat
  BY <1>4
<1>5. CallbackInv'
  <2>1. pc' # "setup"
    OBVIOUS
  <2>2. CASE type = "done"
    <3>1. /\ Count("frame", requests') = Count("frame", requests) + 1
          /\ Count("done", events) = Count("done", events') + 1
      <4>1. kind = "frame"
        BY <2>2
      <4>2. Count("frame", requests') = Count("frame", requests) + 1
        BY ONLY <1>4, <4>1
      <4>3. Count("done", events) = Count("done", events') + 1
        BY ONLY <1>7, <2>2
      <4> QED BY <4>2, <4>3
    <3>2. Callbacks' = Callbacks
      BY ONLY <1>7, <1>8, <1>9, <3>1 DEF Callbacks
    <3> QED BY <1>2, <2>1, <3>2 DEF CallbackInv
  <2>3. CASE type # "done"
    <3>1. /\ Count("frame", requests') = Count("frame", requests)
          /\ Count("done", events) = Count("done", events')
      <4>1. kind # "frame"
        BY <2>3
      <4>2. Count("frame", requests') = Count("frame", requests)
        BY ONLY <1>4, <4>1
      <4>3. Count("done", events) = Count("done", events')
        BY ONLY <1>7, <2>3
      <4> QED BY <4>2, <4>3
    <3>2. Callbacks' = Callbacks
      BY ONLY <1>7, <1>8, <1>9, <3>1 DEF Callbacks
    <3> QED BY <1>2, <2>1, <3>2 DEF CallbackInv
  <2> QED BY <2>2, <2>3
<1>6. /\ pc' = "drawing" => acked
      /\ pc' = "drawing for configure" => acked \/ HasAck(requests')
  BY <1>1, <1>4
<1> QED BY <1>1, <1>2, <1>4, <1>5, <1>6, ProgramKeepsInv

LEMMA CloseKeepsInv ==
    ASSUME WindowInv, Close
    PROVE  WindowInv'
<1>1. Handle("close") /\ UNCHANGED <<pc, size, window, buffer, requests>>
  BY DEF Close, drawVars
<1>2. /\ pc = "loop"
      /\ events' \in Seq(WindowEvent)
      /\ \A i \in DOMAIN events' : events'[i].type = "done" => acked
      /\ Count("done", events) = Count("done", events') /\ Count("done", events') \in Nat
      /\ UNCHANGED <<shown, acked, requested, waiting, perror>>
  BY <1>1, Handling DEF compVars
<1>3. CallbackInv'
  BY <1>1, <1>2 DEF WindowInv, CallbackInv, Callbacks
<1> QED
  BY <1>1, <1>2, <1>3, ProgramKeepsInv DEF WindowInv, WindowTypeInv, AckIsFirst

LEMMA SwapKeepsInv ==
    ASSUME WindowInv, Swap
    PROVE  WindowInv'
<1> DEFINE mid == Append(requests, Commit(buffer))
<1>1. /\ pc \in {"drawing", "drawing for configure"} /\ pc' = "loop" /\ buffer' = window
      /\ UNCHANGED <<size, window, events, shown, acked, requested, waiting, perror>>
      /\ requests \in Seq(WindowMessage)
  BY DEF Swap, WindowInv, WindowTypeInv
<1>2. requests' = mid \/ requests' = Append(mid, Commit(0))
  <2>1. PICK m, none : m = Commit(buffer) /\ none = Commit(0)
    OBVIOUS
  <2>2. requests' = requests \o <<m>> \/ requests' = requests \o <<m, none>>
    BY <2>1 DEF Swap, Ask
  <2>3. m \in WindowMessage /\ none \in WindowMessage
    BY <2>1, MessageTypes DEF WindowInv, WindowTypeInv
  <2>4. requests \in Seq(WindowMessage)
    BY <1>1
  <2>5. requests \o <<m>> = Append(requests, m)
    BY ONLY <2>3, <2>4
  <2>6. requests \o <<m, none>> = Append(Append(requests, m), none)
    BY ONLY <2>3, <2>4
  <2>7. requests' = Append(requests, m) \/ requests' = Append(Append(requests, m), none)
    BY ONLY <2>2, <2>5, <2>6
  <2> QED BY <2>1, <2>7
<1>3. /\ AckedBefore(requests, acked) /\ acked \in BOOLEAN /\ Callbacks = 1
      /\ acked \/ HasAck(requests)
      /\ buffer \in Sizes
  BY <1>1 DEF WindowInv, WindowTypeInv, AckIsFirst, CallbackInv
<1>4. /\ mid \in Seq(WindowMessage) /\ AckedBefore(mid, acked)
      /\ Count("frame", mid) = Count("frame", requests)
      /\ Count("frame", requests) \in Nat
  <2>1. Commit(buffer) \in WindowMessage /\ Commit(buffer).type = "commit"
    BY <1>3, MessageTypes
  <2>2. IsPicture(Commit(buffer)) => acked \/ HasAck(requests)
    BY <1>3
  <2>3. Sends(requests, Commit(buffer), mid, acked)
    BY <1>1, <1>3, <2>1, <2>2, Sending
  <2> QED BY <2>1, <2>3 DEF Sends
<1> HIDE DEF mid
<1>5. /\ requests' \in Seq(WindowMessage) /\ AckedBefore(requests', acked)
      /\ Count("frame", requests') = Count("frame", requests)
  <2>1. CASE requests' = mid
    BY <1>4, <2>1
  <2>2. CASE requests' = Append(mid, Commit(0))
    <3>1. /\ Commit(0) \in WindowMessage /\ Commit(0).type = "commit"
          /\ ~IsPicture(Commit(0))
      BY MessageTypes DEF IsPicture
    <3>2. Sends(mid, Commit(0), requests', acked)
      BY <1>3, <1>4, <2>2, <3>1, Sending
    <3> QED BY <1>4, <3>1, <3>2 DEF Sends
  <2> QED BY <1>2, <2>1, <2>2
<1>6. CallbackInv'
  BY <1>1, <1>3, <1>5 DEF CallbackInv, Callbacks
<1> QED
  BY <1>1, <1>5, <1>6, ProgramKeepsInv DEF WindowInv, WindowTypeInv, AckIsFirst

LEMMA StopKeepsInv ==
    ASSUME WindowInv, Stop
    PROVE  WindowInv'
<1>1. /\ pc = "loop" /\ pc' \in {"loop", "over"}
      /\ UNCHANGED <<size, window, buffer, requests, events, shown, acked, requested,
                     waiting, perror>>
  BY DEF Stop, drawVars, wireVars, compVars
<1>2. CallbackInv'
  BY <1>1 DEF WindowInv, CallbackInv, Callbacks
<1> QED
  BY <1>1, <1>2, ProgramKeepsInv DEF WindowInv, WindowTypeInv, AckIsFirst

-----------------------------------------------------------------------------
\* What the compositor finds and leaves.
Served(type) ==
    /\ Head(requests) \in WindowMessage /\ Head(requests).type = type
    /\ IsPicture(Head(requests)) => acked
    /\ requests' \in Seq(WindowMessage)
    /\ HasAck(requests) => HasAck(requests') \/ type = "ack"
    /\ type # "ack" => AckedBefore(requests', acked)
    /\ Count("frame", requests)
           = Count("frame", requests') + (IF type = "frame" THEN 1 ELSE 0)
    /\ Count("frame", requests') \in Nat
    /\ Count("done", events) \in Nat
    /\ UNCHANGED <<pc, size, window, buffer>>

LEMMA Serving ==
    ASSUME WindowInv, NEW type, Serve(type)
    PROVE  Served(type)
<1>1. /\ requests # <<>> /\ requests' = Tail(requests) /\ Head(requests).type = type
      /\ UNCHANGED <<pc, size, window, buffer>>
  BY DEF Serve, mainVars, drawVars
<1>2. /\ requests \in Seq(WindowMessage) /\ acked \in BOOLEAN
      /\ events \in Seq(WindowEvent) /\ AckedBefore(requests, acked)
  BY DEF WindowInv, WindowTypeInv, AckIsFirst
<1>3. /\ Count("done", events) \in Nat
  BY <1>2, CountType
<1> QED BY <1>1, <1>2, <1>3, Reading DEF Served

\* The compositor sends a configure event.
LEMMA Configuring ==
    ASSUME WindowInv, NEW w \in Sizes \cup {0}, events' = events \o Configure(w),
           acked => acked'
    PROVE  /\ events' \in Seq(WindowEvent)
           /\ \A i \in DOMAIN events' : events'[i].type = "done" => acked'
           /\ Count("done", events') = Count("done", events)
           /\ Count("done", events) \in Nat
<1> DEFINE e1 == [type |-> "toplevel", size |-> w]
           e2 == [type |-> "configure", size |-> 0]
           mid == Append(events, e1)
<1>1. events \in Seq(WindowEvent) /\ \A i \in DOMAIN events : events[i].type = "done" => acked
  BY DEF WindowInv, WindowTypeInv, AckIsFirst
<1>2. /\ e1 \in WindowEvent /\ e1.type = "toplevel"
      /\ e2 \in WindowEvent /\ e2.type = "configure"
  BY DEF WindowEvent
<1>3. events' = Append(mid, e2)
  BY <1>1 DEF Configure, Event
<1> HIDE DEF e1, e2
<1>4. /\ mid \in Seq(WindowEvent)
      /\ \A i \in DOMAIN mid : mid[i] = e1 \/ \E j \in DOMAIN events : mid[i] = events[j]
      /\ Count("done", mid) = Count("done", events) /\ Count("done", events) \in Nat
  <2>1. Tells(events, e1, mid)
    BY <1>1, <1>2, Telling
  <2> QED BY <1>2, <2>1 DEF Tells
<1> HIDE DEF mid
<1>5. /\ events' \in Seq(WindowEvent)
      /\ \A i \in DOMAIN events' : events'[i] = e2 \/ \E j \in DOMAIN mid : events'[i] = mid[j]
      /\ Count("done", events') = Count("done", mid)
  <2>1. Tells(mid, e2, events')
    BY <1>2, <1>3, <1>4, Telling
  <2> QED BY <1>2, <2>1 DEF Tells
<1>6. \A i \in DOMAIN events' : events'[i].type = "done" => acked'
  BY <1>1, <1>2, <1>4, <1>5
<1> QED BY <1>4, <1>5, <1>6

LEMMA ServeCommitKeepsInv ==
    ASSUME WindowInv, ServeCommit
    PROVE  WindowInv'
<1> DEFINE picture == Head(requests).size
<1>1. /\ Serve("commit") /\ UNCHANGED acked
      /\ perror' = (picture # 0 /\ ~acked)
      /\ shown' = IF picture # 0 THEN picture ELSE shown
      /\ waiting' = (waiting \/ requested) /\ requested' = FALSE
  BY DEF ServeCommit
<1>8. \/ UNCHANGED events
      \/ \E w \in Sizes \cup {0} : events' = events \o Configure(w)
  BY DEF ServeCommit
<1>2. /\ Head(requests) \in WindowMessage /\ Head(requests).type = "commit"
      /\ IsPicture(Head(requests)) => acked
      /\ requests' \in Seq(WindowMessage)
      /\ HasAck(requests) => HasAck(requests')
      /\ AckedBefore(requests', acked)
      /\ Count("frame", requests) = Count("frame", requests')
      /\ Count("frame", requests') \in Nat
      /\ UNCHANGED <<pc, size, window, buffer>>
  <2>1. Served("commit")
    BY <1>1, Serving
  <2> QED BY <2>1 DEF Served
<1>3. /\ events' \in Seq(WindowEvent)
      /\ \A i \in DOMAIN events' : events'[i].type = "done" => acked
      /\ Count("done", events') = Count("done", events)
      /\ Count("done", events) \in Nat
  <2>1. CASE UNCHANGED events
    BY <1>1, <2>1, CountType DEF WindowInv, WindowTypeInv, AckIsFirst
  <2>2. ASSUME NEW w \in Sizes \cup {0}, events' = events \o Configure(w)
        PROVE  /\ events' \in Seq(WindowEvent)
               /\ \A i \in DOMAIN events' : events'[i].type = "done" => acked
               /\ Count("done", events') = Count("done", events)
               /\ Count("done", events) \in Nat
    BY <1>1, <2>2, Configuring
  <2> QED BY <1>8, <2>1, <2>2
<1>4. /\ picture \in Sizes \cup {0}
      /\ picture # 0 => acked
  BY <1>2 DEF WindowMessage, IsPicture
<1> HIDE DEF picture
<1> DEFINE flags == (IF requested THEN 1 ELSE 0) + (IF waiting THEN 1 ELSE 0)
<1>5. WindowTypeInv'
  <2>1. requested' \in BOOLEAN /\ waiting' \in BOOLEAN
    BY <1>1 DEF WindowInv, WindowTypeInv
  <2>2. shown' \in Sizes \cup {0}
    <3>1. shown \in Sizes \cup {0}
      BY DEF WindowInv, WindowTypeInv
    <3> QED BY <1>1, <1>4, <3>1
  <2> QED BY <1>1, <1>2, <1>3, <2>1, <2>2 DEF WindowInv, WindowTypeInv
<1>6. AckIsFirst'
  <2>1. ~perror' /\ (shown' # 0 => acked)
    <3>1. shown # 0 => acked
      BY DEF WindowInv, AckIsFirst
    <3> QED BY <1>1, <1>4, <3>1
  <2> QED BY <1>1, <1>2, <1>3, <2>1 DEF WindowInv, AckIsFirst
<1>7. CallbackInv'
  <2>1. /\ requested \in BOOLEAN /\ waiting \in BOOLEAN
        /\ Count("frame", requests) + Count("done", events) + flags
               = IF pc = "setup" THEN 0 ELSE 1
    <3>1. Callbacks = IF pc = "setup" THEN 0 ELSE 1
      BY DEF WindowInv, CallbackInv
    <3>2. Callbacks = Count("frame", requests) + Count("done", events) + flags
      BY <1>2, <1>3 DEF Callbacks
    <3> QED BY <3>1, <3>2 DEF WindowInv, WindowTypeInv
  <2>2. flags \in {0, 1} /\ (requested => flags = 1) /\ (waiting => flags = 1)
    BY <1>2, <1>3, <2>1
  <2>3. (IF requested' THEN 1 ELSE 0) + (IF waiting' THEN 1 ELSE 0) = flags
    BY <1>1, <2>1, <2>2
  <2> HIDE DEF flags
  <2> QED BY <1>2, <1>3, <2>1, <2>2, <2>3 DEF CallbackInv, Callbacks
<1> QED BY <1>5, <1>6, <1>7 DEF WindowInv

LEMMA ServeFrameKeepsInv ==
    ASSUME WindowInv, ServeFrame
    PROVE  WindowInv'
<1>1. /\ Serve("frame") /\ requested' = TRUE
      /\ UNCHANGED <<events, acked, shown, waiting, perror>>
  BY DEF ServeFrame
<1>2. /\ requests' \in Seq(WindowMessage)
      /\ HasAck(requests) => HasAck(requests')
      /\ AckedBefore(requests', acked)
      /\ Count("frame", requests) = Count("frame", requests') + 1
      /\ Count("frame", requests') \in Nat /\ Count("done", events) \in Nat
      /\ UNCHANGED <<pc, size, window, buffer>>
  <2>1. Served("frame")
    BY <1>1, Serving
  <2> QED BY <2>1 DEF Served
<1>3. CallbackInv'
  <2>1. /\ requested \in BOOLEAN /\ waiting \in BOOLEAN
        /\ Callbacks = IF pc = "setup" THEN 0 ELSE 1
    BY DEF WindowInv, WindowTypeInv, CallbackInv
  <2>2. ~requested
    BY <1>2, <2>1 DEF Callbacks
  <2>3. Callbacks' = Callbacks
    BY <1>1, <1>2, <2>1, <2>2 DEF Callbacks
  <2> QED BY <1>2, <2>1, <2>3 DEF CallbackInv
<1>4. WindowTypeInv'
  BY <1>1, <1>2 DEF WindowInv, WindowTypeInv
<1>5. AckIsFirst'
  BY <1>1, <1>2 DEF WindowInv, AckIsFirst
<1> QED BY <1>3, <1>4, <1>5 DEF WindowInv

LEMMA ServeAckKeepsInv ==
    ASSUME WindowInv, ServeAck
    PROVE  WindowInv'
<1>1. /\ Serve("ack") /\ acked' = TRUE
      /\ UNCHANGED <<events, shown, requested, waiting, perror>>
  BY DEF ServeAck
<1>2. /\ requests' \in Seq(WindowMessage)
      /\ AckedBefore(requests', acked')
      /\ Count("frame", requests) = Count("frame", requests')
      /\ Count("frame", requests') \in Nat
      /\ UNCHANGED <<pc, size, window, buffer>>
  <2>1. Served("ack")
    BY <1>1, Serving
  <2>2. AckedBefore(requests', acked')
    BY <1>1 DEF AckedBefore
  <2> QED BY <2>1, <2>2 DEF Served
<1>3. CallbackInv'
  BY <1>1, <1>2 DEF WindowInv, CallbackInv, Callbacks
<1>4. WindowTypeInv'
  BY <1>1, <1>2 DEF WindowInv, WindowTypeInv
<1>5. AckIsFirst'
  BY <1>1, <1>2 DEF WindowInv, AckIsFirst
<1> QED BY <1>3, <1>4, <1>5 DEF WindowInv

LEMMA ServePongKeepsInv ==
    ASSUME WindowInv, ServePong
    PROVE  WindowInv'
<1>1. /\ Serve("pong")
      /\ UNCHANGED <<events, acked, shown, requested, waiting, perror>>
  BY DEF ServePong
<1>2. /\ requests' \in Seq(WindowMessage)
      /\ HasAck(requests) => HasAck(requests')
      /\ AckedBefore(requests', acked)
      /\ Count("frame", requests) = Count("frame", requests')
      /\ Count("frame", requests') \in Nat
      /\ UNCHANGED <<pc, size, window, buffer>>
  <2>1. Served("pong")
    BY <1>1, Serving
  <2> QED BY <2>1 DEF Served
<1>3. CallbackInv'
  BY <1>1, <1>2 DEF WindowInv, CallbackInv, Callbacks
<1>4. WindowTypeInv'
  BY <1>1, <1>2 DEF WindowInv, WindowTypeInv
<1>5. AckIsFirst'
  BY <1>1, <1>2 DEF WindowInv, AckIsFirst
<1> QED BY <1>3, <1>4, <1>5 DEF WindowInv

\* The world: an event that is no frame callback, or none at all.
LEMMA WorldKeepsInv ==
    ASSUME WindowInv, World
    PROVE  WindowInv'
<1> DEFINE Kept == UNCHANGED <<pc, size, window, buffer, requests, shown, acked, requested,
                               waiting, perror>>
           Harmless == /\ events' \in Seq(WindowEvent)
                       /\ \A i \in DOMAIN events' : events'[i].type = "done" => acked
                       /\ Count("done", events') = Count("done", events)
<1>1. ASSUME Kept, Harmless
      PROVE  WindowInv'
  <2>1. CallbackInv'
    BY <1>1 DEF WindowInv, CallbackInv, Callbacks
  <2> QED
    BY <1>1, <2>1, ProgramKeepsInv DEF WindowInv, WindowTypeInv, AckIsFirst
<1>2. ASSUME NEW kind \in {"ping", "close"}, events' = Append(events, Event(kind))
      PROVE  Harmless
  <2>1. Event(kind) \in WindowEvent /\ Event(kind).type = kind
    BY DEF Event, WindowEvent
  <2>2. events \in Seq(WindowEvent) /\ \A i \in DOMAIN events : events[i].type = "done" => acked
    BY DEF WindowInv, WindowTypeInv, AckIsFirst
  <2>3. /\ events' \in Seq(WindowEvent)
        /\ \A i \in DOMAIN events' :
               events'[i] = Event(kind) \/ \E j \in DOMAIN events : events'[i] = events[j]
        /\ Count("done", events') = Count("done", events)
    <3>1. Event(kind).type # "done"
      BY <2>1
    <3>2. Count("done", events) \in Nat
      BY <2>2, CountType
    <3>3. Tells(events, Event(kind), events')
      BY <1>2, <2>1, <2>2, Telling
    <3> QED BY <3>1, <3>2, <3>3 DEF Tells
  <2> QED BY <2>1, <2>2, <2>3
<1>3. UNCHANGED events => Harmless
  BY DEF WindowInv, WindowTypeInv, AckIsFirst
<1>4. CASE Signal \/ Toggle
  <2>1. Kept /\ UNCHANGED events
    BY <1>4 DEF Signal, Toggle, Quiet, mainVars, drawVars, wireVars, compVars
  <2> HIDE DEF Kept, Harmless
  <2> QED BY <1>1, <1>3, <2>1
<1>5. ASSUME NEW w \in Sizes \cup {0}, Resize(w)
      PROVE  WindowInv'
  <2>1. Kept /\ events' = events \o Configure(w)
    BY <1>5 DEF Resize, Quiet, mainVars, drawVars
  <2>2. Harmless
    BY <2>1, Configuring
  <2> HIDE DEF Kept, Harmless
  <2> QED BY <1>1, <2>1, <2>2
<1>6. CASE SendPing
  <2>1. Kept /\ events' = Append(events, Event("ping"))
    BY <1>6 DEF SendPing, Quiet, mainVars, drawVars
  <2> HIDE DEF Kept, Harmless
  <2> QED BY <1>1, <1>2, <2>1
<1>7. CASE SendClose
  <2>1. Kept /\ events' = Append(events, Event("close"))
    BY <1>7 DEF SendClose, Quiet, mainVars, drawVars
  <2> HIDE DEF Kept, Harmless
  <2> QED BY <1>1, <1>2, <2>1
<1> QED BY <1>4, <1>5, <1>6, <1>7 DEF World

LEMMA DrawFrameKeepsInv ==
    ASSUME WindowInv, DrawFrame
    PROVE  WindowInv'
<1>1. /\ shown # 0 /\ waiting' = FALSE
      /\ events' = IF waiting THEN Append(events, Event("done")) ELSE events
      /\ UNCHANGED <<pc, size, window, buffer, requests, shown, acked, requested, perror>>
  BY DEF DrawFrame, Quiet, mainVars, drawVars
<1>2. /\ acked /\ events \in Seq(WindowEvent) /\ waiting \in BOOLEAN
      /\ requests \in Seq(WindowMessage)
  BY <1>1 DEF WindowInv, WindowTypeInv, AckIsFirst
<1>3. Count("done", events) \in Nat /\ Count("frame", requests) \in Nat
  BY <1>2, CountType
<1>4. /\ events' \in Seq(WindowEvent)
      /\ Count("done", events') = Count("done", events) + (IF waiting THEN 1 ELSE 0)
  <2>1. CASE waiting
    <3>1. Event("done") \in WindowEvent /\ Event("done").type = "done"
      BY DEF Event, WindowEvent
    <3>2. events' = Append(events, Event("done"))
      BY <1>1, <2>1
    <3>3. Tells(events, Event("done"), events')
      BY <1>2, <3>1, <3>2, Telling
    <3> QED BY <2>1, <3>1, <3>3 DEF Tells
  <2>2. CASE ~waiting
    BY <1>1, <1>2, <1>3, <2>2
  <2> QED BY <2>1, <2>2
<1>5. CallbackInv'
  BY <1>1, <1>2, <1>3, <1>4 DEF WindowInv, CallbackInv, Callbacks
<1>6. WindowTypeInv' /\ AckIsFirst'
  BY <1>1, <1>2, <1>4 DEF WindowInv, WindowTypeInv, AckIsFirst
<1> QED BY <1>5, <1>6 DEF WindowInv

-----------------------------------------------------------------------------
LEMMA WindowInvInit == WindowInit => WindowInv
<1> SUFFICES ASSUME WindowInit
             PROVE  WindowInv
  OBVIOUS
<1>1. WindowTypeInv /\ AckIsFirst
  <2>1. requests = <<>> /\ events = <<>> /\ DOMAIN requests = {} /\ DOMAIN events = {}
    BY DEF WindowInit
  <2>2. requests \in Seq(WindowMessage) /\ events \in Seq(WindowEvent)
    BY <2>1
  <2>3. WindowTypeInv
    BY <2>2, SizeAssumption DEF WindowInit, WindowTypeInv
  <2>4. AckIsFirst
    BY <2>1 DEF WindowInit, AckIsFirst, AckedBefore
  <2> QED BY <2>3, <2>4
<1>2. Count("frame", requests) = 0 /\ Count("done", events) = 0
  <2>1. requests = <<>> /\ events = <<>>
    BY DEF WindowInit
  <2>2. \A type : {i \in DOMAIN << >> : << >>[i].type = type} = {}
    OBVIOUS
  <2> QED BY <2>1, <2>2, FS_EmptySet DEF Count
<1>3. CallbackInv
  BY <1>2 DEF CallbackInv, Callbacks, WindowInit
<1> QED BY <1>1, <1>3 DEF WindowInv

LEMMA WindowInvHolds == WindowSpec => []WindowInv
<1>1. WindowInv /\ [WindowNext]_windowVars => WindowInv'
  <2> SUFFICES ASSUME WindowInv, [WindowNext]_windowVars
               PROVE  WindowInv'
    OBVIOUS
  <2>1. CASE Setup
    BY <2>1, SetupKeepsInv
  <2>2. CASE ToplevelConfigure
    BY <2>2, ToplevelConfigureKeepsInv
  <2>3. CASE SurfaceConfigure
    <3>1. /\ Handle("configure") /\ Ask(<<Request("ack")>>)
          /\ pc' = "drawing for configure" /\ UNCHANGED drawVars
          /\ "configure" # "done" /\ "ack" # "frame" /\ "ack" \in {"frame", "ack", "pong"}
      BY <2>3 DEF SurfaceConfigure
    <3> QED BY <3>1, AnswerKeepsInv
  <2>4. CASE FrameDone
    <3>1. /\ Handle("done") /\ Ask(<<Request("frame")>>)
          /\ pc' = "drawing" /\ UNCHANGED drawVars
      BY <2>4 DEF FrameDone
    <3> QED BY <3>1, AnswerKeepsInv
  <2>5. CASE Ping
    <3>1. /\ Handle("ping") /\ Ask(<<Request("pong")>>)
          /\ UNCHANGED pc /\ UNCHANGED drawVars
      BY <2>5 DEF Ping
    <3>2. pc' = "loop"
      BY <3>1, Handling
    <3> QED BY <3>1, <3>2, AnswerKeepsInv
  <2>6. CASE Close
    BY <2>6, CloseKeepsInv
  <2>7. CASE Swap
    BY <2>7, SwapKeepsInv
  <2>8. CASE Stop
    BY <2>8, StopKeepsInv
  <2>9. CASE Server
    BY <2>9, ServeCommitKeepsInv, ServeFrameKeepsInv, ServeAckKeepsInv, ServePongKeepsInv
    DEF Server
  <2>10. CASE DrawFrame
    BY <2>10, DrawFrameKeepsInv
  <2>11. CASE World
    BY <2>11, WorldKeepsInv
  <2>12. CASE UNCHANGED windowVars
    BY <2>12
    DEF windowVars, mainVars, drawVars, wireVars, compVars, WindowInv, WindowTypeInv,
        AckIsFirst, CallbackInv, Callbacks
  <2> QED
    BY <2>1, <2>2, <2>3, <2>4, <2>5, <2>6, <2>7, <2>8, <2>9, <2>10, <2>11, <2>12
    DEF WindowNext, Program
<1> QED BY <1>1, WindowInvInit, PTL DEF WindowSpec

\* No picture is sent before the compositor has configured the window and the
\* program has acknowledged that, whatever sizes come and however late.
THEOREM PicturesAreAcknowledged == WindowSpec => []NoPictureBeforeAck
<1>1. WindowInv => NoPictureBeforeAck
  BY DEF WindowInv, AckIsFirst, NoPictureBeforeAck
<1> QED BY <1>1, WindowInvHolds, PTL

\* There is one frame callback from the first request on, so that the frame
\* loop neither stops nor doubles.
THEOREM OneCallbackAtATime == WindowSpec => []OneCallback
<1>1. WindowInv => OneCallback
  BY DEF WindowInv, CallbackInv, Callbacks, OneCallback
<1> QED BY <1>1, WindowInvHolds, PTL

-----------------------------------------------------------------------------
(* The pointer and the camera *)

YawLow == YawDefault - YawRange
YawHigh == YawDefault + YawRange

TargetWithinLimits ==
    /\ cam_yaw_target \in YawLow..YawHigh
    /\ cam_pitch_target \in (-PitchRange)..PitchRange

\* A motion that is kept for its frame has a position, and so has an anchor.
PositionsKnown ==
    /\ "motion" \in event.mask => event.x \in Position /\ event.y \in Position
    /\ pointer_valid => last_pointer_x \in Position /\ last_pointer_y \in Position

PointerInv ==
    /\ PointerTypeOK
    /\ TargetWithinLimits
    /\ ViewWithinLimits
    /\ UnanchoredAtHome
    /\ PositionsKnown

-----------------------------------------------------------------------------
LEMMA ClampBounds ==
    ASSUME NEW angle \in Int, NEW low \in Int, NEW high \in Int, low <= high
    PROVE  Clamp(angle, low, high) \in low..high
  BY DEF Clamp

LEMMA TowardsBetween ==
    ASSUME NEW low \in Int, NEW high \in Int, NEW from \in low..high, NEW to \in low..high
    PROVE  Towards(from, to) \subseteq low..high
  BY DEF Towards

\* Whatever is turned, the target stays within the limits, and at home if
\* nothing may turn it.
LEMMA TurnBounds ==
    ASSUME PointerInv, NEW x \in Int, NEW y \in Int, Turn(x, y)
    PROVE  /\ TargetWithinLimits'
           /\ (Stationary => cam_yaw_target' = YawDefault /\ cam_pitch_target' = 0)
<1>1. CASE pointer_valid /\ ~Stationary
  <2>1. /\ cam_yaw_target + (x - last_pointer_x) \in Int
        /\ cam_pitch_target - (y - last_pointer_y) \in Int
    BY CameraAssumption DEF PointerInv, PointerTypeOK, Coordinate
  <2>2. /\ YawLow \in Int /\ YawHigh \in Int /\ YawLow <= YawHigh
        /\ -PitchRange \in Int /\ PitchRange \in Int /\ -PitchRange <= PitchRange
    BY CameraAssumption DEF YawLow, YawHigh
  <2>3. /\ cam_yaw_target' = Clamp(cam_yaw_target + (x - last_pointer_x), YawLow, YawHigh)
        /\ cam_pitch_target' = Clamp(cam_pitch_target - (y - last_pointer_y),
                                     -PitchRange, PitchRange)
    BY <1>1 DEF Turn, YawLow, YawHigh
  <2> QED BY <1>1, <2>1, <2>2, <2>3, ClampBounds DEF TargetWithinLimits
<1>2. CASE ~(pointer_valid /\ ~Stationary)
  BY <1>2 DEF Turn, targetVars, PointerInv, TargetWithinLimits, UnanchoredAtHome
<1> QED BY <1>1, <1>2

-----------------------------------------------------------------------------
LEMMA HomeWithinLimits ==
    /\ YawDefault \in Int /\ YawDefault \in YawLow..YawHigh
    /\ 0 \in (-PitchRange)..PitchRange
  BY CameraAssumption DEF YawLow, YawHigh

LEMMA PointerInvInit == PointerInit => PointerInv
<1> SUFFICES ASSUME PointerInit
             PROVE  PointerInv
  OBVIOUS
<1>1. PointerTypeOK
  <2>1. 0 \in Coordinate /\ {} \in SUBSET Kind
    BY DEF Coordinate
  <2>2. event \in [mask : SUBSET Kind, x : Coordinate, y : Coordinate]
    BY <2>1 DEF PointerInit, NoEvent
  <2>3. last_pointer_x \in Coordinate /\ last_pointer_y \in Coordinate
    BY <2>1 DEF PointerInit
  <2>4. /\ cam_yaw_target \in Int /\ cam_pitch_target \in Int
        /\ cam_yaw \in Int /\ cam_pitch \in Int
    BY CameraAssumption DEF PointerInit
  <2>5. pointer_valid \in BOOLEAN /\ inside \in BOOLEAN
    BY DEF PointerInit
  <2> QED BY <2>2, <2>3, <2>4, <2>5 DEF PointerTypeOK
<1>2. TargetWithinLimits /\ ViewWithinLimits
  BY HomeWithinLimits
  DEF PointerInit, TargetWithinLimits, ViewWithinLimits, YawLow, YawHigh
<1>3. UnanchoredAtHome /\ PositionsKnown
  BY DEF PointerInit, UnanchoredAtHome, PositionsKnown, NoEvent
<1> QED BY <1>1, <1>2, <1>3 DEF PointerInv

\* What every handler that collects does, for the kind of event it is.
LEMMA CollectKeeps ==
    ASSUME PointerInv, NEW kind \in Kind, NEW x \in Position, NEW y \in Position,
           \/ MarkAt(kind, x, y)
           \/ kind # "motion" /\ Mark(kind),
           inside' \in BOOLEAN,
           UNCHANGED <<anchorVars, targetVars, cameraVars>>
    PROVE  PointerInv'
<1>1. UNCHANGED <<last_pointer_x, last_pointer_y, pointer_valid, cam_yaw_target,
                  cam_pitch_target, cam_yaw, cam_pitch>>
  BY DEF anchorVars, targetVars, cameraVars
<1>2. /\ event' \in [mask : SUBSET Kind, x : Coordinate, y : Coordinate]
      /\ "motion" \in event'.mask => event'.x \in Position /\ event'.y \in Position
  BY DEF PointerInv, PointerTypeOK, PositionsKnown, MarkAt, Mark, Coordinate
<1> QED
  BY <1>1, <1>2
  DEF PointerInv, PointerTypeOK, TargetWithinLimits, ViewWithinLimits, UnanchoredAtHome,
      PositionsKnown

LEMMA FrameKeepsInv ==
    ASSUME PointerInv, Frame
    PROVE  PointerInv'
<1>1. CASE "motion" \in event.mask
  <2>1. /\ Turn(event.x, event.y)
        /\ last_pointer_x' = event.x /\ last_pointer_y' = event.y
        /\ pointer_valid' = TRUE
        /\ event' = NoEvent /\ UNCHANGED <<cam_yaw, cam_pitch, inside>>
    BY <1>1 DEF Frame, cameraVars
  <2>2. event.x \in Position /\ event.y \in Position
    BY <1>1 DEF PointerInv, PositionsKnown
  <2>3. /\ TargetWithinLimits'
        /\ (Stationary => cam_yaw_target' = YawDefault /\ cam_pitch_target' = 0)
    BY <2>1, <2>2, TurnBounds, CameraAssumption
  <2>4. PointerTypeOK'
    BY <2>1, <2>2, <2>3, CameraAssumption
    DEF PointerInv, PointerTypeOK, TargetWithinLimits, YawLow, YawHigh, NoEvent, Coordinate
  <2> QED
    BY <2>1, <2>2, <2>3, <2>4
    DEF PointerInv, ViewWithinLimits, UnanchoredAtHome, PositionsKnown, NoEvent
<1>2. CASE "motion" \notin event.mask
  <2>1. /\ event' = NoEvent
        /\ UNCHANGED <<last_pointer_x, last_pointer_y, pointer_valid, cam_yaw_target,
                       cam_pitch_target, cam_yaw, cam_pitch, inside>>
    BY <1>2 DEF Frame, cameraVars, anchorVars, targetVars
  <2> QED
    BY <2>1
    DEF PointerInv, PointerTypeOK, TargetWithinLimits, ViewWithinLimits, UnanchoredAtHome,
        PositionsKnown, NoEvent, Coordinate, Kind
<1> QED BY <1>1, <1>2

LEMMA PointerInvNext ==
    ASSUME PointerInv, [PointerNext]_pointerVars
    PROVE  PointerInv'
<1>1. ASSUME NEW x \in Position, NEW y \in Position, Enter(x, y) PROVE PointerInv'
  BY <1>1, CollectKeeps DEF Enter, Kind
<1>2. ASSUME NEW x \in Position, NEW y \in Position, Motion(x, y) PROVE PointerInv'
  BY <1>2, CollectKeeps DEF Motion, Kind, PointerInv, PointerTypeOK
<1>3. CASE Leave \/ Logged
  <2>1. UNCHANGED <<last_pointer_x, last_pointer_y, pointer_valid, cam_yaw_target,
                    cam_pitch_target, cam_yaw, cam_pitch>>
    BY <1>3 DEF Leave, Logged, anchorVars, targetVars, cameraVars
  <2>2. PICK kind \in {"leave", "logged"} : Mark(kind)
    BY <1>3 DEF Leave, Logged
  <2>3. inside' \in BOOLEAN
    BY <1>3 DEF Leave, Logged, PointerInv, PointerTypeOK
  <2>4. /\ event' \in [mask : SUBSET Kind, x : Coordinate, y : Coordinate]
        /\ "motion" \in event'.mask => event'.x \in Position /\ event'.y \in Position
    BY <2>2 DEF PointerInv, PointerTypeOK, PositionsKnown, Mark, Kind
  <2> QED
    BY <2>1, <2>3, <2>4
    DEF PointerInv, PointerTypeOK, TargetWithinLimits, ViewWithinLimits, UnanchoredAtHome,
        PositionsKnown
<1>4. CASE Frame
  BY <1>4, FrameKeepsInv
<1>5. CASE PressAnyKey
  <2>1. /\ cam_yaw_target' = YawDefault /\ cam_pitch_target' = 0 /\ pointer_valid' = FALSE
        /\ UNCHANGED <<event, last_pointer_x, last_pointer_y, cam_yaw, cam_pitch, inside>>
    BY <1>5 DEF PressAnyKey, cameraVars
  <2>2. PointerTypeOK'
    <3>1. event' = event /\ last_pointer_x' = last_pointer_x /\ last_pointer_y' = last_pointer_y
      BY <2>1
    <3>2. cam_yaw_target' \in Int /\ cam_pitch_target' \in Int
      BY <2>1, CameraAssumption
    <3>3. pointer_valid' \in BOOLEAN /\ UNCHANGED <<inside, cam_yaw, cam_pitch>>
      BY <2>1
    <3> QED BY <3>1, <3>2, <3>3 DEF PointerInv, PointerTypeOK
  <2>3. TargetWithinLimits'
    BY <2>1, HomeWithinLimits DEF TargetWithinLimits, YawLow, YawHigh
  <2> QED
    BY <2>1, <2>2, <2>3
    DEF PointerInv, ViewWithinLimits, UnanchoredAtHome, PositionsKnown
<1>6. CASE Smooth
  <2>1. UNCHANGED <<event, last_pointer_x, last_pointer_y, pointer_valid, cam_yaw_target,
                    cam_pitch_target, inside>>
    BY <1>6 DEF Smooth, anchorVars, targetVars
  <2>2. cam_yaw' \in YawLow..YawHigh /\ cam_pitch' \in (-PitchRange)..PitchRange
    <3>1. /\ cam_yaw \in YawLow..YawHigh /\ cam_yaw_target \in YawLow..YawHigh
          /\ cam_pitch \in (-PitchRange)..PitchRange
          /\ cam_pitch_target \in (-PitchRange)..PitchRange
      BY DEF PointerInv, ViewWithinLimits, TargetWithinLimits, YawLow, YawHigh
    <3>2. YawLow \in Int /\ YawHigh \in Int /\ -PitchRange \in Int /\ PitchRange \in Int
      BY CameraAssumption DEF YawLow, YawHigh
    <3> QED BY <1>6, <3>1, <3>2, TowardsBetween DEF Smooth
  <2> QED
    BY <2>1, <2>2, CameraAssumption
    DEF PointerInv, PointerTypeOK, TargetWithinLimits, ViewWithinLimits, UnanchoredAtHome,
        PositionsKnown, YawLow, YawHigh
<1>7. CASE UNCHANGED pointerVars
  BY <1>7
  DEF pointerVars, anchorVars, targetVars, cameraVars, PointerInv, PointerTypeOK,
      TargetWithinLimits, ViewWithinLimits, UnanchoredAtHome, PositionsKnown
<1> QED BY <1>1, <1>2, <1>3, <1>4, <1>5, <1>6, <1>7 DEF PointerNext

LEMMA PointerInvariant == PointerSpec => []PointerInv
<1>1. PointerInit => PointerInv
  BY PointerInvInit
<1>2. PointerInv /\ [PointerNext]_pointerVars => PointerInv'
  BY PointerInvNext
<1> QED BY <1>1, <1>2, PTL DEF PointerSpec

\* Positions and flags have their types, for any set of positions.
THEOREM PointerTypeCorrect == PointerSpec => []PointerTypeOK
<1>1. PointerInv => PointerTypeOK
  BY DEF PointerInv
<1> QED BY <1>1, PointerInvariant, PTL

\* The view never turns further than the limits (pointer.h 122-127,
\* wl_callback_listener.h 49-52), whatever they are.
THEOREM ViewLimited == PointerSpec => []ViewWithinLimits
<1>1. PointerInv => ViewWithinLimits
  BY DEF PointerInv
<1> QED BY <1>1, PointerInvariant, PTL

\* A view that a key has taken back stays so until the pointer has an anchor
\* again (keyboard.h 53-58, pointer.h 113-131).
THEOREM KeyTakesViewBack == PointerSpec => []UnanchoredAtHome
<1>1. PointerInv => UnanchoredAtHome
  BY DEF PointerInv
<1> QED BY <1>1, PointerInvariant, PTL

-----------------------------------------------------------------------------
(* The refinement *)

AnchorOf(valid, x, y) == IF valid THEN <<x, y>> ELSE <<>>

LEMMA FrameIsDrag ==
    ASSUME PointerInv, Frame
    PROVE  [Orbit!OrbitNext]_(Orbit!view)
<1>1. CASE "motion" \in event.mask
  <2>1. /\ Turn(event.x, event.y)
        /\ last_pointer_x' = event.x /\ last_pointer_y' = event.y
        /\ pointer_valid' = TRUE
    BY <1>1 DEF Frame
  <2>2. event.x \in Position /\ event.y \in Position
    BY <1>1 DEF PointerInv, PositionsKnown
  <2>3. pointer_valid \in BOOLEAN
    BY DEF PointerInv, PointerTypeOK
  <2>4. CASE pointer_valid
    <3>1. <<last_pointer_x, last_pointer_y>> # <<>>
      OBVIOUS
    <3>2. Orbit!Drag(event.x, event.y)
      BY <2>1, <2>4, <3>1
      DEF Orbit!Drag, Turn, Clamp, Orbit!Clamp, Orbit!ClampYaw, Orbit!ClampPitch, targetVars
    <3> QED BY <2>2, <3>2 DEF Orbit!OrbitNext
  <2>5. CASE ~pointer_valid
    <3>1. Orbit!Drag(event.x, event.y)
      BY <2>1, <2>5 DEF Orbit!Drag, Turn, targetVars
    <3> QED BY <2>2, <3>1 DEF Orbit!OrbitNext
  <2> QED BY <2>3, <2>4, <2>5
<1>2. CASE "motion" \notin event.mask
  BY <1>2 DEF Frame, anchorVars, targetVars, Orbit!view
<1> QED BY <1>1, <1>2

LEMMA PointerStepSimulates ==
    ASSUME PointerInv, [PointerNext]_pointerVars
    PROVE  [Orbit!OrbitNext]_(Orbit!view)
<1>1. CASE Frame
  BY <1>1, FrameIsDrag
<1>2. CASE PressAnyKey
  BY <1>2 DEF PressAnyKey, Orbit!OrbitNext, Orbit!GoHome, Orbit!Home
<1>3. ASSUME UNCHANGED <<anchorVars, targetVars>>
      PROVE  UNCHANGED Orbit!view
  BY <1>3 DEF anchorVars, targetVars, Orbit!view
<1>4. CASE (\E x, y \in Position : Enter(x, y) \/ Motion(x, y)) \/ Leave \/ Logged \/ Smooth
  BY <1>3, <1>4 DEF Enter, Motion, Leave, Logged, Smooth
<1>5. CASE UNCHANGED pointerVars
  BY <1>3, <1>5 DEF pointerVars
<1> QED BY <1>1, <1>2, <1>4, <1>5 DEF PointerNext

\* The handlers implement the view that is dragged and taken back: events of
\* one group are one drag, however they come and whatever comes in between
\* (pointer.h 29-165).
THEOREM ImplementsOrbitCamera == PointerSpec => OrbitCameraSpec
<1>1. PointerInit => Orbit!Home
  BY DEF PointerInit, Orbit!Home
<1>2. PointerInv /\ [PointerNext]_pointerVars => [Orbit!OrbitNext]_(Orbit!view)
  BY PointerStepSimulates
<1> QED BY <1>1, <1>2, PointerInvariant, PTL DEF PointerSpec, OrbitCameraSpec, Orbit!OrbitSpec
=============================================================================
