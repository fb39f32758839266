---------------------------- MODULE EvaLockOrder ----------------------------
(***************************************************************************)
(* What rests on the order of the queues, for any monitors, any timing and *)
(* any password buffer: how the program ends, that it keeps to the         *)
(* session-lock protocol, that its surfaces get shown, and that its frame  *)
(* callback is carried on.                                                 *)
(*                                                                         *)
(* A roundtrip's sync is alone and comes after the unlock whose end it     *)
(* stands for; a revocation comes after locked; a monitor is announced     *)
(* once; a surface is acknowledged before it is committed.                 *)
(***************************************************************************)
EXTENDS EvaLockProofs

\* In q, no message of a type in A comes after one of a type in B.
InOrder(q, A, B) ==
    \A i, j \in 1..Len(q) : q[i].type \in A /\ q[j].type \in B => i <= j

\* A roundtrip has one sync request or one done event on its way, and none
\* once it is over.
OneRoundtrip ==
    conn = "up" =>
        /\ InOrder(requests, {"sync"}, {"sync"})
        /\ InOrder(events, {"done"}, {"done"})
        /\ ~(Requested("sync") /\ Queued("done"))
        /\ synced \/ pc \in {"running", "teardown"} => ~Requested("sync") /\ ~Queued("done")

\* While main() waits for the unlock, the unlock is done or still ahead of
\* the sync that main() waits for.
UnlockOnItsWay ==
    pc = "unlocking" /\ conn = "up" =>
        \/ lock_state = "unlocked"
        \/ /\ lock_state = "locked" /\ ~synced /\ ~Queued("done")
           /\ Requested("unlock_and_destroy")
           /\ InOrder(requests, {"unlock_and_destroy"}, {"sync"})

\* Until main() unlocks the session, the client believes in its lock.
LockHeld == pc \in {"locking", "running"} /\ locked => session_locked

\* The session is not locked and will not be.
LockSettled == lock_state \notin {"pending", "locked"} /\ ~Requested("lock")

\* Why main() has closed, left its loop, or exited.
EndedForCause ==
    /\ closed /\ pc \in {"locking", "running"} => revoked \/ LockSettled
    /\ pc = "teardown" /\ conn = "up" => g_should_exit \/ revoked \/ LockSettled
    /\ pc = "exited" /\ conn = "closed" => g_should_exit \/ revoked \/ LockSettled
    /\ pc # "exited" => conn # "closed"

EndInv == OneRoundtrip /\ UnlockOnItsWay /\ LockHeld /\ EndedForCause /\ UnlockConfirmed

-----------------------------------------------------------------------------
(* Queues *)

LEMMA TailInOrder ==
    ASSUME NEW S, NEW q \in Seq(S), q # <<>>, NEW A, NEW B, InOrder(q, A, B)
    PROVE  /\ InOrder(Tail(q), A, B)
           /\ Head(q).type \in B => \A r \in Range(Tail(q)) : r.type \notin A
<1>1. Len(Tail(q)) = Len(q) - 1 /\ \A i \in 1..Len(Tail(q)) : Tail(q)[i] = q[i + 1]
  BY HeadTailProperties
<1>2. Len(q) \in Nat /\ Len(q) > 0 /\ Head(q) = q[1]
  BY HeadTailProperties, EmptySeq
<1>3. InOrder(Tail(q), A, B)
  <2> SUFFICES ASSUME NEW i \in 1..Len(Tail(q)), NEW j \in 1..Len(Tail(q)),
                      Tail(q)[i].type \in A, Tail(q)[j].type \in B
               PROVE  i <= j
    BY DEF InOrder
  <2>1. i + 1 \in 1..Len(q) /\ j + 1 \in 1..Len(q)
    BY <1>1, <1>2
  <2>2. q[i + 1].type \in A /\ q[j + 1].type \in B
    BY <1>1
  <2>3. i + 1 <= j + 1
    BY <2>1, <2>2 DEF InOrder
  <2> QED BY <2>3
<1>4. ASSUME Head(q).type \in B, NEW r \in Range(Tail(q)), r.type \in A
      PROVE  FALSE
  <2>1. PICK i \in 1..Len(Tail(q)) : r = Tail(q)[i]
    BY <1>4, TailRange DEF Range
  <2>2. i + 1 \in 1..Len(q) /\ 1 \in 1..Len(q) /\ ~(i + 1 <= 1)
    BY <1>1, <1>2
  <2>3. q[i + 1].type \in A /\ q[1].type \in B
    BY <1>1, <1>2, <1>4, <2>1
  <2> QED BY <2>2, <2>3 DEF InOrder
<1> QED BY <1>3, <1>4

\* A message stays until it is at the head.
LEMMA TailKeeps ==
    ASSUME NEW S, NEW q \in Seq(S), q # <<>>, NEW type, Head(q).type # type,
           \E r \in Range(q) : r.type = type
    PROVE  \E r \in Range(Tail(q)) : r.type = type
<1>1. PICK k \in 1..Len(q) : q[k].type = type
  BY DEF Range
<1>2. /\ Len(q) \in Nat /\ Head(q) = q[1] /\ Len(Tail(q)) = Len(q) - 1
      /\ \A i \in 1..Len(Tail(q)) : Tail(q)[i] = q[i + 1]
  BY HeadTailProperties
<1>3. k # 1
  BY <1>1, <1>2
<1>4. k - 1 \in 1..Len(Tail(q)) /\ (k - 1) + 1 = k
  BY <1>2, <1>3
<1>5. Tail(q)[k - 1] = q[k]
  BY <1>2, <1>4
<1>6. DOMAIN Tail(q) = 1..Len(Tail(q))
  BY TailRange
<1> QED BY <1>1, <1>4, <1>5, <1>6 DEF Range

LEMMA ConcatInOrder ==
    ASSUME NEW S, NEW q \in Seq(S), NEW m \in Seq(S), NEW A, NEW B,
           InOrder(q, A, B), InOrder(m, A, B),
           \/ \A r \in Range(q) : r.type \notin B
           \/ \A r \in Range(m) : r.type \notin A
    PROVE  InOrder(q \o m, A, B)
<1> SUFFICES ASSUME NEW i \in 1..Len(q \o m), NEW j \in 1..Len(q \o m),
                    (q \o m)[i].type \in A, (q \o m)[j].type \in B
             PROVE  i <= j
  BY DEF InOrder
<1>1. /\ Len(q) \in Nat /\ Len(m) \in Nat /\ Len(q \o m) = Len(q) + Len(m)
      /\ \A k \in 1..Len(q) + Len(m) :
             (q \o m)[k] = IF k <= Len(q) THEN q[k] ELSE m[k - Len(q)]
  BY ConcatProperties, LenProperties
<1>2. /\ \A k \in 1..Len(q) : q[k] \in Range(q)
      /\ \A k \in 1..Len(m) : m[k] \in Range(m)
  BY DEF Range
<1>3. CASE i <= Len(q) /\ j <= Len(q)
  BY <1>1, <1>3 DEF InOrder
<1>4. CASE i > Len(q) /\ j > Len(q)
  <2>1. i - Len(q) \in 1..Len(m) /\ j - Len(q) \in 1..Len(m)
    BY <1>1, <1>4
  <2>2. m[i - Len(q)].type \in A /\ m[j - Len(q)].type \in B
    BY <1>1, <1>4
  <2>3. i - Len(q) <= j - Len(q)
    BY <2>1, <2>2 DEF InOrder
  <2> QED BY <1>1, <2>3
<1>5. CASE i <= Len(q) /\ j > Len(q)
  BY <1>1, <1>5
<1>6. CASE i > Len(q) /\ j <= Len(q)
  <2>1. q[j].type \in B /\ q[j] \in Range(q)
    BY <1>1, <1>2, <1>6
  <2>2. m[i - Len(q)].type \in A /\ m[i - Len(q)] \in Range(m)
    BY <1>1, <1>2, <1>6
  <2> QED BY <2>1, <2>2
<1> QED BY <1>1, <1>3, <1>4, <1>5, <1>6

\* A queue without messages of A, or of B, is in order.
LEMMA NoneInOrder ==
    ASSUME NEW S, NEW q \in Seq(S), NEW A, NEW B,
           \/ \A r \in Range(q) : r.type \notin A
           \/ \A r \in Range(q) : r.type \notin B
    PROVE  InOrder(q, A, B)
<1>1. \A k \in 1..Len(q) : q[k] \in Range(q)
  BY DEF Range
<1> QED BY <1>1 DEF InOrder

-----------------------------------------------------------------------------
\* The requests of a roundtrip and of the lock: none is added, no unlock is
\* taken away, and their order stays.
RequestsKept ==
    /\ Requested("lock")' => Requested("lock")
    /\ Requested("sync")' => Requested("sync")
    /\ Requested("unlock_and_destroy") => Requested("unlock_and_destroy")'
    /\ \A A, B \in {{"sync"}, {"unlock_and_destroy"}} :
           InOrder(requests, A, B) => InOrder(requests', A, B)

\* No end of a roundtrip is added to the events.
EventsKept ==
    /\ Queued("done")' => Queued("done")
    /\ InOrder(events, {"done"}, {"done"}) => InOrder(events', {"done"}, {"done"})

LEMMA SameQueues ==
    /\ UNCHANGED requests => RequestsKept
    /\ UNCHANGED events => EventsKept
BY DEF RequestsKept, EventsKept, Requested, Queued

LEMMA SendKeeps ==
    ASSUME ConnTypeOK, NEW msgs \in Seq(Request), Send(msgs),
           \A r \in Range(msgs) : r.type \notin {"lock", "sync", "unlock_and_destroy"}
    PROVE  RequestsKept
<1>1. CASE conn = "up"
  <2>1. requests' = requests \o msgs /\ requests \in Seq(Request)
    BY <1>1 DEF Send, ConnTypeOK
  <2>2. Range(requests') = Range(requests) \cup Range(msgs)
    BY <2>1, ConcatRange
  <2>3. ASSUME NEW A \in {{"sync"}, {"unlock_and_destroy"}}, NEW B, InOrder(requests, A, B)
        PROVE  InOrder(requests', A, B)
    <3>1. \A r \in Range(msgs) : r.type \notin A
      OBVIOUS
    <3>2. InOrder(msgs, A, B)
      BY <3>1, NoneInOrder
    <3> QED BY <2>1, <2>3, <3>1, <3>2, ConcatInOrder
  <2> QED BY <2>2, <2>3 DEF RequestsKept, Requested
<1>2. CASE conn # "up"
  BY <1>2, SameQueues DEF Send
<1> QED BY <1>1, <1>2

LEMMA ArmFrameKeeps ==
    ASSUME OutputTypeOK, ConnTypeOK, ArmFrame
    PROVE  RequestsKept
<1>1. FrameSurface \in Output \cup {Window, NoSurface} /\ configured \in SUBSET Output
  BY FrameSurfaceKnown
<1>2. Commit(configured, FrameSurface) \in Request
      /\ Commit(configured, FrameSurface).type = "commit"
  BY <1>1, RequestsMade DEF Commit
<1>3. /\ <<Commit(configured, FrameSurface)>> \in Seq(Request)
      /\ \A r \in Range(<<Commit(configured, FrameSurface)>>) :
             r.type \notin {"lock", "sync", "unlock_and_destroy"}
  BY <1>2, SmallRange
<1> QED BY <1>3, SendKeeps DEF ArmFrame

LEMMA ServeKeeps ==
    ASSUME TypeInv, NEW type, Serve(type), type # "unlock_and_destroy"
    PROVE  RequestsKept
<1>1. /\ requests \in Seq(Request) /\ requests # <<>> /\ requests' = Tail(requests)
      /\ Head(requests).type = type
  BY DEF TypeInv, ConnTypeOK, Serve
<1>2. Range(requests') \subseteq Range(requests)
  BY <1>1, TailRange
<1>3. \A A, B : InOrder(requests, A, B) => InOrder(requests', A, B)
  BY <1>1, TailInOrder
<1>4. Requested("unlock_and_destroy") => Requested("unlock_and_destroy")'
  BY <1>1, TailKeeps DEF Requested
<1> QED BY <1>2, <1>3, <1>4 DEF RequestsKept, Requested

LEMMA DispatchKeeps ==
    ASSUME TypeInv, NEW type, Dispatch(type)
    PROVE  EventsKept
<1>1. /\ events \in Seq(Event) /\ events # <<>> /\ events' = Tail(events)
  BY DEF TypeInv, ConnTypeOK, Dispatch
<1>2. InOrder(events, {"done"}, {"done"}) => InOrder(events', {"done"}, {"done"})
  BY <1>1, TailInOrder
<1> QED BY <1>2, DispatchQueued DEF EventsKept

LEMMA EmitKeeps ==
    ASSUME TypeInv, NEW msgs \in Seq(Event), Emit(msgs), \A e \in Range(msgs) : e.type # "done"
    PROVE  EventsKept
<1>1. CASE conn = "up"
  <2>1. events' = events \o msgs /\ events \in Seq(Event)
    BY <1>1 DEF Emit, TypeInv, ConnTypeOK
  <2>2. Range(events') = Range(events) \cup Range(msgs)
    BY <2>1, ConcatRange
  <2>3. InOrder(msgs, {"done"}, {"done"})
    BY NoneInOrder
  <2>4. InOrder(events, {"done"}, {"done"}) => InOrder(events', {"done"}, {"done"})
    BY <2>1, <2>3, ConcatInOrder
  <2> QED BY <2>2, <2>4 DEF EventsKept, Queued
<1>2. CASE conn # "up"
  BY <1>2, SameQueues DEF Emit
<1> QED BY <1>1, <1>2

LEMMA EmitOneKeeps ==
    ASSUME TypeInv, NEW e \in Event, Emit(<<e>>), e.type # "done"
    PROVE  EventsKept
<1>1. <<e>> \in Seq(Event) /\ Range(<<e>>) = {e}
  BY SmallRange
<1> QED BY <1>1, EmitKeeps

-----------------------------------------------------------------------------
(* Handlers *)

\* A handler that does not end a roundtrip.
LEMMA HandlerKeeps ==
    ASSUME TypeInv, LockInv, EndInv, NEW type, Dispatch(type), RequestsKept,
           UNCHANGED <<compVars, synced>>, LockHeld',
           closed' => \/ closed \/ revoked \/ LockSettled
                      \/ pc \notin {"locking", "running"}
    PROVE  EndInv'
<1>1. /\ UNCHANGED <<pc, conn, g_should_exit>>
      /\ pc \in {"connecting", "locking", "running", "unlocking"}
  BY DispatchQueued
<1>2. EventsKept
  BY DispatchKeeps
<1>3. UNCHANGED <<lock_state, revoked>>
  BY DEF compVars
<1>4. OneRoundtrip'
  BY <1>1, <1>2 DEF EndInv, OneRoundtrip, RequestsKept, EventsKept
<1>5. UnlockOnItsWay'
  BY <1>1, <1>2, <1>3 DEF EndInv, UnlockOnItsWay, RequestsKept, EventsKept
<1>6. LockSettled => LockSettled'
  BY <1>3 DEF LockSettled, RequestsKept
<1>7. EndedForCause'
  BY <1>1, <1>3, <1>6 DEF EndInv, EndedForCause
<1>8. UnlockConfirmed'
  BY <1>1 DEF UnlockConfirmed
<1> QED BY <1>4, <1>5, <1>7, <1>8 DEF EndInv

\* The end of a roundtrip: its sync has been served, and all before it.
LEMMA EndSynced ==
    ASSUME TypeInv, LockInv, EndInv, Synced, UNCHANGED compVars
    PROVE  EndInv'
<1>1. /\ Dispatch("done") /\ synced' = TRUE
      /\ UNCHANGED <<requests, lock_object, session_locked, locked, closed>>
      /\ UNCHANGED <<lock_state, revoked>>
  BY DEF Synced, lockVars, compVars
<1>2. /\ UNCHANGED <<pc, conn, g_should_exit>> /\ Queued("done")
      /\ pc \in {"connecting", "locking", "running", "unlocking"}
  BY <1>1, DispatchQueued
<1>3. /\ events \in Seq(Event) /\ events # <<>> /\ events' = Tail(events)
      /\ Head(events).type = "done"
  BY <1>1 DEF Dispatch, TypeInv, ConnTypeOK
<1>4. InOrder(events, {"done"}, {"done"}) =>
          InOrder(events', {"done"}, {"done"}) /\ ~Queued("done")'
  BY <1>3, TailInOrder DEF Queued
<1>5. OneRoundtrip'
  BY <1>1, <1>2, <1>4 DEF EndInv, OneRoundtrip, Requested
<1>6. UnlockOnItsWay'
  BY <1>1, <1>2 DEF EndInv, UnlockOnItsWay
<1>7. LockHeld'
  BY <1>1, <1>2 DEF EndInv, LockHeld
<1>8. EndedForCause'
  BY <1>1, <1>2 DEF EndInv, EndedForCause, LockSettled, Requested
<1>9. UnlockConfirmed'
  BY <1>2 DEF UnlockConfirmed
<1> QED BY <1>5, <1>6, <1>7, <1>8, <1>9 DEF EndInv

\* What handle_finished may conclude: the lock was refused or revoked.
LEMMA EndHandleFinished ==
    ASSUME TypeInv, LockInv, EndInv, HandleFinished, UNCHANGED compVars
    PROVE  EndInv'
<1>1. /\ Dispatch("finished") /\ UNCHANGED <<synced, session_locked, locked>>
      /\ UNCHANGED requests \/ Send(<<Destroy>>)
  BY DEF HandleFinished
<1>2. Queued("finished") /\ UNCHANGED pc
  BY <1>1, DispatchQueued
<1>3. revoked \/ LockSettled
  BY <1>2 DEF LockInv, EventsTrue, AskedOnce, LockSettled
<1>4. RequestsKept
  <2>1. /\ <<Destroy>> \in Seq(Request)
        /\ \A r \in Range(<<Destroy>>) : r.type \notin {"lock", "sync", "unlock_and_destroy"}
    BY RequestsMade, SmallRange DEF Destroy
  <2> QED BY <1>1, <2>1, SameQueues, SendKeeps DEF TypeInv
<1>5. LockHeld'
  BY <1>1, <1>2 DEF EndInv, LockHeld
<1> QED BY <1>1, <1>3, <1>4, <1>5, HandlerKeeps

\* Escape closes an unlocked session only while main() unlocks it: keys come
\* to a locked one before that.
LEMMA EndHandleKey ==
    ASSUME TypeInv, LockInv, EndInv, HandleKey, UNCHANGED compVars
    PROVE  EndInv'
<1>1. Dispatch("key") /\ UNCHANGED <<requests, synced, session_locked, locked>>
  BY DEF HandleKey
<1>2. locked /\ UNCHANGED pc
  BY <1>1, DispatchQueued DEF LockInv, EventsTrue
<1>3. closed' => closed \/ ~session_locked
  <2>1. PICK sym : KeyUnlocked(sym) \/ KeySubmit(sym) \/ KeyEdit(sym)
    BY DEF HandleKey
  <2> QED BY <2>1 DEF KeyUnlocked, KeySubmit, KeyEdit
<1>4. closed' => closed \/ pc \notin {"locking", "running"}
  BY <1>2, <1>3 DEF EndInv, LockHeld
<1>5. LockHeld'
  BY <1>1, <1>2 DEF EndInv, LockHeld
<1> QED BY <1>1, <1>4, <1>5, SameQueues, HandlerKeeps

LEMMA EndHandleEvent ==
    ASSUME TypeInv, LockInv, EndInv, HandleEvent, UNCHANGED compVars
    PROVE  EndInv'
<1>1. CASE Synced
  BY <1>1, EndSynced
<1>2. CASE HandleOther \/ HandleManager \/ HandleGlobal \/ DropStaleEvent
  <2>1. PICK type : Dispatch(type)
    BY <1>2 DEF HandleOther, HandleManager, HandleGlobal, DropStaleEvent
  <2>2. UNCHANGED <<requests, synced, session_locked, locked, closed>>
    BY <1>2 DEF HandleOther, HandleManager, HandleGlobal, DropStaleEvent, lockVars
  <2>3. LockHeld'
    BY <2>1, <2>2, DispatchQueued DEF EndInv, LockHeld
  <2> QED BY <2>1, <2>2, <2>3, SameQueues, HandlerKeeps
<1>3. CASE HandleLocked
  <2> DEFINE msgs == [i \in 1..Len(lock_outputs) |-> GetLockSurface(lock_outputs[i])]
  <2>1. /\ Dispatch("locked") /\ Send(msgs) /\ session_locked' = TRUE
        /\ UNCHANGED <<synced, closed>>
    BY <1>3 DEF HandleLocked
  <2>2. msgs \in Seq(Request)
    BY RequestsMade DEF TypeInv, OutputTypeOK
  <2>3. \A r \in Range(msgs) : r.type \notin {"lock", "sync", "unlock_and_destroy"}
    BY DEF GetLockSurface, Range
  <2> HIDE DEF msgs
  <2>4. RequestsKept
    BY <2>1, <2>2, <2>3, SendKeeps DEF TypeInv
  <2>5. LockHeld'
    BY <2>1 DEF LockHeld
  <2> QED BY <2>1, <2>4, <2>5, HandlerKeeps
<1>4. CASE HandleFinished
  BY <1>4, EndHandleFinished
<1>5. CASE HandleConfigure
  <2> DEFINE o == Head(events).output
             msgs == <<AckConfigure(o), Commit({o}, NoSurface)>>
  <2>1. /\ Dispatch("configure") /\ Send(msgs)
        /\ UNCHANGED <<synced, session_locked, locked, closed>>
    BY <1>5 DEF HandleConfigure, lockVars
  <2>2. o \in Output
    BY <2>1, DispatchFacts, EventFields DEF TypeInv
  <2>3. {AckConfigure(o), Commit({o}, NoSurface)} \subseteq Request
    BY <2>2, RequestsMade
  <2>4. /\ AckConfigure(o).type \notin {"lock", "sync", "unlock_and_destroy"}
        /\ Commit({o}, NoSurface).type \notin {"lock", "sync", "unlock_and_destroy"}
    BY DEF AckConfigure, Commit
  <2>5. /\ msgs \in Seq(Request)
        /\ \A r \in Range(msgs) : r.type \notin {"lock", "sync", "unlock_and_destroy"}
    <3>1. Range(msgs) = {AckConfigure(o), Commit({o}, NoSurface)}
      BY SmallRange
    <3>2. msgs \in Seq(Request)
      BY <2>3
    <3> QED BY <2>4, <3>1, <3>2
  <2> HIDE DEF msgs
  <2>6. RequestsKept
    BY <2>1, <2>5, SendKeeps DEF TypeInv
  <2>7. LockHeld'
    BY <2>1, DispatchQueued DEF EndInv, LockHeld
  <2> QED BY <2>1, <2>6, <2>7, HandlerKeeps
<1>6. CASE HandleFrame
  <2>1. /\ Dispatch("frame") /\ ArmFrame
        /\ UNCHANGED <<synced, session_locked, locked, closed>>
    BY <1>6 DEF HandleFrame, lockVars
  <2>2. RequestsKept
    BY <2>1, ArmFrameKeeps DEF TypeInv
  <2>3. LockHeld'
    BY <2>1, DispatchQueued DEF EndInv, LockHeld
  <2> QED BY <2>1, <2>2, <2>3, HandlerKeeps
<1>7. CASE HandleKey
  BY <1>7, EndHandleKey
<1> QED BY <1>1, <1>2, <1>3, <1>4, <1>5, <1>6, <1>7 DEF HandleEvent

-----------------------------------------------------------------------------
(* main() and the signal handler *)

\* The start of a roundtrip, after a request.
LEMMA SyncSent ==
    ASSUME TypeInv, NEW r \in {Lock, UnlockAndDestroy}, Send(<<r, Sync>>), conn = "up",
           ~Requested("sync")
    PROVE  /\ \A A \in {{"sync"}, {"unlock_and_destroy"}} : InOrder(requests', A, {"sync"})
           /\ \E s \in Range(requests') : s = r
<1>1. /\ requests \in Seq(Request) /\ requests' = requests \o <<r, Sync>>
      /\ <<r, Sync>> \in Seq(Request) /\ Range(<<r, Sync>>) = {r, Sync}
  BY RequestsMade, SmallRange DEF Send, TypeInv, ConnTypeOK
<1>2. Range(requests') = Range(requests) \cup {r, Sync}
  <2>1. \A m \in Seq(Request) : Range(requests \o m) = Range(requests) \cup Range(m)
    BY <1>1, ConcatRange
  <2> QED BY <1>1, <2>1
<1>3. r.type # "sync"
  BY DEF Lock, UnlockAndDestroy
<1>4. \A A \in {{"sync"}, {"unlock_and_destroy"}} : InOrder(<<r, Sync>>, A, {"sync"})
  BY <1>3 DEF InOrder, Sync
<1>5. \A s \in Range(requests) : s.type \notin {"sync"}
  BY DEF Requested
<1>6. ASSUME NEW A \in {{"sync"}, {"unlock_and_destroy"}}
      PROVE  InOrder(requests', A, {"sync"})
  <2>1. InOrder(requests, A, {"sync"})
    BY <1>1, <1>5, NoneInOrder
  <2> QED BY <1>1, <1>4, <1>5, <2>1, ConcatInOrder
<1> QED BY <1>2, <1>6

\* main() exits: nothing about queues matters any more.
LEMMA EndExit ==
    ASSUME TypeInv, LockInv, EndInv, GiveUp \/ LockRefused \/ Teardown, UNCHANGED compVars
    PROVE  EndInv'
<1>1. PICK msgs \in {<<>>, <<UnlockAndDestroy>>, <<Destroy>>} :
          /\ Disconnect(msgs)
          /\ pc \in {"connecting", "locking", "teardown"} /\ pc' = "exited"
          /\ UNCHANGED <<g_should_exit, lock_state, revoked>>
  <2>1. Release \in {<<>>, <<UnlockAndDestroy>>, <<Destroy>>}
    BY DEF Release, TypeInv, LockTypeOK
  <2> QED BY <2>1 DEF GiveUp, LockRefused, Teardown, compVars
<1>2. /\ Send(msgs) /\ conn # "closed" /\ conn' # "up" /\ (conn' = "closed" => conn = "up")
  BY <1>1 DEF Disconnect, EndInv, EndedForCause, TypeInv, ConnTypeOK
<1>3. Requested("lock")' => Requested("lock")
  <2>1. msgs # <<Lock, Sync>>
    BY <1>1
  <2>2. msgs \in Seq(Request) /\ \A r \in Range(msgs) : r.type # "lock"
    BY <1>1, <2>1, LastMessages
  <2>3. Range(requests') \subseteq Range(requests) \cup Range(msgs)
    BY <1>2, <2>2, SendFacts DEF TypeInv
  <2> QED BY <2>2, <2>3 DEF Requested
<1>4. LockSettled => LockSettled'
  BY <1>1, <1>3 DEF LockSettled
<1>5. conn' = "closed" => g_should_exit \/ revoked \/ LockSettled
  <2>1. CASE GiveUp
    BY <2>1 DEF GiveUp, LockInv, NothingYet, LockSettled
  <2>2. CASE LockRefused
    BY <2>2 DEF LockRefused, EndInv, EndedForCause
  <2>3. CASE Teardown
    BY <1>2, <2>3 DEF Teardown, EndInv, EndedForCause
  <2> QED BY <2>1, <2>2, <2>3
<1>6. OneRoundtrip' /\ UnlockOnItsWay' /\ LockHeld' /\ UnlockConfirmed'
  BY <1>1, <1>2 DEF OneRoundtrip, UnlockOnItsWay, LockHeld, UnlockConfirmed
<1>7. EndedForCause'
  BY <1>1, <1>4, <1>5 DEF EndedForCause
<1> QED BY <1>6, <1>7 DEF EndInv

LEMMA EndRequestLock ==
    ASSUME TypeInv, LockInv, EndInv, RequestLock, UNCHANGED compVars
    PROVE  EndInv'
<1>1. /\ pc = "connecting" /\ pc' = "locking" /\ synced' = FALSE /\ Send(<<Lock, Sync>>)
      /\ synced \/ conn = "dead"
      /\ UNCHANGED <<events, conn, locked, closed>>
  BY DEF RequestLock, RoundtripOver
<1>2. ~locked /\ ~closed /\ conn # "closed"
  BY <1>1 DEF LockInv, NothingYet, EndInv, EndedForCause
<1>3. OneRoundtrip'
  <2> SUFFICES ASSUME conn = "up"
               PROVE  /\ InOrder(requests', {"sync"}, {"sync"})
                      /\ InOrder(events, {"done"}, {"done"}) /\ ~Queued("done")
    BY <1>1 DEF OneRoundtrip, Queued
  <2>1. InOrder(events, {"done"}, {"done"}) /\ ~Requested("sync") /\ ~Queued("done")
    BY <1>1 DEF EndInv, OneRoundtrip
  <2> QED BY <1>1, <2>1, SyncSent
<1>4. UnlockOnItsWay' /\ LockHeld' /\ EndedForCause' /\ UnlockConfirmed'
  BY <1>1, <1>2 DEF UnlockOnItsWay, LockHeld, EndedForCause, UnlockConfirmed
<1> QED BY <1>3, <1>4 DEF EndInv

\* main() sends the unlock and starts to wait for it.
LEMMA EndUnlockSession ==
    ASSUME TypeInv, LockInv, EndInv, UnlockSession, UNCHANGED compVars
    PROVE  EndInv'
<1>1. /\ pc = "running" /\ pc' = "unlocking" /\ synced' = FALSE /\ session_locked
      /\ Send(<<UnlockAndDestroy, Sync>>)
      /\ UNCHANGED <<events, conn, lock_state>>
  BY DEF UnlockSession, PassOver, Authenticated, compVars
<1>2. lock_state = "locked" /\ conn # "closed"
  BY <1>1 DEF LockInv, ClientKnows, EndInv, EndedForCause
<1>3. ASSUME conn = "up"
      PROVE  /\ InOrder(requests', {"sync"}, {"sync"})
             /\ InOrder(requests', {"unlock_and_destroy"}, {"sync"})
             /\ Requested("unlock_and_destroy")'
             /\ InOrder(events, {"done"}, {"done"}) /\ ~Queued("done")
  <2>1. InOrder(events, {"done"}, {"done"}) /\ ~Requested("sync") /\ ~Queued("done")
    BY <1>1, <1>3 DEF EndInv, OneRoundtrip
  <2>2. /\ \A A \in {{"sync"}, {"unlock_and_destroy"}} : InOrder(requests', A, {"sync"})
        /\ \E s \in Range(requests') : s = UnlockAndDestroy
    BY <1>1, <1>3, <2>1, SyncSent
  <2> QED BY <2>1, <2>2 DEF Requested, UnlockAndDestroy
<1>4. OneRoundtrip' /\ UnlockOnItsWay'
  BY <1>1, <1>2, <1>3 DEF OneRoundtrip, UnlockOnItsWay, Queued
<1>5. LockHeld' /\ EndedForCause' /\ UnlockConfirmed'
  BY <1>1, <1>2 DEF LockHeld, EndedForCause, UnlockConfirmed
<1> QED BY <1>4, <1>5 DEF EndInv

LEMMA EndEnterLoop ==
    ASSUME TypeInv, LockInv, EndInv, EnterLoop, UNCHANGED compVars
    PROVE  EndInv'
<1>1. /\ pc = "locking" /\ pc' = "running" /\ ArmFrame /\ ~closed
      /\ synced \/ conn = "dead"
      /\ UNCHANGED <<events, conn, synced, session_locked, locked, closed>>
  BY DEF EnterLoop, RoundtripOver, lockVars
<1>2. RequestsKept
  BY <1>1, ArmFrameKeeps DEF TypeInv
<1>3. OneRoundtrip'
  BY <1>1, <1>2 DEF EndInv, OneRoundtrip, RequestsKept, Queued
<1>4. UnlockOnItsWay' /\ LockHeld' /\ EndedForCause' /\ UnlockConfirmed'
  BY <1>1 DEF EndInv, UnlockOnItsWay, LockHeld, EndedForCause, UnlockConfirmed
<1> QED BY <1>3, <1>4 DEF EndInv

\* main() leaves its loop, or the roundtrip after the unlock.
LEMMA EndLeave ==
    ASSUME TypeInv, LockInv, EndInv, LeaveLoop \/ DispatchFails \/ UnlockRoundtripReturns,
           UNCHANGED compVars
    PROVE  EndInv'
<1>1. /\ pc' = "teardown" /\ pc \in {"running", "unlocking"}
      /\ UNCHANGED <<requests, events, conn, synced, g_should_exit, lock_object, session_locked,
                     locked, closed, lock_state, revoked>>
  BY DEF LeaveLoop, PassOver, DispatchFails, UnlockRoundtripReturns, connVars, lockVars, compVars
<1>2. conn = "up" => \/ pc = "running" /\ (closed \/ g_should_exit)
                     \/ pc = "unlocking" /\ lock_state = "unlocked" /\ synced
  BY DEF LeaveLoop, PassOver, ShouldStop, DispatchFails, UnlockRoundtripReturns, RoundtripOver,
         EndInv, UnlockOnItsWay
<1>3. OneRoundtrip'
  BY <1>1, <1>2 DEF EndInv, OneRoundtrip, Requested, Queued
<1>4. conn = "up" => g_should_exit \/ revoked \/ LockSettled
  BY <1>2 DEF EndInv, EndedForCause, LockSettled, LockInv, AskedOnce
<1>5. EndedForCause'
  BY <1>1, <1>4 DEF EndInv, EndedForCause, LockSettled, Requested
<1>6. conn = "up" /\ locked /\ lock_object = "null" => lock_state = "unlocked"
  BY <1>2 DEF EndInv, LockHeld, LockInv, ClientKnows
<1>7. UnlockOnItsWay' /\ LockHeld' /\ UnlockConfirmed'
  BY <1>1, <1>6 DEF UnlockOnItsWay, LockHeld, UnlockConfirmed
<1> QED BY <1>3, <1>5, <1>7 DEF EndInv

LEMMA EndRunMain ==
    ASSUME TypeInv, LockInv, EndInv, RunMain \/ Signal, UNCHANGED compVars
    PROVE  EndInv'
<1>1. CASE KeepRunning \/ Signal
  <2>1. /\ UNCHANGED <<requests, events, conn, pc, synced, lock_object, session_locked, locked,
                       closed, lock_state, revoked>>
        /\ g_should_exit => g_should_exit'
    BY <1>1 DEF KeepRunning, Signal, connVars, lockVars, compVars
  <2>2. OneRoundtrip' /\ UnlockOnItsWay' /\ LockHeld'
    BY <2>1 DEF EndInv, OneRoundtrip, UnlockOnItsWay, LockHeld, Requested, Queued
  <2>3. EndedForCause' /\ UnlockConfirmed'
    BY <2>1 DEF EndInv, EndedForCause, UnlockConfirmed, LockSettled, Requested
  <2> QED BY <2>2, <2>3 DEF EndInv
<1> QED
  BY <1>1, EndExit, EndRequestLock, EndUnlockSession, EndEnterLoop, EndLeave DEF RunMain

-----------------------------------------------------------------------------
(* The compositor *)

\* Whatever it does about the lock, a settled or unlocked session stays so.
LEMMA CompKeeps ==
    ASSUME EndInv, UNCHANGED <<clientVars, conn>>, OneRoundtrip', UnlockOnItsWay',
           revoked => revoked', LockSettled => LockSettled',
           lock_state = "unlocked" => lock_state' = "unlocked"
    PROVE  EndInv'
<1>1. UNCHANGED <<pc, g_should_exit, lock_object, session_locked, locked, closed>>
  BY DEF clientVars, mainVars, lockVars
<1>2. LockHeld' /\ EndedForCause' /\ UnlockConfirmed'
  BY <1>1 DEF EndInv, LockHeld, EndedForCause, UnlockConfirmed
<1> QED BY <1>2 DEF EndInv

\* A step that leaves the roundtrip and the lock alone.
LEMMA CompLeaves ==
    ASSUME EndInv, UNCHANGED <<clientVars, conn, lock_state>>, RequestsKept, EventsKept,
           revoked => revoked'
    PROVE  EndInv'
<1>1. UNCHANGED <<pc, synced>>
  BY DEF clientVars, mainVars
<1>2. OneRoundtrip'
  BY <1>1 DEF EndInv, OneRoundtrip, RequestsKept, EventsKept
<1>3. UnlockOnItsWay'
  BY <1>1 DEF EndInv, UnlockOnItsWay, RequestsKept, EventsKept
<1>4. LockSettled => LockSettled'
  BY DEF LockSettled, RequestsKept
<1> QED BY <1>2, <1>3, <1>4, CompKeeps

\* The connection is lost or broken off, or what is left in it is dropped.
LEMMA CompBreaks ==
    ASSUME TypeInv, EndInv, Die \/ Hangup \/ (\E type, error : Reject(type, error)),
           UNCHANGED <<clientVars, lock_state, revoked>>
    PROVE  EndInv'
<1>1. /\ UNCHANGED <<pc, g_should_exit, lock_object, session_locked, locked, closed>>
      /\ requests' = <<>> /\ conn' # "up" /\ (conn' = "closed" => conn = "closed")
  BY DEF clientVars, mainVars, lockVars, Die, Hangup, Reject, TypeInv, ConnTypeOK
<1>2. LockSettled => LockSettled'
  BY <1>1, SmallRange DEF LockSettled, Requested
<1>3. OneRoundtrip' /\ UnlockOnItsWay' /\ LockHeld' /\ UnlockConfirmed'
  BY <1>1 DEF EndInv, OneRoundtrip, UnlockOnItsWay, LockHeld, UnlockConfirmed
<1>4. EndedForCause'
  BY <1>1, <1>2 DEF EndInv, EndedForCause
<1> QED BY <1>3, <1>4 DEF EndInv

\* What comes from the user, the monitors and time is one event.
LEMMA UserEvent ==
    ASSUME TypeInv, Resize \/ DrawFrame \/ PressKey \/ Plug \/ Unplug \/ SendOther
    PROVE  \E e \in Event : /\ Emit(<<e>>)
                            /\ e.type \in {"configure", "frame", "key", "global", "other"}
<1>1. CASE Resize
  <2>1. PICK o \in mapped : Emit(<<[type |-> "configure", output |-> o]>>)
    BY <1>1 DEF Resize
  <2> QED BY <2>1, EventsMade DEF TypeInv, CompTypeOK
<1>2. CASE DrawFrame
  <2>1. PICK dt \in FrameTime : Emit(<<[type |-> "frame", dt |-> dt]>>)
    BY <1>2 DEF DrawFrame
  <2> QED BY <2>1, EventsMade, EnvironmentAssumption
<1>3. CASE Plug
  <2>1. PICK o \in Pluggable : Emit(<<[type |-> "global", output |-> o]>>)
    BY <1>3 DEF Plug
  <2> QED BY <2>1, EventsMade, EnvironmentAssumption
<1>4. CASE PressKey
  <2>1. PICK sym \in Keys : Emit(<<[type |-> "key", sym |-> sym]>>)
    BY <1>4 DEF PressKey
  <2> QED BY <2>1, EventsMade, EnvironmentAssumption
<1>5. CASE Unplug \/ SendOther
  BY <1>5, EventsMade DEF Unplug, SendOther
<1> QED BY <1>1, <1>2, <1>3, <1>4, <1>5

\* The compositor reads sync: the unlock before it has been read.
LEMMA EndServeSync ==
    ASSUME TypeInv, LockInv, EndInv, ServeSync, UNCHANGED clientVars
    PROVE  EndInv'
<1>1. /\ Serve("sync") /\ Emit(<<[type |-> "done"]>>)
      /\ UNCHANGED <<conn, lock_state, revoked, pc, synced>>
  BY DEF ServeSync, Serve, compVars, clientVars, mainVars
<1>2. /\ requests \in Seq(Request) /\ requests # <<>> /\ requests' = Tail(requests)
      /\ Head(requests).type = "sync"
  BY <1>1 DEF Serve, TypeInv, ConnTypeOK
<1>3. \A A : InOrder(requests, A, {"sync"}) =>
          InOrder(requests', A, {"sync"}) /\ \A r \in Range(requests') : r.type \notin A
  BY <1>2, TailInOrder
<1>4. Requested("sync") /\ RequestsKept
  BY <1>1, ServeQueue, ServeKeeps
<1>5. ASSUME conn = "up"
      PROVE  /\ ~synced /\ pc \notin {"running", "teardown"} /\ ~Requested("sync")'
             /\ InOrder(requests', {"sync"}, {"sync"}) /\ InOrder(events', {"done"}, {"done"})
             /\ pc = "unlocking" => lock_state = "unlocked"
  <2>1. /\ ~synced /\ pc \notin {"running", "teardown"} /\ ~Queued("done")
        /\ InOrder(requests, {"sync"}, {"sync"})
    BY <1>4, <1>5 DEF EndInv, OneRoundtrip
  <2>2. InOrder(requests', {"sync"}, {"sync"}) /\ ~Requested("sync")'
    BY <1>3, <2>1 DEF Requested
  <2>3. InOrder(events', {"done"}, {"done"})
    <3> DEFINE m == <<[type |-> "done"]>>
    <3>1. /\ events \in Seq(Event) /\ events' = events \o m /\ m \in Seq(Event)
          /\ InOrder(m, {"done"}, {"done"})
      BY <1>1, <1>5, EventsMade DEF Emit, TypeInv, ConnTypeOK, InOrder
    <3>2. \A e \in Range(events) : e.type \notin {"done"}
      BY <2>1 DEF Queued
    <3>3. InOrder(events, {"done"}, {"done"})
      BY <3>1, <3>2, NoneInOrder
    <3> HIDE DEF m
    <3> QED BY <3>1, <3>2, <3>3, ConcatInOrder
  <2>4. ASSUME pc = "unlocking", lock_state # "unlocked"
        PROVE  FALSE
    <3>1. Requested("unlock_and_destroy") /\ InOrder(requests, {"unlock_and_destroy"}, {"sync"})
      BY <1>5, <2>4 DEF EndInv, UnlockOnItsWay
    <3>2. Requested("unlock_and_destroy")'
      BY <1>4, <3>1 DEF RequestsKept
    <3> QED BY <1>3, <3>1, <3>2 DEF Requested
  <2> QED BY <2>1, <2>2, <2>3, <2>4
<1>6. OneRoundtrip' /\ UnlockOnItsWay'
  BY <1>1, <1>5 DEF OneRoundtrip, UnlockOnItsWay
<1>7. LockSettled => LockSettled'
  BY <1>1, <1>4 DEF LockSettled, RequestsKept
<1> QED BY <1>1, <1>6, <1>7, CompKeeps

\* A step that changes what the compositor has decided about the lock.
LEMMA EndDecided ==
    ASSUME TypeInv, LockInv, EndInv, UNCHANGED clientVars,
           \/ ServeLock \/ GrantLock \/ DenyLock \/ RevokeLock
           \/ Serve("destroy") /\ lock_state # "locked" /\ lock_state' = "destroyed"
              /\ UNCHANGED <<events, revoked>>
    PROVE  EndInv'
<1>1. /\ RequestsKept /\ EventsKept /\ UNCHANGED conn
      /\ revoked => revoked'
  <2>1. CASE ServeLock \/ (Serve("destroy") /\ UNCHANGED <<events, revoked>>)
    BY <2>1, ServeKeeps, SameQueues DEF ServeLock, Serve
  <2>2. CASE GrantLock \/ DenyLock \/ RevokeLock
    <3>1. PICK type \in {"locked", "finished"} : Emit(<<[type |-> type]>>)
      BY <2>2 DEF GrantLock, DenyLock, RevokeLock
    <3>2. [type |-> type] \in Event /\ [type |-> type].type # "done"
      BY EventsMade
    <3>3. EventsKept
      BY <3>1, <3>2, EmitOneKeeps
    <3> QED BY <2>2, <3>3, SameQueues DEF GrantLock, DenyLock, RevokeLock
  <2> QED BY <2>1, <2>2
<1>2. CASE UNCHANGED lock_state
  BY <1>1, <1>2, CompLeaves
<1>3. CASE lock_state' # lock_state
  <2>1. /\ lock_state \notin {"locked", "unlocked"}
        /\ LockSettled => LockSettled'
    <3>1. CASE ServeLock
      BY <3>1, LockServed, ServeQueue DEF ServeLock, LockSettled
    <3>2. CASE GrantLock \/ DenyLock
      BY <3>2 DEF GrantLock, DenyLock, LockSettled
    <3>3. CASE RevokeLock
      BY <1>3, <3>3 DEF RevokeLock
    <3>4. CASE /\ Serve("destroy") /\ lock_state # "locked" /\ lock_state' = "destroyed"
               /\ UNCHANGED <<events, revoked>>
      BY <1>1, <3>4, DestroyServed DEF LockSettled, RequestsKept
    <3> QED BY <3>1, <3>2, <3>3, <3>4
  <2>2. UNCHANGED <<pc, synced>>
    BY DEF clientVars, mainVars
  <2>3. OneRoundtrip'
    BY <1>1, <2>2 DEF EndInv, OneRoundtrip, RequestsKept, EventsKept
  <2>4. UnlockOnItsWay'
    BY <1>1, <2>1, <2>2 DEF EndInv, UnlockOnItsWay
  <2> QED BY <1>1, <2>1, <2>3, <2>4, CompKeeps
<1> QED BY <1>2, <1>3

LEMMA EndServeUnlock ==
    ASSUME TypeInv, LockInv, EndInv, UNCHANGED <<clientVars, events, revoked>>,
           Serve("unlock_and_destroy"), lock_state = "locked", lock_state' = "unlocked"
    PROVE  EndInv'
<1>1. /\ requests \in Seq(Request) /\ requests # <<>> /\ requests' = Tail(requests)
      /\ UNCHANGED <<conn, pc, synced>>
  BY DEF Serve, TypeInv, ConnTypeOK, clientVars, mainVars
<1>2. /\ InOrder(requests, {"sync"}, {"sync"}) => InOrder(requests', {"sync"}, {"sync"})
      /\ Range(requests') \subseteq Range(requests)
  BY <1>1, TailInOrder, TailRange
<1>3. OneRoundtrip' /\ UnlockOnItsWay'
  BY <1>1, <1>2 DEF EndInv, OneRoundtrip, UnlockOnItsWay, Requested, Queued
<1> QED BY <1>1, <1>3, CompKeeps DEF LockSettled

LEMMA EndCompNext ==
    ASSUME TypeInv, LockInv, EndInv, CompNext, UNCHANGED clientVars
    PROVE  EndInv'
<1>1. CASE Die \/ (Hangup /\ UNCHANGED compVars)
  BY <1>1, CompBreaks DEF Die, compVars
<1>2. CASE \E type, error : Reject(type, error)
  <2>1. UNCHANGED <<lock_state, revoked>>
    BY <1>2 DEF Reject
  <2> QED BY <1>2, <2>1, CompBreaks
<1>3. CASE ServeSync
  BY <1>3, EndServeSync
<1>4. CASE ServeLock \/ GrantLock \/ DenyLock \/ RevokeLock
  BY <1>4, EndDecided
<1>5. CASE ServeUnlock /\ ~(\E type, error : Reject(type, error))
  BY <1>5, EndServeUnlock DEF ServeUnlock
<1>6. CASE ServeDestroy /\ ~(\E type, error : Reject(type, error))
  BY <1>6, EndDecided DEF ServeDestroy
<1>7. CASE Advertise
  <2>1. Serve("get_registry") /\ UNCHANGED <<conn, lock_state, revoked>>
    BY <1>7 DEF Advertise, Serve, compVars
  <2>2. PICK manager \in {<<>>, <<[type |-> "manager"]>>},
             order \in [1..Cardinality(present) -> present] : Emit(Globals(manager, order))
    BY <1>7 DEF Advertise, Globals
  <2>3. /\ Globals(manager, order) \in Seq(Event)
        /\ \A e \in Range(Globals(manager, order)) : e.type \in {"manager", "global"}
    BY GlobalsTyped DEF TypeInv
  <2>4. EventsKept
    BY <2>2, <2>3, EmitKeeps
  <2> QED BY <2>1, <2>4, ServeKeeps, CompLeaves
<1>8. CASE /\ ServeGetLockSurface \/ ServeAck \/ ServeCommit
           /\ ~(\E type, error : Reject(type, error))
  <2>1. PICK type \in {"get_lock_surface", "ack_configure", "commit"} : Serve(type)
    BY <1>8 DEF ServeGetLockSurface, ServeAck, ServeCommit
  <2>2. UNCHANGED <<conn, lock_state, revoked>>
    BY <1>8 DEF ServeGetLockSurface, ServeAck, ServeCommit, Serve
  <2>3. EventsKept
    <3>1. CASE ServeAck \/ ServeCommit
      BY <1>8, <3>1, SameQueues DEF ServeAck, ServeCommit
    <3>2. CASE ServeGetLockSurface
      <4> DEFINE o == Head(requests).output
      <4>1. Serve("get_lock_surface")
            /\ (Emit(<<[type |-> "configure", output |-> o]>>) \/ Emit(<<>>))
        BY <1>8, <3>2 DEF ServeGetLockSurface
      <4>2. o \in Output
        BY <4>1, ServeFacts, RequestFields DEF TypeInv
      <4> HIDE DEF o
      <4>3. [type |-> "configure", output |-> o] \in Event
        BY <4>2, EventsMade
      <4>4. <<>> \in Seq(Event) /\ Range(<<>>) = {}
        BY SmallRange
      <4> QED BY <4>1, <4>3, <4>4, EmitOneKeeps, EmitKeeps
    <3> QED BY <1>8, <3>1, <3>2
  <2> QED BY <2>1, <2>2, <2>3, ServeKeeps, CompLeaves
<1>9. CASE Resize \/ DrawFrame \/ PressKey \/ Plug \/ Unplug \/ SendOther
  <2>1. UNCHANGED <<requests, conn, lock_state, revoked>>
    BY <1>9 DEF Resize, DrawFrame, PressKey, Plug, Unplug, SendOther, compVars
  <2>2. PICK e \in Event : Emit(<<e>>) /\ e.type \in {"configure", "frame", "key", "global", "other"}
    BY <1>9, UserEvent
  <2>3. EventsKept
    BY <2>2, EmitOneKeeps
  <2> QED BY <2>1, <2>3, SameQueues, CompLeaves
<1> QED
  BY <1>1, <1>2, <1>3, <1>4, <1>5, <1>6, <1>7, <1>8, <1>9 DEF CompNext, ServeRequest

-----------------------------------------------------------------------------
LEMMA EndInit == Init => EndInv
<1> SUFFICES ASSUME Init
             PROVE  EndInv
  OBVIOUS
<1>1. /\ pc = "connecting" /\ ~synced /\ ~locked /\ ~closed /\ conn = "up"
      /\ requests = <<GetRegistry, Sync>> /\ events = <<>>
  BY DEF Init, ClientInit
<1>2. ~Queued("done")
  BY <1>1, SmallRange DEF Queued
<1>3. OneRoundtrip
  BY <1>1, <1>2 DEF OneRoundtrip, InOrder, GetRegistry, Sync
<1>4. UnlockOnItsWay /\ LockHeld /\ EndedForCause /\ UnlockConfirmed
  BY <1>1 DEF UnlockOnItsWay, LockHeld, EndedForCause, UnlockConfirmed
<1> QED BY <1>3, <1>4 DEF EndInv

LEMMA EndNext == TypeInv /\ LockInv /\ EndInv /\ [Next]_vars => EndInv'
<1> SUFFICES ASSUME TypeInv, LockInv, EndInv, [Next]_vars
             PROVE  EndInv'
  OBVIOUS
<1>1. CASE ClientStep
  BY <1>1, EndHandleEvent, EndRunMain DEF ClientStep, ClientNext
<1>2. CASE CompStep
  BY <1>2, EndCompNext DEF CompStep
<1>3. CASE UNCHANGED vars
  BY <1>3, SameQueues, CompLeaves DEF vars, connVars, compVars
<1> QED BY <1>1, <1>2, <1>3 DEF Next

LEMMA EndInvariant == Spec => []EndInv
BY EndInit, EndNext, TypeInvariant, LockInvariant, PTL DEF Spec

\* When the roundtrip after unlock_and_destroy (main.c 178-181) returns and
\* the connection stands, the session is unlocked, in every reachable state.
THEOREM UnlockIsConfirmed == Spec => []UnlockConfirmed
<1>1. EndInv => UnlockConfirmed
  BY DEF EndInv
<1> QED BY <1>1, EndInvariant, PTL

\* A program that has exited on an intact connection leaves a locked session
\* only after a signal or a revocation, never after a password.
THEOREM AbandonedForCause == Spec => []AbandonedOnlyOnSignalOrRevoke
<1>1. EndInv => AbandonedOnlyOnSignalOrRevoke
  BY DEF EndInv, EndedForCause, LockSettled, AbandonedOnlyOnSignalOrRevoke
<1> QED BY <1>1, EndInvariant, PTL

-----------------------------------------------------------------------------
(* Requests that end the lock *)

\* unlock_and_destroy is sent once, and meets a locked session.
UnlockOnce ==
    /\ InOrder(requests, {"unlock_and_destroy"}, {"unlock_and_destroy"})
    /\ Requested("unlock_and_destroy") => lock_state = "locked"

\* The client hears of the lock before it hears of its revocation.
LockedHeard ==
    /\ revoked => lock_state \in {"locked", "unlocked"}
    /\ InOrder(events, {"locked"}, {"finished"})
    /\ conn = "up" /\ pc # "exited" /\ lock_object = "live" /\ ~session_locked
           /\ lock_state = "locked" => Queued("locked")

\* A destroy request is for a lock that was refused, or follows a signal.
DestroyExcused ==
    Requested("destroy") =>
        \/ lock_state \in {"denied", "destroyed"}
        \/ pc = "exited" /\ g_should_exit /\ ~session_locked

\* A client that has closed and still holds the lock object has the lock.
ClosedHeld == closed /\ lock_object = "live" => session_locked

\* The client is never wrong about the end of the lock, but for the exception.
LockErrors ==
    /\ perror # "invalid_unlock"
    /\ perror = "invalid_destroy" => pc = "exited" /\ g_should_exit /\ ~session_locked

EndsRightly ==
    UnlockOnce /\ LockedHeard /\ DestroyExcused /\ ClosedHeld /\ LockErrors

LEMMA EndsInit == Init => EndsRightly
<1> SUFFICES ASSUME Init
             PROVE  EndsRightly
  OBVIOUS
<1>1. /\ requests = <<GetRegistry, Sync>> /\ events = <<>> /\ lock_state = "none"
      /\ ~revoked /\ ~closed /\ perror = "none"
  BY DEF Init, ClientInit, CompInit
<1>2. \A type \in LockRequests : ~Requested(type)
  BY <1>1, SmallRange DEF Requested, LockRequests, GetRegistry, Sync
<1>3. UnlockOnce /\ DestroyExcused
  BY <1>1, <1>2 DEF UnlockOnce, DestroyExcused, LockRequests, InOrder, GetRegistry, Sync
<1>4. LockedHeard /\ ClosedHeld /\ LockErrors
  BY <1>1 DEF LockedHeard, ClosedHeld, LockErrors, InOrder
<1> QED BY <1>3, <1>4 DEF EndsRightly

\* What a request that is sent adds to the queue.
LEMMA SendAdds ==
    ASSUME ConnTypeOK, NEW msgs \in Seq(Request), Send(msgs)
    PROVE  \A type : Requested(type)' =>
               Requested(type) \/ (conn = "up" /\ \E r \in Range(msgs) : r.type = type)
<1>1. CASE conn = "up"
  <2>1. Range(requests') \subseteq Range(requests) \cup Range(msgs)
    BY SendFacts
  <2> QED BY <1>1, <2>1 DEF Requested
<1>2. CASE conn # "up"
  BY <1>2 DEF Send, Requested
<1> QED BY <1>1, <1>2

LEMMA UnlockSentOnce ==
    ASSUME ConnTypeOK, UnlockOnce,
           NEW msgs \in {<<Lock, Sync>>, <<UnlockAndDestroy, Sync>>, <<>>, <<UnlockAndDestroy>>,
                         <<Destroy>>},
           Send(msgs),
           \/ ~Requested("unlock_and_destroy")
           \/ msgs \notin {<<UnlockAndDestroy, Sync>>, <<UnlockAndDestroy>>}
    PROVE  InOrder(requests', {"unlock_and_destroy"}, {"unlock_and_destroy"})
<1>1. /\ msgs \in Seq(Request)
      /\ \A r \in Range(msgs) : r.type = "unlock_and_destroy" =>
             msgs \in {<<UnlockAndDestroy, Sync>>, <<UnlockAndDestroy>>}
  BY LastMessages
<1>2. InOrder(msgs, {"unlock_and_destroy"}, {"unlock_and_destroy"})
  BY DEF InOrder, Lock, Sync, UnlockAndDestroy, Destroy
<1>3. /\ requests \in Seq(Request)
      /\ InOrder(requests, {"unlock_and_destroy"}, {"unlock_and_destroy"})
      /\ requests' = requests \o msgs \/ requests' = requests
  BY DEF ConnTypeOK, UnlockOnce, Send
<1>4. \/ \A r \in Range(requests) : r.type \notin {"unlock_and_destroy"}
      \/ \A r \in Range(msgs) : r.type \notin {"unlock_and_destroy"}
  BY <1>1 DEF Requested
<1> QED BY <1>1, <1>2, <1>3, <1>4, ConcatInOrder

\* A handler that sends nothing about the end of the lock.
LEMMA HandlerEnds ==
    ASSUME TypeInv, LockInv, EndsRightly, NEW type, Dispatch(type), RequestsKept, NoLockRequest,
           UNCHANGED <<compVars, lock_object>>, session_locked => session_locked', ClosedHeld',
           type # "locked" \/ lock_object = "null" \/ session_locked'
    PROVE  EndsRightly'
<1>1. /\ UNCHANGED <<pc, conn, g_should_exit>> /\ pc # "exited"
      /\ UNCHANGED <<lock_state, revoked, perror>>
  BY DispatchQueued DEF compVars
<1>2. /\ events \in Seq(Event) /\ events # <<>> /\ events' = Tail(events)
      /\ Head(events).type = type
  BY DEF Dispatch, TypeInv, ConnTypeOK
<1>3. UnlockOnce'
  BY <1>1 DEF EndsRightly, UnlockOnce, RequestsKept, NoLockRequest, LockRequests
<1>4. InOrder(events', {"locked"}, {"finished"})
  BY <1>2, TailInOrder DEF EndsRightly, LockedHeard
<1>5. type # "locked" /\ Queued("locked") => Queued("locked")'
  BY <1>2, TailKeeps DEF Queued
<1>6. LockedHeard'
  BY <1>1, <1>4, <1>5 DEF EndsRightly, LockedHeard
<1>7. DestroyExcused' /\ LockErrors'
  BY <1>1 DEF EndsRightly, DestroyExcused, LockErrors, NoLockRequest, LockRequests
<1> QED BY <1>3, <1>6, <1>7 DEF EndsRightly

\* handle_finished destroys the lock object only if the lock was refused: a
\* revocation finds session_locked set.
LEMMA FinishedEnds ==
    ASSUME TypeInv, LockInv, EndsRightly, HandleFinished, UNCHANGED compVars
    PROVE  EndsRightly'
<1>1. /\ Dispatch("finished") /\ lock_object = "live" /\ closed' = TRUE
      /\ UNCHANGED session_locked
  BY DEF HandleFinished
<1>2. CASE session_locked /\ UNCHANGED <<requests, lock_object>>
  <2>1. ClosedHeld'
    BY <1>1, <1>2 DEF ClosedHeld
  <2> QED BY <1>1, <1>2, <2>1, SameQueues, SameRequests, HandlerEnds
<1>3. CASE ~session_locked /\ Send(<<Destroy>>) /\ lock_object' = "null"
  <2>1. /\ UNCHANGED <<pc, conn, g_should_exit>> /\ pc # "exited" /\ Queued("finished")
        /\ UNCHANGED <<lock_state, revoked, perror>>
    BY <1>1, DispatchQueued DEF compVars
  <2>2. /\ events \in Seq(Event) /\ events # <<>> /\ events' = Tail(events)
        /\ Head(events).type = "finished" /\ Head(events) \in Range(events)
    BY <1>1, TailRange DEF Dispatch, TypeInv, ConnTypeOK
  <2>3. InOrder(events, {"locked"}, {"finished"})
    BY DEF EndsRightly, LockedHeard
  <2>4. /\ InOrder(events', {"locked"}, {"finished"})
        /\ \A e \in Range(events') : e.type \notin {"locked"}
    BY <2>2, <2>3, TailInOrder
  <2>5. ~Queued("locked")
    BY <2>2, <2>4, TailKeeps DEF Queued
  <2>6. conn = "up" => lock_state \in {"denied", "destroyed"}
    BY <1>1, <1>3, <2>1, <2>5 DEF EndsRightly, LockedHeard, LockInv, EventsTrue, LiveLock
  <2>7. /\ <<Destroy>> \in Seq(Request)
        /\ \A r \in Range(<<Destroy>>) : r.type = "destroy"
    BY RequestsMade, SmallRange DEF Destroy
  <2>8. \A type : Requested(type)' => Requested(type) \/ (conn = "up" /\ type = "destroy")
    BY <1>3, <2>7, SendAdds DEF TypeInv
  <2>9. UnlockOnce'
    <3>1. <<Destroy>> \notin {<<UnlockAndDestroy, Sync>>, <<UnlockAndDestroy>>}
      BY DEF Destroy, UnlockAndDestroy
    <3>2. InOrder(requests', {"unlock_and_destroy"}, {"unlock_and_destroy"})
      BY <1>3, <3>1, UnlockSentOnce DEF TypeInv, EndsRightly
    <3> QED BY <2>1, <2>8, <3>2 DEF EndsRightly, UnlockOnce
  <2>10. LockedHeard' /\ ClosedHeld'
    BY <1>3, <2>1, <2>4 DEF EndsRightly, LockedHeard, ClosedHeld
  <2>11. DestroyExcused' /\ LockErrors'
    BY <2>1, <2>6, <2>8 DEF EndsRightly, DestroyExcused, LockErrors
  <2> QED BY <2>9, <2>10, <2>11 DEF EndsRightly
<1> QED BY <1>2, <1>3 DEF HandleFinished

LEMMA EndsHandleEvent ==
    ASSUME TypeInv, LockInv, EndsRightly, HandleEvent, UNCHANGED compVars
    PROVE  EndsRightly'
<1>0. ClosedHeld
  BY DEF EndsRightly
<1>1. CASE Synced \/ HandleOther \/ HandleManager \/ HandleGlobal \/ DropStaleEvent
  <2>1. PICK type : Dispatch(type) /\ (type # "locked" \/ lock_object = "null")
    BY <1>1 DEF Synced, HandleOther, HandleManager, HandleGlobal, DropStaleEvent
  <2>2. UNCHANGED <<requests, lock_object, session_locked, closed>>
    BY <1>1 DEF Synced, HandleOther, HandleManager, HandleGlobal, DropStaleEvent, lockVars
  <2>3. ClosedHeld'
    BY <1>0, <2>2 DEF ClosedHeld
  <2> QED BY <2>1, <2>2, <2>3, SameQueues, SameRequests, HandlerEnds
<1>2. CASE HandleLocked
  <2> DEFINE msgs == [i \in 1..Len(lock_outputs) |-> GetLockSurface(lock_outputs[i])]
  <2>1. /\ Dispatch("locked") /\ Send(msgs) /\ session_locked' = TRUE
        /\ UNCHANGED lock_object
    BY <1>2 DEF HandleLocked
  <2>2. msgs \in Seq(Request)
    BY RequestsMade DEF TypeInv, OutputTypeOK
  <2>3. \A r \in Range(msgs) : r.type \notin LockRequests \cup {"lock", "sync", "unlock_and_destroy"}
    BY DEF GetLockSurface, Range, LockRequests
  <2> HIDE DEF msgs
  <2>4. RequestsKept /\ NoLockRequest
    BY <2>1, <2>2, <2>3, SendKeeps, SendNoLock DEF TypeInv
  <2>5. ClosedHeld'
    BY <2>1 DEF ClosedHeld
  <2> QED BY <2>1, <2>4, <2>5, HandlerEnds
<1>3. CASE HandleFinished
  BY <1>3, FinishedEnds
<1>4. CASE HandleConfigure
  <2> DEFINE o == Head(events).output
             msgs == <<AckConfigure(o), Commit({o}, NoSurface)>>
  <2>1. /\ Dispatch("configure") /\ Send(msgs)
        /\ UNCHANGED <<lock_object, session_locked, closed>>
    BY <1>4 DEF HandleConfigure, lockVars
  <2>2. o \in Output
    BY <2>1, DispatchFacts, EventFields DEF TypeInv
  <2>3. {AckConfigure(o), Commit({o}, NoSurface)} \subseteq Request
    BY <2>2, RequestsMade
  <2>4. /\ AckConfigure(o).type \notin LockRequests \cup {"sync"}
        /\ Commit({o}, NoSurface).type \notin LockRequests \cup {"sync"}
    BY DEF AckConfigure, Commit, LockRequests
  <2>5. msgs \in Seq(Request) /\ \A r \in Range(msgs) : r.type \notin LockRequests \cup {"sync"}
    <3>1. Range(msgs) = {AckConfigure(o), Commit({o}, NoSurface)}
      BY SmallRange
    <3>2. msgs \in Seq(Request)
      BY <2>3
    <3> QED BY <2>4, <3>1, <3>2
  <2> HIDE DEF msgs
  <2>6. RequestsKept /\ NoLockRequest
    BY <2>1, <2>5, SendKeeps, SendNoLock DEF TypeInv, LockRequests
  <2>7. ClosedHeld'
    BY <1>0, <2>1 DEF ClosedHeld
  <2> QED BY <2>1, <2>6, <2>7, HandlerEnds
<1>5. CASE HandleFrame
  <2>1. /\ Dispatch("frame") /\ ArmFrame
        /\ UNCHANGED <<lock_object, session_locked, closed>>
    BY <1>5 DEF HandleFrame, lockVars
  <2>2. RequestsKept /\ NoLockRequest
    BY <2>1, ArmFrameKeeps, ArmFrameNoLock DEF TypeInv
  <2>3. ClosedHeld'
    BY <1>0, <2>1 DEF ClosedHeld
  <2> QED BY <2>1, <2>2, <2>3, HandlerEnds
<1>6. CASE HandleKey
  <2>1. Dispatch("key") /\ UNCHANGED <<requests, lock_object, session_locked, locked>>
    BY <1>6 DEF HandleKey
  <2>2. locked
    BY <2>1, DispatchQueued DEF LockInv, EventsTrue
  <2>3. ClosedHeld'
    BY <2>1, <2>2 DEF ClosedHeld, LockInv, ClientKnows
  <2> QED BY <2>1, <2>3, SameQueues, SameRequests, HandlerEnds
<1> QED BY <1>1, <1>2, <1>3, <1>4, <1>5, <1>6 DEF HandleEvent

\* main() goes on without a word about the end of the lock.
LEMMA MainEnds ==
    ASSUME EndsRightly, UNCHANGED <<compVars, lock_object, session_locked, closed>>,
           pc # "exited", g_should_exit => g_should_exit',
           \A type \in {"unlock_and_destroy", "destroy"} : Requested(type)' => Requested(type),
           InOrder(requests', {"unlock_and_destroy"}, {"unlock_and_destroy"}),
           UNCHANGED <<events, conn>> \/ (events' = <<>> /\ conn' # "up")
    PROVE  EndsRightly'
<1>1. UNCHANGED <<lock_state, revoked, perror>>
  BY DEF compVars
<1>2. UnlockOnce'
  BY <1>1 DEF EndsRightly, UnlockOnce
<1>3. LockedHeard'
  BY <1>1 DEF EndsRightly, LockedHeard, InOrder, Queued
<1>4. DestroyExcused' /\ ClosedHeld' /\ LockErrors'
  BY <1>1 DEF EndsRightly, DestroyExcused, ClosedHeld, LockErrors
<1> QED BY <1>2, <1>3, <1>4 DEF EndsRightly

LEMMA EndsRunMain ==
    ASSUME TypeInv, LockInv, EndsRightly, RunMain \/ Signal, UNCHANGED compVars
    PROVE  EndsRightly'
<1>0. /\ ConnTypeOK /\ UNCHANGED <<lock_state, revoked, perror>>
      /\ InOrder(requests, {"unlock_and_destroy"}, {"unlock_and_destroy"})
  BY DEF TypeInv, compVars, EndsRightly, UnlockOnce
<1>1. CASE LeaveLoop \/ KeepRunning \/ DispatchFails \/ UnlockRoundtripReturns \/ Signal
  <2>1. /\ pc # "exited" /\ (g_should_exit => g_should_exit')
        /\ UNCHANGED <<requests, events, conn, lock_object, session_locked, closed>>
    BY <1>1
       DEF LeaveLoop, PassOver, KeepRunning, DispatchFails, UnlockRoundtripReturns, Signal,
           connVars, lockVars
  <2> QED BY <1>0, <2>1, MainEnds DEF Requested
<1>2. CASE GiveUp \/ LockRefused
  <2>1. /\ pc # "exited" /\ Disconnect(<<>>)
        /\ UNCHANGED <<g_should_exit, lock_object, session_locked, closed>>
    BY <1>2 DEF GiveUp, LockRefused, lockVars
  <2>2. requests' = requests /\ events' = <<>> /\ conn' # "up"
    BY <1>0, <2>1, ConcatEmptySeq DEF Disconnect, Send, ConnTypeOK
  <2> QED BY <1>0, <2>1, <2>2, MainEnds DEF Requested
<1>3. CASE EnterLoop
  <2>1. /\ pc # "exited" /\ ArmFrame
        /\ UNCHANGED <<events, conn, g_should_exit, lock_object, session_locked, closed>>
    BY <1>3 DEF EnterLoop, lockVars
  <2>2. RequestsKept /\ NoLockRequest
    BY <2>1, ArmFrameKeeps, ArmFrameNoLock DEF TypeInv
  <2> QED BY <1>0, <2>1, <2>2, MainEnds DEF RequestsKept, NoLockRequest, LockRequests
<1>4. CASE RequestLock
  <2>1. /\ pc = "connecting" /\ Send(<<Lock, Sync>>)
        /\ UNCHANGED <<events, conn, closed>>
    BY <1>4 DEF RequestLock
  <2>2. /\ lock_state = "none" /\ ~closed
        /\ ~Requested("unlock_and_destroy") /\ ~Requested("destroy")
    BY <2>1 DEF LockInv, NothingYet
  <2>3. \A r \in Range(<<Lock, Sync>>) : r.type \notin {"unlock_and_destroy", "destroy"}
    BY SmallRange DEF Lock, Sync
  <2>4. \A type \in {"unlock_and_destroy", "destroy"} : ~Requested(type)'
    <3>1. <<Lock, Sync>> \in Seq(Request)
      BY LastRequests
    <3>2. \A type : Requested(type)' =>
              Requested(type) \/ \E r \in Range(<<Lock, Sync>>) : r.type = type
      BY <1>0, <2>1, <3>1, SendAdds
    <3> QED BY <2>2, <2>3, <3>2
  <2>5. InOrder(requests', {"unlock_and_destroy"}, {"unlock_and_destroy"})
    BY <1>0, <2>1, <2>2, UnlockSentOnce DEF EndsRightly
  <2>6. UnlockOnce' /\ DestroyExcused'
    BY <2>4, <2>5 DEF UnlockOnce, DestroyExcused
  <2>7. LockedHeard' /\ ClosedHeld' /\ LockErrors'
    BY <1>0, <2>1, <2>2 DEF EndsRightly, LockedHeard, ClosedHeld, LockErrors
  <2> QED BY <2>6, <2>7 DEF EndsRightly
<1>5. CASE UnlockSession
  <2>1. /\ pc = "running" /\ session_locked /\ lock_object' = "null"
        /\ Send(<<UnlockAndDestroy, Sync>>) /\ UNCHANGED <<events, conn>>
    BY <1>5 DEF UnlockSession, PassOver, Authenticated
  <2>2. /\ lock_state = "locked" /\ ~Requested("unlock_and_destroy") /\ ~Requested("destroy")
    BY <2>1 DEF LockInv, ClientKnows, LiveLock
  <2>3. \A r \in Range(<<UnlockAndDestroy, Sync>>) : r.type # "destroy"
    BY SmallRange DEF UnlockAndDestroy, Sync
  <2>4. ~Requested("destroy")'
    <3>1. <<UnlockAndDestroy, Sync>> \in Seq(Request)
      BY LastRequests
    <3>2. \A type : Requested(type)' =>
              Requested(type) \/ \E r \in Range(<<UnlockAndDestroy, Sync>>) : r.type = type
      BY <1>0, <2>1, <3>1, SendAdds
    <3> QED BY <2>2, <2>3, <3>2
  <2>5. InOrder(requests', {"unlock_and_destroy"}, {"unlock_and_destroy"})
    BY <1>0, <2>1, <2>2, UnlockSentOnce DEF EndsRightly
  <2>6. UnlockOnce' /\ DestroyExcused'
    BY <1>0, <2>2, <2>4, <2>5 DEF UnlockOnce, DestroyExcused
  <2>7. LockedHeard' /\ ClosedHeld' /\ LockErrors'
    BY <1>0, <2>1 DEF EndsRightly, LockedHeard, ClosedHeld, LockErrors
  <2> QED BY <2>6, <2>7 DEF EndsRightly
<1>6. CASE Teardown
  <2>1. /\ pc = "teardown" /\ pc' = "exited" /\ Send(Release) /\ events' = <<>> /\ conn' # "up"
        /\ UNCHANGED <<g_should_exit, lock_object, session_locked, closed>>
    BY <1>0, <1>6 DEF Teardown, Disconnect, lockVars, ConnTypeOK
  <2>2. \/ Release = <<>>
        \/ Release = <<UnlockAndDestroy>> /\ lock_object = "live" /\ session_locked
        \/ Release = <<Destroy>> /\ lock_object = "live" /\ ~session_locked
    BY DEF Release, TypeInv, LockTypeOK
  <2>3. /\ Range(<<>>) = {} /\ Range(<<UnlockAndDestroy>>) = {UnlockAndDestroy}
        /\ Range(<<Destroy>>) = {Destroy}
        /\ UnlockAndDestroy.type = "unlock_and_destroy" /\ Destroy.type = "destroy"
    BY SmallRange DEF UnlockAndDestroy, Destroy
  <2>4. \A type : Requested(type)' =>
            Requested(type) \/ (conn = "up" /\ \E r \in Range(Release) : r.type = type)
    <3>1. Release \in Seq(Request)
      BY <2>2, LastRequests
    <3> QED BY <1>0, <2>1, <3>1, SendAdds
  <2>5. /\ Requested("unlock_and_destroy")' =>
               Requested("unlock_and_destroy") \/ (lock_object = "live" /\ session_locked)
        /\ Requested("destroy")' =>
               \/ Requested("destroy")
               \/ conn = "up" /\ lock_object = "live" /\ ~session_locked
    BY <2>2, <2>3, <2>4
  <2>6. UnlockOnce'
    <3>1. lock_object = "live" => ~Requested("unlock_and_destroy")
      BY <2>1 DEF LockInv, LiveLock
    <3>2. lock_object = "live" /\ session_locked => lock_state = "locked"
      BY <2>1 DEF LockInv, ClientKnows
    <3>3. <<>> \notin {<<UnlockAndDestroy, Sync>>, <<UnlockAndDestroy>>}
      OBVIOUS
    <3>4. InOrder(requests', {"unlock_and_destroy"}, {"unlock_and_destroy"})
      BY <1>0, <2>1, <2>2, <3>1, <3>3, UnlockSentOnce DEF EndsRightly
    <3> QED BY <1>0, <2>5, <3>2, <3>4 DEF EndsRightly, UnlockOnce
  <2>7. DestroyExcused'
    <3>1. conn = "up" /\ lock_object = "live" /\ ~session_locked => g_should_exit
      BY <2>1 DEF LockInv, LeftForReason, EndsRightly, ClosedHeld
    <3> QED BY <1>0, <2>1, <2>5, <3>1 DEF EndsRightly, DestroyExcused
  <2>8. LockedHeard' /\ ClosedHeld' /\ LockErrors'
    BY <1>0, <2>1 DEF EndsRightly, LockedHeard, ClosedHeld, LockErrors, InOrder
  <2> QED BY <2>6, <2>7, <2>8 DEF EndsRightly
<1> QED BY <1>1, <1>2, <1>3, <1>4, <1>5, <1>6 DEF RunMain

\* A step of the compositor that does not decide about the lock.
LEMMA CompEnds ==
    ASSUME TypeInv, EndsRightly, UNCHANGED <<clientVars, conn, lock_state>>, UnlockOnce',
           LockErrors', Requested("destroy")' => Requested("destroy"),
           revoked' => revoked \/ lock_state = "locked",
           InOrder(events', {"locked"}, {"finished"}), Queued("locked") => Queued("locked")'
    PROVE  EndsRightly'
<1>1. UNCHANGED <<pc, g_should_exit, lock_object, session_locked, closed>>
  BY DEF clientVars, mainVars, lockVars
<1>2. LockedHeard' /\ DestroyExcused' /\ ClosedHeld'
  BY <1>1 DEF EndsRightly, LockedHeard, DestroyExcused, ClosedHeld
<1> QED BY <1>2 DEF EndsRightly

\* Reading a request leaves unlock_and_destroy alone in the queue, or not in it.
LEMMA ServeEnds ==
    ASSUME TypeInv, LockInv, EndsRightly, NEW type, Serve(type)
    PROVE  /\ InOrder(requests', {"unlock_and_destroy"}, {"unlock_and_destroy"})
           /\ type = "unlock_and_destroy" => ~Requested("unlock_and_destroy")'
           /\ NoLockRequest /\ Requested(type)
<1>1. /\ requests \in Seq(Request) /\ requests # <<>> /\ requests' = Tail(requests)
      /\ Head(requests).type = type
      /\ InOrder(requests, {"unlock_and_destroy"}, {"unlock_and_destroy"})
  BY DEF TypeInv, ConnTypeOK, Serve, EndsRightly, UnlockOnce
<1>2. /\ InOrder(requests', {"unlock_and_destroy"}, {"unlock_and_destroy"})
      /\ type = "unlock_and_destroy" =>
             \A r \in Range(requests') : r.type \notin {"unlock_and_destroy"}
  BY <1>1, TailInOrder
<1> QED BY <1>2, ServeQueue DEF Requested

LEMMA EmitEnds ==
    ASSUME TypeInv, EndsRightly, NEW msgs \in Seq(Event), Emit(msgs),
           \A e \in Range(msgs) : e.type # "locked"
    PROVE  /\ InOrder(events', {"locked"}, {"finished"})
           /\ Queued("locked") => Queued("locked")'
<1>1. InOrder(events, {"locked"}, {"finished"})
  BY DEF EndsRightly, LockedHeard
<1>2. CASE conn = "up"
  <2>1. events' = events \o msgs /\ events \in Seq(Event)
    BY <1>2 DEF Emit, TypeInv, ConnTypeOK
  <2>2. Range(events') = Range(events) \cup Range(msgs)
    BY <2>1, ConcatRange
  <2>3. InOrder(msgs, {"locked"}, {"finished"})
    BY NoneInOrder
  <2>4. InOrder(events', {"locked"}, {"finished"})
    BY <1>1, <2>1, <2>3, ConcatInOrder
  <2> QED BY <2>2, <2>4 DEF Queued
<1>3. CASE conn # "up"
  BY <1>1, <1>3 DEF Emit, Queued
<1> QED BY <1>2, <1>3

LEMMA EmitOneEnds ==
    ASSUME TypeInv, EndsRightly, NEW e \in Event, Emit(<<e>>), e.type # "locked"
    PROVE  /\ InOrder(events', {"locked"}, {"finished"})
           /\ Queued("locked") => Queued("locked")'
<1>1. <<e>> \in Seq(Event) /\ Range(<<e>>) = {e}
  BY SmallRange
<1> QED BY <1>1, EmitEnds

\* The queue is gone, with the connection or behind it.
LEMMA BreakEnds ==
    ASSUME TypeInv, EndsRightly, UNCHANGED <<clientVars, events, lock_state, revoked>>,
           requests' = <<>>, conn' # "up", LockErrors'
    PROVE  EndsRightly'
<1>1. UNCHANGED <<pc, g_should_exit, lock_object, session_locked, closed>>
  BY DEF clientVars, mainVars, lockVars
<1>2. \A type : ~Requested(type)'
  BY SmallRange DEF Requested
<1>3. UnlockOnce' /\ DestroyExcused'
  BY <1>2 DEF UnlockOnce, DestroyExcused, InOrder
<1>4. LockedHeard' /\ ClosedHeld'
  BY <1>1 DEF EndsRightly, LockedHeard, ClosedHeld
<1> QED BY <1>3, <1>4 DEF EndsRightly

\* The compositor rejects the end of a lock only when destroy follows a signal.
LEMMA RejectEnds ==
    ASSUME TypeInv, LockInv, EndsRightly, UNCHANGED clientVars, NEW type, NEW error,
           Reject(type, error),
           \/ error \in {"duplicate_output", "commit_before_first_ack"}
           \/ type = "unlock_and_destroy" /\ lock_state # "locked"
           \/ type = "destroy" /\ lock_state = "locked" /\ error = "invalid_destroy"
    PROVE  EndsRightly'
<1>1. /\ requests # <<>> /\ Head(requests).type = type /\ requests' = <<>> /\ perror' = error
      /\ conn' # "up" /\ UNCHANGED <<events, lock_state, revoked>>
  BY DEF Reject, TypeInv, ConnTypeOK
<1>2. Requested(type)
  BY <1>1, TailRange DEF Requested, TypeInv, ConnTypeOK
<1>3. UNCHANGED <<pc, g_should_exit, session_locked>>
  BY DEF clientVars, mainVars, lockVars
<1>4. CASE error \in {"duplicate_output", "commit_before_first_ack"}
  <2>1. LockErrors'
    BY <1>1, <1>4 DEF LockErrors
  <2> QED BY <1>1, <2>1, BreakEnds
<1>5. CASE type = "unlock_and_destroy" /\ lock_state # "locked"
  BY <1>2, <1>5 DEF EndsRightly, UnlockOnce
<1>6. CASE type = "destroy" /\ lock_state = "locked" /\ error = "invalid_destroy"
  <2>1. LockErrors'
    BY <1>1, <1>2, <1>3, <1>6 DEF EndsRightly, DestroyExcused, LockErrors
  <2> QED BY <1>1, <2>1, BreakEnds
<1> QED BY <1>4, <1>5, <1>6

\* The compositor decides about the lock.
LEMMA DecideEnds ==
    ASSUME TypeInv, LockInv, EndsRightly, UNCHANGED clientVars,
           GrantLock \/ DenyLock \/ RevokeLock
    PROVE  EndsRightly'
<1>0. /\ UNCHANGED <<pc, g_should_exit, lock_object, session_locked, closed>>
      /\ UNCHANGED <<requests, conn, perror>>
  BY DEF clientVars, mainVars, lockVars, GrantLock, DenyLock, RevokeLock
<1>1. CASE RevokeLock
  <2>1. /\ Emit(<<[type |-> "finished"]>>) /\ lock_state = "locked"
        /\ UNCHANGED lock_state
    BY <1>1 DEF RevokeLock
  <2>2. /\ InOrder(events', {"locked"}, {"finished"})
        /\ Queued("locked") => Queued("locked")'
    BY <2>1, EventsMade, EmitOneEnds
  <2>3. UnlockOnce' /\ LockErrors' /\ (Requested("destroy")' => Requested("destroy"))
    BY <1>0, <2>1 DEF EndsRightly, UnlockOnce, LockErrors, Requested
  <2> QED BY <1>0, <2>1, <2>2, <2>3, CompEnds
<1>2. CASE GrantLock \/ DenyLock
  <2>1. lock_state = "pending" /\ UNCHANGED revoked
    BY <1>2 DEF GrantLock, DenyLock
  <2>2. ~revoked /\ ~Requested("unlock_and_destroy") /\ ~Queued("finished")
    BY <2>1 DEF EndsRightly, LockedHeard, UnlockOnce, LockInv, EventsTrue
  <2>3. UnlockOnce'
    BY <1>0, <2>2 DEF EndsRightly, UnlockOnce, Requested
  <2>4. DestroyExcused' /\ ClosedHeld' /\ LockErrors'
    BY <1>0, <2>1 DEF EndsRightly, DestroyExcused, ClosedHeld, LockErrors, Requested
  <2>5. CASE GrantLock
    <3> DEFINE m == <<[type |-> "locked"]>>
    <3>1. Emit(m) /\ m \in Seq(Event)
      BY <2>5, EventsMade DEF GrantLock
    <3>2. /\ \A e \in Range(events) : e.type \notin {"finished"}
          /\ \A e \in Range(m) : e.type = "locked"
          /\ m # <<>> /\ [type |-> "locked"] \in Range(m)
      BY <2>2, SmallRange DEF Queued
    <3>3. /\ InOrder(m, {"locked"}, {"finished"}) /\ InOrder(events, {"locked"}, {"finished"})
      BY <3>2 DEF InOrder, EndsRightly, LockedHeard
    <3> HIDE DEF m
    <3>4. ASSUME conn = "up"
          PROVE  LockedHeard'
      <4>1. events \in Seq(Event) /\ events' = events \o m
        BY <3>1, <3>4 DEF Emit, TypeInv, ConnTypeOK
      <4>2. InOrder(events', {"locked"}, {"finished"})
        BY <3>1, <3>2, <3>3, <4>1, ConcatInOrder
      <4>3. Range(events') = Range(events) \cup Range(m)
        BY <3>1, <4>1, ConcatRange
      <4>4. Queued("locked")'
        BY <3>2, <4>3 DEF Queued
      <4> QED BY <2>1, <2>2, <4>2, <4>4 DEF LockedHeard
    <3>5. ASSUME conn # "up"
          PROVE  LockedHeard'
      BY <1>0, <2>1, <2>2, <3>1, <3>3, <3>5 DEF Emit, LockedHeard
    <3>6. LockedHeard'
      BY <3>4, <3>5
    <3> QED BY <2>3, <2>4, <3>6 DEF EndsRightly
  <2>6. CASE DenyLock
    <3>1. Emit(<<[type |-> "finished"]>>) /\ lock_state' = "denied"
      BY <2>6 DEF DenyLock
    <3>2. InOrder(events', {"locked"}, {"finished"})
      BY <3>1, EventsMade, EmitOneEnds
    <3>3. LockedHeard'
      BY <2>1, <2>2, <3>1, <3>2 DEF LockedHeard
    <3> QED BY <2>3, <2>4, <3>3 DEF EndsRightly
  <2> QED BY <1>2, <2>5, <2>6
<1> QED BY <1>1, <1>2

\* The compositor reads lock, unlock_and_destroy or destroy.
LEMMA ServedEnds ==
    ASSUME TypeInv, LockInv, EndsRightly, UNCHANGED <<clientVars, events, revoked, perror>>,
           \/ ServeLock
           \/ Serve("unlock_and_destroy") /\ lock_state = "locked" /\ lock_state' = "unlocked"
           \/ Serve("destroy") /\ lock_state # "locked" /\ lock_state' = "destroyed"
    PROVE  EndsRightly'
<1>0. /\ UNCHANGED <<pc, g_should_exit, lock_object, session_locked, closed>>
      /\ InOrder(events', {"locked"}, {"finished"})
  BY DEF clientVars, mainVars, lockVars, EndsRightly, LockedHeard
<1>1. ClosedHeld' /\ LockErrors'
  BY <1>0 DEF EndsRightly, ClosedHeld, LockErrors
<1>2. CASE ServeLock
  <2>1. Serve("lock") /\ lock_state = "none" /\ lock_state' = "pending"
    BY <1>2, LockServed DEF ServeLock
  <2>2. /\ InOrder(requests', {"unlock_and_destroy"}, {"unlock_and_destroy"}) /\ NoLockRequest
    BY <2>1, ServeEnds
  <2>3. UnlockOnce' /\ DestroyExcused'
    BY <1>0, <2>1, <2>2
       DEF EndsRightly, UnlockOnce, DestroyExcused, NoLockRequest, LockRequests
  <2>4. LockedHeard'
    BY <1>0, <2>1 DEF EndsRightly, LockedHeard
  <2> QED BY <1>1, <2>3, <2>4 DEF EndsRightly
<1>3. CASE Serve("unlock_and_destroy") /\ lock_state = "locked" /\ lock_state' = "unlocked"
  <2>1. /\ InOrder(requests', {"unlock_and_destroy"}, {"unlock_and_destroy"})
        /\ ~Requested("unlock_and_destroy")' /\ NoLockRequest
    BY <1>3, ServeEnds
  <2>2. UnlockOnce' /\ DestroyExcused'
    BY <1>0, <1>3, <2>1
       DEF EndsRightly, UnlockOnce, DestroyExcused, NoLockRequest, LockRequests
  <2>3. LockedHeard'
    BY <1>0, <1>3 DEF LockedHeard
  <2> QED BY <1>1, <2>2, <2>3 DEF EndsRightly
<1>4. CASE Serve("destroy") /\ lock_state # "locked" /\ lock_state' = "destroyed"
  <2>1. /\ InOrder(requests', {"unlock_and_destroy"}, {"unlock_and_destroy"}) /\ NoLockRequest
    BY <1>4, ServeEnds
  <2>2. UnlockOnce' /\ DestroyExcused'
    BY <1>4, <2>1 DEF EndsRightly, UnlockOnce, DestroyExcused, NoLockRequest, LockRequests
  <2>3. lock_state # "unlocked"
    BY <1>4, DestroyServed
  <2>4. LockedHeard'
    BY <1>0, <1>4, <2>3 DEF EndsRightly, LockedHeard
  <2> QED BY <1>1, <2>2, <2>4 DEF EndsRightly
<1> QED BY <1>2, <1>3, <1>4

LEMMA EndsCompNext ==
    ASSUME TypeInv, LockInv, EndsRightly, CompNext, UNCHANGED clientVars
    PROVE  EndsRightly'
<1>0. /\ UnlockOnce /\ LockErrors /\ InOrder(events, {"locked"}, {"finished"})
  BY DEF EndsRightly, LockedHeard
<1>1. CASE Die \/ (Hangup /\ UNCHANGED compVars)
  <2>1. /\ requests' = <<>> /\ conn' # "up"
        /\ UNCHANGED <<events, lock_state, revoked, perror>>
    BY <1>1 DEF Die, Hangup, compVars
  <2>2. UNCHANGED <<pc, g_should_exit, session_locked>>
    BY DEF clientVars, mainVars, lockVars
  <2>3. LockErrors'
    BY <1>0, <2>1, <2>2 DEF LockErrors
  <2> QED BY <2>1, <2>3, BreakEnds
<1>2. CASE GrantLock \/ DenyLock \/ RevokeLock
  BY <1>2, DecideEnds
<1>3. CASE ServeLock
  BY <1>3, ServedEnds DEF ServeLock
<1>4. CASE ServeUnlock
  <2>1. CASE lock_state # "locked" /\ Reject("unlock_and_destroy", "invalid_unlock")
    BY <2>1, RejectEnds
  <2> QED BY <1>4, <2>1, ServedEnds DEF ServeUnlock
<1>5. CASE ServeDestroy
  <2>1. CASE lock_state = "locked" /\ Reject("destroy", "invalid_destroy")
    BY <2>1, RejectEnds
  <2> QED BY <1>5, <2>1, ServedEnds DEF ServeDestroy
<1>6. CASE \/ ServeGetLockSurface /\ Reject("get_lock_surface", "duplicate_output")
           \/ ServeCommit /\ Reject("commit", "commit_before_first_ack")
  BY <1>6, RejectEnds
<1>7. CASE \/ Advertise \/ ServeSync \/ ServeAck
           \/ ServeGetLockSurface /\ ~Reject("get_lock_surface", "duplicate_output")
           \/ ServeCommit /\ ~Reject("commit", "commit_before_first_ack")
  <2>1. PICK type \in {"get_registry", "sync", "ack_configure", "get_lock_surface", "commit"} :
            Serve(type)
    BY <1>7 DEF Advertise, ServeSync, ServeAck, ServeGetLockSurface, ServeCommit
  <2>2. UNCHANGED <<conn, lock_state, revoked, perror>>
    BY <1>7, <2>1
       DEF Advertise, ServeSync, ServeAck, ServeGetLockSurface, ServeCommit, Serve, compVars
  <2>3. UnlockOnce' /\ (Requested("destroy")' => Requested("destroy"))
    BY <1>0, <2>1, <2>2, ServeEnds DEF UnlockOnce, NoLockRequest, LockRequests
  <2>4. LockErrors'
    BY <1>0, <2>2 DEF LockErrors, clientVars, mainVars, lockVars
  <2>5. PICK msgs \in Seq(Event) :
            Emit(msgs) /\ \A e \in Range(msgs) : e.type # "locked"
    <3>0. <<>> \in Seq(Event) /\ Range(<<>>) = {}
      BY SmallRange
    <3>1. CASE Advertise
      <4>1. PICK manager \in {<<>>, <<[type |-> "manager"]>>},
                 order \in [1..Cardinality(present) -> present] : Emit(Globals(manager, order))
        BY <3>1 DEF Advertise, Globals
      <4>2. /\ Globals(manager, order) \in Seq(Event)
            /\ \A e \in Range(Globals(manager, order)) : e.type \in {"manager", "global"}
        BY GlobalsTyped DEF TypeInv
      <4> QED BY <4>1, <4>2
    <3>2. CASE ServeSync
      <4> DEFINE m == <<[type |-> "done"]>>
      <4>1. Emit(m) /\ m \in Seq(Event) /\ Range(m) = {[type |-> "done"]}
        BY <3>2, EventsMade, SmallRange DEF ServeSync
      <4>2. \A e \in Range(m) : e.type # "locked"
        BY <4>1
      <4> HIDE DEF m
      <4> QED BY <4>1, <4>2
    <3>3. CASE (ServeAck \/ ServeCommit) /\ UNCHANGED events
      <4>1. Emit(<<>>)
        BY <3>3, ConcatEmptySeq DEF Emit, TypeInv, ConnTypeOK
      <4> QED BY <3>0, <4>1
    <3>4. CASE ServeGetLockSurface /\ ~Reject("get_lock_surface", "duplicate_output")
      <4> DEFINE o == Head(requests).output
                 m == <<[type |-> "configure", output |-> o]>>
      <4>1. Serve("get_lock_surface") /\ (Emit(m) \/ Emit(<<>>))
        BY <3>4 DEF ServeGetLockSurface
      <4>2. o \in Output
        BY <4>1, ServeFacts, RequestFields DEF TypeInv
      <4> HIDE DEF o
      <4>3. [type |-> "configure", output |-> o] \in Event
        BY <4>2, EventsMade
      <4>4. m \in Seq(Event) /\ Range(m) = {[type |-> "configure", output |-> o]}
        BY <4>3, SmallRange
      <4>5. \A e \in Range(m) : e.type # "locked"
        BY <4>4
      <4> HIDE DEF m
      <4> QED BY <3>0, <4>1, <4>4, <4>5
    <3> QED BY <1>7, <3>1, <3>2, <3>3, <3>4 DEF ServeAck, ServeCommit
  <2>6. /\ InOrder(events', {"locked"}, {"finished"})
        /\ Queued("locked") => Queued("locked")'
    BY <2>5, EmitEnds
  <2> QED BY <2>2, <2>3, <2>4, <2>6, CompEnds
<1>8. CASE Resize \/ DrawFrame \/ PressKey \/ Plug \/ Unplug \/ SendOther
  <2>1. UNCHANGED <<requests, conn, lock_state, revoked, perror>>
    BY <1>8 DEF Resize, DrawFrame, PressKey, Plug, Unplug, SendOther, compVars
  <2>2. PICK e \in Event : Emit(<<e>>) /\ e.type \in {"configure", "frame", "key", "global", "other"}
    BY <1>8, UserEvent
  <2>3. /\ InOrder(events', {"locked"}, {"finished"})
        /\ Queued("locked") => Queued("locked")'
    BY <2>2, EmitOneEnds
  <2>4. UnlockOnce' /\ LockErrors' /\ (Requested("destroy")' => Requested("destroy"))
    BY <1>0, <2>1 DEF UnlockOnce, LockErrors, Requested, clientVars, mainVars, lockVars
  <2> QED BY <2>1, <2>3, <2>4, CompEnds
<1> QED
  BY <1>1, <1>2, <1>3, <1>4, <1>5, <1>6, <1>7, <1>8 DEF CompNext, ServeRequest

LEMMA EndsNext == TypeInv /\ LockInv /\ EndsRightly /\ [Next]_vars => EndsRightly'
<1> SUFFICES ASSUME TypeInv, LockInv, EndsRightly, [Next]_vars
             PROVE  EndsRightly'
  OBVIOUS
<1>1. CASE ClientStep
  BY <1>1, EndsHandleEvent, EndsRunMain DEF ClientStep, ClientNext
<1>2. CASE CompStep
  BY <1>2, EndsCompNext DEF CompStep
<1>3. CASE UNCHANGED vars
  <2>1. UNCHANGED <<clientVars, requests, events, conn, lock_state, revoked, perror>>
    BY <1>3 DEF vars, connVars, compVars
  <2>2. /\ UnlockOnce' /\ LockErrors' /\ InOrder(events', {"locked"}, {"finished"})
        /\ Queued("locked") => Queued("locked")'
        /\ Requested("destroy")' => Requested("destroy")
    BY <2>1
       DEF EndsRightly, UnlockOnce, LockErrors, LockedHeard, Requested, Queued, clientVars,
           mainVars, lockVars
  <2> QED BY <2>1, <2>2, CompEnds
<1> QED BY <1>1, <1>2, <1>3 DEF Next

LEMMA EndsInvariant == Spec => []EndsRightly
BY EndsInit, EndsNext, TypeInvariant, LockInvariant, PTL DEF Spec

-----------------------------------------------------------------------------
(* Every step, as the queues see it *)

SurfaceRequests == [i \in 1..Len(lock_outputs) |-> GetLockSurface(lock_outputs[i])]

ConfigureAnswer(o) == <<AckConfigure(o), Commit({o}, NoSurface)>>

LastWords ==
    {<<Lock, Sync>>, <<UnlockAndDestroy, Sync>>, <<>>, <<UnlockAndDestroy>>, <<Destroy>>}

\* What a step of the client does to the requests.
ClientSends ==
    \/ HandleLocked /\ Send(SurfaceRequests)
    \/ HandleConfigure /\ Send(ConfigureAnswer(Head(events).output))
    \/ UNCHANGED configured /\ Send(<<Commit(configured, FrameSurface)>>)
    \/ UNCHANGED configured /\ \E msgs \in LastWords : Send(msgs)

LEMMA ClientSendsSo ==
    ASSUME TypeInv, ClientNext
    PROVE  ClientSends
<1>1. ASSUME UNCHANGED <<requests, configured>>
      PROVE  ClientSends
  <2>1. Send(<<>>) /\ <<>> \in LastWords
    BY <1>1, ConcatEmptySeq DEF Send, TypeInv, ConnTypeOK, LastWords
  <2> QED BY <1>1, <2>1 DEF ClientSends
<1>2. CASE HandleLocked \/ HandleConfigure
  BY <1>2 DEF HandleLocked, HandleConfigure, ClientSends, SurfaceRequests, ConfigureAnswer
<1>3. CASE \/ Synced \/ HandleOther \/ HandleManager \/ HandleGlobal \/ DropStaleEvent
           \/ HandleKey \/ LeaveLoop \/ KeepRunning \/ DispatchFails
           \/ UnlockRoundtripReturns \/ Signal
  BY <1>1, <1>3
     DEF Synced, HandleOther, HandleManager, HandleGlobal, DropStaleEvent, HandleKey, LeaveLoop,
         KeepRunning, DispatchFails, UnlockRoundtripReturns, Signal, connVars, outputVars
<1>4. CASE HandleFinished
  <2>1. UNCHANGED configured
    BY <1>4 DEF HandleFinished, outputVars
  <2>2. UNCHANGED requests \/ Send(<<Destroy>>)
    BY <1>4 DEF HandleFinished
  <2> QED BY <1>1, <2>1, <2>2 DEF ClientSends, LastWords
<1>5. CASE HandleFrame \/ EnterLoop
  BY <1>5 DEF HandleFrame, EnterLoop, ArmFrame, outputVars, ClientSends
<1>6. CASE GiveUp \/ LockRefused \/ RequestLock \/ UnlockSession \/ Teardown
  <2>1. Release \in LastWords
    BY DEF Release, LastWords, TypeInv, LockTypeOK
  <2>2. UNCHANGED configured
    BY <1>6 DEF GiveUp, LockRefused, RequestLock, UnlockSession, Teardown, outputVars
  <2>3. \E msgs \in LastWords : Send(msgs)
    BY <1>6, <2>1
       DEF GiveUp, LockRefused, RequestLock, UnlockSession, Teardown, Disconnect, LastWords
  <2> QED BY <2>2, <2>3 DEF ClientSends
<1> QED
  BY <1>2, <1>3, <1>4, <1>5, <1>6 DEF ClientNext, HandleEvent, RunMain

LEMMA SurfaceRequestsTyped ==
    ASSUME TypeInv
    PROVE  /\ SurfaceRequests \in Seq(Request) /\ Len(SurfaceRequests) = Len(lock_outputs)
           /\ \A i \in 1..Len(lock_outputs) :
                  /\ SurfaceRequests[i].type = "get_lock_surface"
                  /\ SurfaceRequests[i].output = lock_outputs[i]
           /\ \A r \in Range(SurfaceRequests) : r.type = "get_lock_surface"
<1>1. lock_outputs \in Seq(Output)
  BY DEF TypeInv, OutputTypeOK
<1>2. \A i \in 1..Len(lock_outputs) : GetLockSurface(lock_outputs[i]) \in Request
  BY <1>1, RequestsMade
<1>3. SurfaceRequests \in Seq(Request) /\ Len(SurfaceRequests) = Len(lock_outputs)
  BY <1>1, <1>2 DEF SurfaceRequests
<1> QED BY <1>1, <1>3 DEF SurfaceRequests, GetLockSurface, Range

LEMMA ConfigureAnswerTyped ==
    ASSUME TypeInv, Dispatch("configure")
    PROVE  LET o == Head(events).output IN
           /\ o \in Output /\ ConfigureAnswer(o) \in Seq(Request)
           /\ Range(ConfigureAnswer(o)) = {AckConfigure(o), Commit({o}, NoSurface)}
<1>1. Head(events).output \in Output
  BY DispatchFacts, EventFields DEF TypeInv
<1>2. \A o \in Output : ConfigureAnswer(o) \in Seq(Request)
  <2> TAKE o \in Output
  <2>1. {AckConfigure(o), Commit({o}, NoSurface)} \subseteq Request
    BY RequestsMade
  <2> QED BY <2>1 DEF ConfigureAnswer
<1> QED BY <1>1, <1>2, SmallRange DEF ConfigureAnswer

LEMMA FrameRequestTyped ==
    ASSUME TypeInv
    PROVE  /\ Commit(configured, FrameSurface) \in Request
           /\ <<Commit(configured, FrameSurface)>> \in Seq(Request)
           /\ Range(<<Commit(configured, FrameSurface)>>) = {Commit(configured, FrameSurface)}
<1>1. Commit(configured, FrameSurface) \in Request
  BY FrameSurfaceKnown, RequestsMade DEF TypeInv
<1> QED BY <1>1, SmallRange

LEMMA LastWordsTyped ==
    ASSUME NEW msgs \in LastWords
    PROVE  /\ msgs \in Seq(Request)
           /\ \A r \in Range(msgs) :
                  r.type \in {"lock", "sync", "unlock_and_destroy", "destroy"}
<1>1. \A r \in {Lock, Sync, UnlockAndDestroy, Destroy} :
          r.type \in {"lock", "sync", "unlock_and_destroy", "destroy"}
  BY DEF Lock, Sync, UnlockAndDestroy, Destroy
<1>2. msgs \in Seq(Request)
  BY LastRequests DEF LastWords
<1>3. Range(msgs) \subseteq {Lock, Sync, UnlockAndDestroy, Destroy}
  <2>1. /\ Range(<<Lock, Sync>>) = {Lock, Sync}
        /\ Range(<<UnlockAndDestroy, Sync>>) = {UnlockAndDestroy, Sync}
        /\ Range(<<>>) = {}
        /\ Range(<<UnlockAndDestroy>>) = {UnlockAndDestroy}
        /\ Range(<<Destroy>>) = {Destroy}
    BY SmallRange
  <2> QED BY <2>1 DEF LastWords
<1> QED BY <1>1, <1>2, <1>3

\* What a step of the compositor does to the requests.
LEMMA CompTakes ==
    ASSUME TypeInv, CompNext
    PROVE  \/ UNCHANGED <<requests, conn, surfaces, acked, perror>>
           \/ requests' = <<>> /\ conn' # "up" /\ UNCHANGED <<surfaces, acked, perror>>
           \/ \E type, error : Reject(type, error)
           \/ /\ requests # <<>> /\ requests' = Tail(requests) /\ UNCHANGED <<conn, perror>>
              /\ \/ ServeGetLockSurface \/ UNCHANGED surfaces
              /\ \/ ServeAck \/ (Head(requests).type # "ack_configure" /\ UNCHANGED acked)
<1>1. CASE ServeRequest /\ ~(\E type, error : Reject(type, error))
  <2>1. /\ requests # <<>> /\ requests' = Tail(requests) /\ UNCHANGED <<conn, perror>>
    BY <1>1
       DEF ServeRequest, Advertise, ServeSync, ServeLock, ServeUnlock, ServeDestroy,
           ServeGetLockSurface, ServeAck, ServeCommit, Serve, compVars
  <2>2. ServeGetLockSurface \/ UNCHANGED surfaces
    BY <1>1
       DEF ServeRequest, Advertise, ServeSync, ServeLock, ServeUnlock, ServeDestroy, ServeAck,
           ServeCommit, compVars
  <2>3. ServeAck \/ (Head(requests).type # "ack_configure" /\ UNCHANGED acked)
    BY <1>1
       DEF ServeRequest, Advertise, ServeSync, ServeLock, ServeUnlock, ServeDestroy,
           ServeGetLockSurface, ServeCommit, Serve, compVars
  <2> QED BY <2>1, <2>2, <2>3
<1>2. CASE Die \/ (Hangup /\ UNCHANGED compVars)
  BY <1>2 DEF Die, Hangup, compVars
<1>3. CASE \/ GrantLock \/ DenyLock \/ RevokeLock
           \/ Resize \/ DrawFrame \/ PressKey \/ Plug \/ Unplug \/ SendOther
  BY <1>3
     DEF GrantLock, DenyLock, RevokeLock, Resize, DrawFrame, PressKey, Plug, Unplug, SendOther,
         compVars
<1> QED BY <1>1, <1>2, <1>3 DEF CompNext

\* The step reads at most one event, or disconnects.
LEMMA ClientReads ==
    ASSUME ClientNext
    PROVE  /\ conn' = "up" => conn = "up"
           /\ (UNCHANGED events) \/ events' = <<>> \/ \E type : Dispatch(type)
<1>1. CASE HandleEvent
  BY <1>1
     DEF HandleEvent, Synced, HandleOther, HandleManager, HandleGlobal, HandleLocked,
         HandleFinished, DropStaleEvent, HandleConfigure, HandleFrame, HandleKey, Dispatch
<1>2. CASE RunMain \/ Signal
  BY <1>2
     DEF RunMain, GiveUp, RequestLock, LockRefused, EnterLoop, LeaveLoop, UnlockSession,
         KeepRunning, DispatchFails, UnlockRoundtripReturns, Teardown, Signal, Disconnect, connVars
<1> QED BY <1>1, <1>2 DEF ClientNext

LEMMA HeadOrTail ==
    ASSUME NEW S, NEW q \in Seq(S), q # <<>>
    PROVE  Range(q) = {Head(q)} \cup Range(Tail(q))
<1>1. /\ Len(q) \in Nat /\ Head(q) = q[1] /\ Len(Tail(q)) = Len(q) - 1
      /\ \A i \in 1..Len(Tail(q)) : Tail(q)[i] = q[i + 1]
  BY HeadTailProperties
<1>2. ASSUME NEW k \in 1..Len(q), k # 1
      PROVE  q[k] \in Range(Tail(q))
  <2>1. k - 1 \in 1..Len(Tail(q)) /\ (k - 1) + 1 = k
    BY <1>1, <1>2
  <2>2. Tail(q)[k - 1] = q[k] /\ DOMAIN Tail(q) = 1..Len(Tail(q))
    BY <1>1, <2>1, TailRange
  <2> QED BY <2>1, <2>2 DEF Range
<1>3. Range(q) \subseteq {Head(q)} \cup Range(Tail(q))
  BY <1>1, <1>2 DEF Range
<1>4. Head(q) \in Range(q) /\ Range(Tail(q)) \subseteq Range(q)
  BY TailRange
<1> QED BY <1>3, <1>4

-----------------------------------------------------------------------------
(* A surface is acknowledged before it is committed. *)

Acks(q) == {r.output : r \in {s \in Range(q) : s.type = "ack_configure"}}

\* What a commit in q puts on a surface is acknowledged: it is in done, or
\* the acknowledgement comes earlier in q.
CommitsCovered(q, done) ==
    \A j \in 1..Len(q) : q[j].type = "commit" =>
        \A o \in q[j].on :
            \/ o \in done
            \/ \E i \in 1..Len(q) : i < j /\ q[i].type = "ack_configure" /\ q[i].output = o

AckFirst ==
    /\ CommitsCovered(requests, acked)
    /\ conn = "up" => configured \subseteq acked \cup Acks(requests)

LEMMA NoAcks ==
    ASSUME NEW q, \A r \in Range(q) : r.type # "ack_configure"
    PROVE  Acks(q) = {}
BY DEF Acks

LEMMA NoCommits ==
    ASSUME NEW S, NEW q \in Seq(S), NEW done, \A r \in Range(q) : r.type # "commit"
    PROVE  CommitsCovered(q, done)
<1>1. \A j \in 1..Len(q) : q[j] \in Range(q)
  BY DEF Range
<1> QED BY <1>1 DEF CommitsCovered

LEMMA TailCovered ==
    ASSUME NEW S, NEW q \in Seq(S), q # <<>>, NEW done, NEW more, CommitsCovered(q, done),
           done \subseteq more, Head(q).type = "ack_configure" => Head(q).output \in more
    PROVE  /\ CommitsCovered(Tail(q), more)
           /\ Head(q).type = "commit" => Head(q).on \subseteq done
<1>1. /\ Len(q) \in Nat /\ Len(q) > 0 /\ Head(q) = q[1] /\ Len(Tail(q)) = Len(q) - 1
      /\ \A i \in 1..Len(Tail(q)) : Tail(q)[i] = q[i + 1]
  BY HeadTailProperties, EmptySeq
<1>2. CommitsCovered(Tail(q), more)
  <2> SUFFICES ASSUME NEW j \in 1..Len(Tail(q)), Tail(q)[j].type = "commit",
                      NEW o \in Tail(q)[j].on, o \notin more
               PROVE  \E i \in 1..Len(Tail(q)) :
                          /\ i < j /\ Tail(q)[i].type = "ack_configure"
                          /\ Tail(q)[i].output = o
    BY DEF CommitsCovered
  <2>1. j + 1 \in 1..Len(q) /\ q[j + 1].type = "commit" /\ o \in q[j + 1].on
    BY <1>1
  <2>2. PICK i \in 1..Len(q) : i < j + 1 /\ q[i].type = "ack_configure" /\ q[i].output = o
    BY <2>1 DEF CommitsCovered
  <2>3. i # 1
    BY <1>1, <2>2
  <2>4. i - 1 \in 1..Len(Tail(q)) /\ i - 1 < j /\ (i - 1) + 1 = i
    BY <1>1, <2>2, <2>3
  <2>5. Tail(q)[i - 1] = q[i]
    BY <1>1, <2>4
  <2> QED BY <2>2, <2>4, <2>5
<1>3. ASSUME Head(q).type = "commit", NEW o \in Head(q).on
      PROVE  o \in done
  <2>1. 1 \in 1..Len(q) /\ q[1].type = "commit" /\ o \in q[1].on
    BY <1>1, <1>3
  <2>2. ~\E i \in 1..Len(q) : i < 1
    BY <1>1
  <2> QED BY <2>1, <2>2 DEF CommitsCovered
<1> QED BY <1>2, <1>3

LEMMA ConcatCovered ==
    ASSUME NEW S, NEW q \in Seq(S), NEW m \in Seq(S), NEW done,
           CommitsCovered(q, done), CommitsCovered(m, done \cup Acks(q))
    PROVE  CommitsCovered(q \o m, done)
<1>1. /\ Len(q) \in Nat /\ Len(m) \in Nat /\ Len(q \o m) = Len(q) + Len(m)
      /\ \A k \in 1..Len(q) + Len(m) :
             (q \o m)[k] = IF k <= Len(q) THEN q[k] ELSE m[k - Len(q)]
  BY ConcatProperties, LenProperties
<1> SUFFICES ASSUME NEW j \in 1..Len(q \o m), (q \o m)[j].type = "commit",
                    NEW o \in (q \o m)[j].on, o \notin done
             PROVE  \E i \in 1..Len(q \o m) :
                        /\ i < j /\ (q \o m)[i].type = "ack_configure"
                        /\ (q \o m)[i].output = o
  BY DEF CommitsCovered
<1>2. CASE j <= Len(q)
  <2>1. j \in 1..Len(q) /\ q[j].type = "commit" /\ o \in q[j].on
    BY <1>1, <1>2
  <2>2. PICK i \in 1..Len(q) : i < j /\ q[i].type = "ack_configure" /\ q[i].output = o
    BY <2>1 DEF CommitsCovered
  <2>3. i \in 1..Len(q \o m) /\ (q \o m)[i] = q[i]
    BY <1>1
  <2> QED BY <2>2, <2>3
<1>3. CASE j > Len(q)
  <2> DEFINE k == j - Len(q)
  <2>1. k \in 1..Len(m) /\ m[k].type = "commit" /\ o \in m[k].on /\ j = k + Len(q)
    BY <1>1, <1>3
  <2> HIDE DEF k
  <2>2. CASE o \in Acks(q)
    <3>1. PICK r \in Range(q) : r.type = "ack_configure" /\ r.output = o
      BY <2>2 DEF Acks
    <3>2. PICK i \in 1..Len(q) : q[i] = r
      BY <3>1 DEF Range
    <3>3. i \in 1..Len(q \o m) /\ (q \o m)[i] = q[i] /\ i < j
      BY <1>1, <1>3
    <3> QED BY <3>1, <3>2, <3>3
  <2>3. CASE o \notin Acks(q)
    <3>1. PICK i \in 1..Len(m) : i < k /\ m[i].type = "ack_configure" /\ m[i].output = o
      BY <2>1, <2>3 DEF CommitsCovered
    <3>2. /\ i + Len(q) \in 1..Len(q \o m) /\ (q \o m)[i + Len(q)] = m[i]
          /\ i + Len(q) < j
      BY <1>1, <2>1, <3>1
    <3> QED BY <3>1, <3>2
  <2> QED BY <2>2, <2>3
<1> QED BY <1>1, <1>2, <1>3

LEMMA AckInit == Init => AckFirst
<1> SUFFICES ASSUME Init
             PROVE  AckFirst
  OBVIOUS
<1>1. requests = <<GetRegistry, Sync>> /\ configured = {}
  BY DEF Init, ClientInit
<1>2. requests \in Seq(Request)
  BY <1>1, RequestsMade
<1>3. \A r \in Range(requests) : r.type # "commit"
  BY <1>1, SmallRange DEF GetRegistry, Sync
<1> QED BY <1>1, <1>2, <1>3, NoCommits DEF AckFirst

LEMMA SendCovered ==
    ASSUME TypeInv, AckFirst, NEW msgs \in Seq(Request), Send(msgs),
           conn = "up" => CommitsCovered(msgs, acked \cup Acks(requests))
    PROVE  /\ CommitsCovered(requests', acked)
           /\ conn = "up" => Acks(requests') = Acks(requests) \cup Acks(msgs)
<1>1. CASE conn = "up"
  <2>1. requests' = requests \o msgs /\ requests \in Seq(Request)
    BY <1>1 DEF Send, TypeInv, ConnTypeOK
  <2>2. CommitsCovered(requests', acked)
    BY <1>1, <2>1, ConcatCovered DEF AckFirst
  <2>3. Range(requests') = Range(requests) \cup Range(msgs)
    BY <2>1, ConcatRange
  <2>4. Acks(requests') = Acks(requests) \cup Acks(msgs)
    BY <2>3 DEF Acks
  <2> QED BY <2>2, <2>4
<1>2. CASE conn # "up"
  BY <1>2 DEF Send, AckFirst
<1> QED BY <1>1, <1>2

\* lock_surface_configure acknowledges first and renders then.
LEMMA AnswerCovered ==
    ASSUME NEW o \in Output, NEW done
    PROVE  /\ CommitsCovered(ConfigureAnswer(o), done)
           /\ Acks(ConfigureAnswer(o)) = {o}
<1>1. /\ Len(ConfigureAnswer(o)) = 2
      /\ ConfigureAnswer(o)[1] = AckConfigure(o) /\ ConfigureAnswer(o)[2] = Commit({o}, NoSurface)
  BY DEF ConfigureAnswer
<1>2. /\ AckConfigure(o).type = "ack_configure" /\ AckConfigure(o).output = o
      /\ Commit({o}, NoSurface).type = "commit" /\ Commit({o}, NoSurface).on = {o}
  BY DEF AckConfigure, Commit
<1>3. CommitsCovered(ConfigureAnswer(o), done)
  BY <1>1, <1>2 DEF CommitsCovered
<1>4. Range(ConfigureAnswer(o)) = {AckConfigure(o), Commit({o}, NoSurface)}
  BY SmallRange DEF ConfigureAnswer
<1> QED BY <1>2, <1>3, <1>4 DEF Acks

LEMMA AckClientNext ==
    ASSUME TypeInv, AckFirst, ClientNext, UNCHANGED compVars
    PROVE  AckFirst'
<1>1. UNCHANGED acked /\ (conn' = "up" => conn = "up")
  BY ClientReads DEF compVars
<1>2. CASE HandleLocked /\ Send(SurfaceRequests)
  <2>1. /\ SurfaceRequests \in Seq(Request)
        /\ \A r \in Range(SurfaceRequests) : r.type \notin {"commit", "ack_configure"}
    BY SurfaceRequestsTyped
  <2>2. CommitsCovered(SurfaceRequests, acked \cup Acks(requests)) /\ Acks(SurfaceRequests) = {}
    BY <2>1, NoCommits, NoAcks
  <2>3. UNCHANGED configured
    BY <1>2 DEF HandleLocked
  <2> QED BY <1>1, <1>2, <2>1, <2>2, <2>3, SendCovered DEF AckFirst
<1>3. CASE HandleConfigure /\ Send(ConfigureAnswer(Head(events).output))
  <2> DEFINE o == Head(events).output
  <2>1. Dispatch("configure") /\ configured' = configured \cup {o}
    BY <1>3 DEF HandleConfigure
  <2>2. o \in Output /\ ConfigureAnswer(o) \in Seq(Request) /\ Send(ConfigureAnswer(o))
    BY <1>3, <2>1, ConfigureAnswerTyped
  <2> HIDE DEF o
  <2>3. /\ CommitsCovered(ConfigureAnswer(o), acked \cup Acks(requests))
        /\ Acks(ConfigureAnswer(o)) = {o}
    BY <2>2, AnswerCovered
  <2> QED BY <1>1, <2>1, <2>2, <2>3, SendCovered DEF AckFirst
<1>4. CASE UNCHANGED configured /\ Send(<<Commit(configured, FrameSurface)>>)
  <2> DEFINE m == <<Commit(configured, FrameSurface)>>
  <2>1. /\ m \in Seq(Request) /\ Range(m) = {Commit(configured, FrameSurface)} /\ Send(m)
        /\ Len(m) = 1 /\ m[1] = Commit(configured, FrameSurface)
    BY <1>4, FrameRequestTyped
  <2> HIDE DEF m
  <2>2. /\ Commit(configured, FrameSurface).type = "commit"
        /\ Commit(configured, FrameSurface).on = configured
    BY DEF Commit
  <2>3. conn = "up" => CommitsCovered(m, acked \cup Acks(requests))
    BY <2>1, <2>2 DEF CommitsCovered, AckFirst
  <2>4. Acks(m) = {}
    BY <2>1, <2>2, NoAcks
  <2> QED BY <1>1, <1>4, <2>1, <2>3, <2>4, SendCovered DEF AckFirst
<1>5. CASE UNCHANGED configured /\ \E msgs \in LastWords : Send(msgs)
  <2>1. PICK msgs \in LastWords : Send(msgs)
    BY <1>5
  <2>2. /\ msgs \in Seq(Request)
        /\ \A r \in Range(msgs) : r.type \notin {"commit", "ack_configure"}
    BY <2>1, LastWordsTyped
  <2>3. CommitsCovered(msgs, acked \cup Acks(requests)) /\ Acks(msgs) = {}
    BY <2>2, NoCommits, NoAcks
  <2> QED BY <1>1, <1>5, <2>1, <2>2, <2>3, SendCovered DEF AckFirst
<1> QED BY <1>2, <1>3, <1>4, <1>5, ClientSendsSo DEF ClientSends

LEMMA AckCompNext ==
    ASSUME TypeInv, AckFirst, CompNext, UNCHANGED clientVars
    PROVE  AckFirst'
<1>1. UNCHANGED configured
  BY DEF clientVars, outputVars
<1>2. CASE UNCHANGED <<requests, conn, acked>>
  BY <1>1, <1>2 DEF AckFirst
<1>3. CASE requests' = <<>> /\ conn' # "up"
  BY <1>3 DEF AckFirst, CommitsCovered
<1>4. CASE \E type, error : Reject(type, error)
  BY <1>4 DEF Reject, AckFirst, CommitsCovered
<1>5. CASE /\ requests # <<>> /\ requests' = Tail(requests) /\ UNCHANGED conn
           /\ ServeAck \/ (Head(requests).type # "ack_configure" /\ UNCHANGED acked)
  <2>1. requests \in Seq(Request)
    BY DEF TypeInv, ConnTypeOK
  <2>2. /\ acked \subseteq acked'
        /\ Head(requests).type = "ack_configure" => Head(requests).output \in acked'
    BY <1>5 DEF ServeAck
  <2>3. CommitsCovered(requests', acked')
    BY <1>5, <2>1, <2>2, TailCovered DEF AckFirst
  <2>4. Acks(requests) \subseteq acked' \cup Acks(requests')
    BY <1>5, <2>1, <2>2, HeadOrTail DEF Acks
  <2> QED BY <1>1, <1>5, <2>2, <2>3, <2>4 DEF AckFirst
<1> QED BY <1>2, <1>3, <1>4, <1>5, CompTakes

LEMMA AckNext == TypeInv /\ AckFirst /\ [Next]_vars => AckFirst'
<1> SUFFICES ASSUME TypeInv, AckFirst, [Next]_vars
             PROVE  AckFirst'
  OBVIOUS
<1>1. CASE UNCHANGED vars
  <2>1. UNCHANGED <<requests, conn, acked, configured>>
    BY <1>1 DEF vars, clientVars, connVars, compVars, outputVars
  <2> QED BY <2>1 DEF AckFirst
<1> QED BY <1>1, AckClientNext, AckCompNext DEF Next, ClientStep, CompStep

-----------------------------------------------------------------------------
(* The locked event comes once. *)

HeardOnce ==
    /\ locked => lock_state \notin {"none", "pending"}
    /\ Queued("locked") => ~locked
    /\ InOrder(events, {"locked"}, {"locked"})

LEMMA HeardInit == Init => HeardOnce
<1> SUFFICES ASSUME Init
             PROVE  HeardOnce
  OBVIOUS
<1>1. events = <<>> /\ ~locked
  BY DEF Init, ClientInit
<1> QED BY <1>1, SmallRange DEF HeardOnce, Queued, InOrder

LEMMA HeardClientNext ==
    ASSUME TypeInv, LockInv, HeardOnce, ClientNext, UNCHANGED compVars
    PROVE  HeardOnce'
<1>0. UNCHANGED lock_state
  BY DEF compVars
<1>1. /\ Queued("locked")' => Queued("locked")
      /\ InOrder(events', {"locked"}, {"locked"})
  <2>1. CASE UNCHANGED events
    BY <2>1 DEF HeardOnce, Queued
  <2>2. CASE events' = <<>>
    BY <2>2, SmallRange DEF Queued, InOrder
  <2>3. CASE \E type : Dispatch(type)
    <3>1. events \in Seq(Event) /\ events # <<>> /\ events' = Tail(events)
      BY <2>3 DEF Dispatch, TypeInv, ConnTypeOK
    <3> QED BY <3>1, TailRange, TailInOrder DEF HeardOnce, Queued
  <2> QED BY <2>1, <2>2, <2>3, ClientReads
<1>2. CASE HandleLocked
  <2>1. Dispatch("locked") /\ lock_object = "live"
    BY <1>2 DEF HandleLocked
  <2>2. /\ events \in Seq(Event) /\ events # <<>> /\ events' = Tail(events)
        /\ Head(events).type = "locked"
    BY <2>1 DEF Dispatch, TypeInv, ConnTypeOK
  <2>3. ~Queued("locked")'
    BY <2>2, TailInOrder DEF HeardOnce, Queued
  <2>4. lock_state \notin {"none", "pending"}
    BY <2>1, DispatchQueued DEF LockInv, EventsTrue
  <2> QED BY <1>0, <1>1, <2>3, <2>4 DEF HeardOnce
<1>3. CASE ~HandleLocked
  <2>1. UNCHANGED locked
    BY <1>3
       DEF ClientNext, HandleEvent, RunMain, Signal, Synced, HandleOther, HandleManager,
           HandleGlobal, HandleFinished, DropStaleEvent, HandleConfigure, HandleFrame, HandleKey,
           GiveUp, RequestLock, LockRefused, EnterLoop, LeaveLoop, UnlockSession, KeepRunning,
           DispatchFails, UnlockRoundtripReturns, Teardown, lockVars
  <2> QED BY <1>0, <1>1, <2>1 DEF HeardOnce
<1> QED BY <1>2, <1>3

\* Events other than locked.
LEMMA EmitHeard ==
    ASSUME TypeInv, HeardOnce, NEW msgs \in Seq(Event), Emit(msgs),
           \A e \in Range(msgs) : e.type # "locked"
    PROVE  /\ Queued("locked")' => Queued("locked")
           /\ InOrder(events', {"locked"}, {"locked"})
<1>1. CASE conn = "up"
  <2>1. events' = events \o msgs /\ events \in Seq(Event)
    BY <1>1 DEF Emit, TypeInv, ConnTypeOK
  <2>2. Range(events') = Range(events) \cup Range(msgs)
    BY <2>1, ConcatRange
  <2>3. InOrder(msgs, {"locked"}, {"locked"})
    BY NoneInOrder
  <2>4. InOrder(events', {"locked"}, {"locked"})
    BY <2>1, <2>3, ConcatInOrder DEF HeardOnce
  <2> QED BY <2>2, <2>4 DEF Queued
<1>2. CASE conn # "up"
  BY <1>2 DEF Emit, HeardOnce, Queued
<1> QED BY <1>1, <1>2

\* What a step of the compositor does to the events.
LEMMA CompEmits ==
    ASSUME TypeInv, CompNext
    PROVE  \/ UNCHANGED events
           \/ Advertise
           \/ GrantLock
           \/ Plug
           \/ \E e \in Event :
                  /\ Emit(<<e>>) /\ e.type \notin {"locked", "global"}
                  /\ e.type = "frame" => DrawFrame
<1>1. CASE \/ ServeLock \/ ServeUnlock \/ ServeDestroy \/ ServeAck \/ ServeCommit
           \/ Die \/ (Hangup /\ UNCHANGED compVars) \/ (\E type, error : Reject(type, error))
  BY <1>1
     DEF ServeLock, ServeUnlock, ServeDestroy, ServeAck, ServeCommit, Die, Hangup, Reject
<1>2. CASE ServeSync \/ DenyLock \/ RevokeLock \/ Unplug
  BY <1>2, EventsMade DEF ServeSync, DenyLock, RevokeLock, Unplug
<1>3. CASE Resize \/ DrawFrame \/ PressKey \/ SendOther
  BY <1>3, EventsMade, EnvironmentAssumption
     DEF Resize, DrawFrame, PressKey, SendOther, TypeInv, CompTypeOK
<1>4. CASE ServeGetLockSurface /\ ~\E type, error : Reject(type, error)
  <2> DEFINE o == Head(requests).output
  <2>1. Serve("get_lock_surface")
        /\ (Emit(<<[type |-> "configure", output |-> o]>>) \/ Emit(<<>>))
    BY <1>4 DEF ServeGetLockSurface
  <2>2. o \in Output
    BY <2>1, ServeFacts, RequestFields DEF TypeInv
  <2> HIDE DEF o
  <2>3. CASE Emit(<<>>)
    BY <2>3, ConcatEmptySeq DEF Emit, TypeInv, ConnTypeOK
  <2>4. CASE Emit(<<[type |-> "configure", output |-> o]>>)
    BY <2>2, <2>4, EventsMade
  <2> QED BY <2>1, <2>3, <2>4
<1> QED BY <1>1, <1>2, <1>3, <1>4 DEF CompNext, ServeRequest

\* The lock, as the compositor sees it, is never undecided again.
LEMMA DecidedOnce ==
    ASSUME TypeInv, LockInv, CompNext, locked => lock_state \notin {"none", "pending"},
           UNCHANGED clientVars
    PROVE  locked' => lock_state' \notin {"none", "pending"}
<1>1. UNCHANGED locked
  BY DEF clientVars, lockVars
<1>2. CASE ServeLock
  BY <1>1, <1>2, LockServed
<1>3. CASE ~ServeLock
  <2>1. UNCHANGED lock_state \/ lock_state' \in {"locked", "denied", "unlocked", "destroyed"}
    BY <1>3
       DEF CompNext, ServeRequest, Advertise, ServeSync, ServeUnlock, ServeDestroy,
           ServeGetLockSurface, ServeAck, ServeCommit, GrantLock, DenyLock, RevokeLock, Resize,
           DrawFrame, PressKey, Plug, Unplug, SendOther, Die, Reject, compVars
  <2> QED BY <1>1, <2>1
<1> QED BY <1>2, <1>3

LEMMA HeardCompNext ==
    ASSUME TypeInv, LockInv, HeardOnce, CompNext, UNCHANGED clientVars
    PROVE  HeardOnce'
<1>1. UNCHANGED locked /\ (locked' => lock_state' \notin {"none", "pending"})
  BY DecidedOnce DEF HeardOnce, clientVars, lockVars
<1>2. CASE UNCHANGED events
  BY <1>1, <1>2 DEF HeardOnce, Queued
<1>3. ASSUME NEW msgs \in Seq(Event), Emit(msgs), \A e \in Range(msgs) : e.type # "locked"
      PROVE  HeardOnce'
  BY <1>1, <1>3, EmitHeard DEF HeardOnce
<1>4. ASSUME NEW e \in Event, Emit(<<e>>), e.type # "locked"
      PROVE  HeardOnce'
  <2>1. <<e>> \in Seq(Event) /\ Range(<<e>>) = {e}
    BY SmallRange
  <2> QED BY <1>3, <1>4, <2>1
<1>5. CASE Advertise
  <2>1. PICK manager \in {<<>>, <<[type |-> "manager"]>>},
             order \in [1..Cardinality(present) -> present] : Emit(Globals(manager, order))
    BY <1>5 DEF Advertise, Globals
  <2>2. /\ Globals(manager, order) \in Seq(Event)
        /\ \A e \in Range(Globals(manager, order)) : e.type \in {"manager", "global"}
    BY GlobalsTyped DEF TypeInv
  <2> QED BY <1>3, <2>1, <2>2
<1>6. CASE Plug
  BY <1>4, <1>6, EventsMade, EnvironmentAssumption DEF Plug
<1>7. CASE GrantLock
  <2> DEFINE m == <<[type |-> "locked"]>>
  <2>1. /\ lock_state = "pending" /\ Emit(m) /\ m \in Seq(Event) /\ Len(m) = 1
        /\ Range(m) = {[type |-> "locked"]}
    BY <1>7, EventsMade, SmallRange DEF GrantLock
  <2>2. InOrder(m, {"locked"}, {"locked"})
    BY <2>1 DEF InOrder
  <2> HIDE DEF m
  <2>3. ~Queued("locked") /\ ~locked
    BY <2>1 DEF LockInv, EventsTrue, HeardOnce
  <2>4. InOrder(events', {"locked"}, {"locked"})
    <3>1. events \in Seq(Event) /\ (events' = events \o m \/ events' = events)
      BY <2>1 DEF Emit, TypeInv, ConnTypeOK
    <3>2. \A e \in Range(events) : e.type \notin {"locked"}
      BY <2>3 DEF Queued
    <3> QED BY <2>1, <2>2, <3>1, <3>2, ConcatInOrder DEF HeardOnce
  <2> QED BY <1>1, <2>3, <2>4 DEF HeardOnce
<1> QED BY <1>2, <1>4, <1>5, <1>6, <1>7, CompEmits

LEMMA HeardNext == TypeInv /\ LockInv /\ HeardOnce /\ [Next]_vars => HeardOnce'
<1> SUFFICES ASSUME TypeInv, LockInv, HeardOnce, [Next]_vars
             PROVE  HeardOnce'
  OBVIOUS
<1>1. CASE UNCHANGED vars
  <2>1. UNCHANGED <<events, lock_state, locked>>
    BY <1>1 DEF vars, clientVars, connVars, compVars, lockVars
  <2> QED BY <2>1 DEF HeardOnce, Queued
<1> QED BY <1>1, HeardClientNext, HeardCompNext DEF Next, ClientStep, CompStep

-----------------------------------------------------------------------------
(* Every monitor is announced once, and kept once. *)

\* In q, no two messages of a type are for the same output.
Distinct(q, type) ==
    \A i, j \in 1..Len(q) :
        q[i].type = type /\ q[j].type = type /\ q[i].output = q[j].output => i = j

Outputs(q, type) == {m.output : m \in {n \in Range(q) : n.type = type}}

LEMMA TailDistinct ==
    ASSUME NEW S, NEW q \in Seq(S), q # <<>>, NEW type, Distinct(q, type)
    PROVE  /\ Distinct(Tail(q), type)
           /\ Head(q).type = type => Head(q).output \notin Outputs(Tail(q), type)
<1>1. /\ Len(q) \in Nat /\ Len(q) > 0 /\ Head(q) = q[1] /\ Len(Tail(q)) = Len(q) - 1
      /\ \A i \in 1..Len(Tail(q)) : Tail(q)[i] = q[i + 1]
  BY HeadTailProperties, EmptySeq
<1>2. Distinct(Tail(q), type)
  <2> SUFFICES ASSUME NEW i \in 1..Len(Tail(q)), NEW j \in 1..Len(Tail(q)),
                      Tail(q)[i].type = type, Tail(q)[j].type = type,
                      Tail(q)[i].output = Tail(q)[j].output
               PROVE  i = j
    BY DEF Distinct
  <2>1. /\ i + 1 \in 1..Len(q) /\ j + 1 \in 1..Len(q)
        /\ q[i + 1] = Tail(q)[i] /\ q[j + 1] = Tail(q)[j]
    BY <1>1
  <2>2. i + 1 = j + 1
    BY <2>1 DEF Distinct
  <2> QED BY <2>2
<1>3. ASSUME Head(q).type = type, NEW r \in Range(Tail(q)), r.type = type,
             r.output = Head(q).output
      PROVE  FALSE
  <2>1. PICK i \in 1..Len(Tail(q)) : r = Tail(q)[i]
    BY <1>3, TailRange DEF Range
  <2>2. i + 1 \in 1..Len(q) /\ 1 \in 1..Len(q) /\ i + 1 # 1 /\ q[i + 1] = r
    BY <1>1, <2>1
  <2> QED BY <1>1, <1>3, <2>2 DEF Distinct
<1> QED BY <1>2, <1>3 DEF Outputs

LEMMA ConcatDistinct ==
    ASSUME NEW S, NEW q \in Seq(S), NEW m \in Seq(S), NEW type,
           Distinct(q, type), Distinct(m, type),
           Outputs(q, type) \cap Outputs(m, type) = {}
    PROVE  /\ Distinct(q \o m, type)
           /\ Outputs(q \o m, type) = Outputs(q, type) \cup Outputs(m, type)
<1>1. /\ Len(q) \in Nat /\ Len(m) \in Nat /\ Len(q \o m) = Len(q) + Len(m)
      /\ \A k \in 1..Len(q) + Len(m) :
             (q \o m)[k] = IF k <= Len(q) THEN q[k] ELSE m[k - Len(q)]
  BY ConcatProperties, LenProperties
<1>2. /\ \A k \in 1..Len(q) : q[k].type = type => q[k].output \in Outputs(q, type)
      /\ \A k \in 1..Len(m) : m[k].type = type => m[k].output \in Outputs(m, type)
  BY DEF Range, Outputs
<1>3. Distinct(q \o m, type)
  <2> SUFFICES ASSUME NEW i \in 1..Len(q \o m), NEW j \in 1..Len(q \o m),
                      (q \o m)[i].type = type, (q \o m)[j].type = type,
                      (q \o m)[i].output = (q \o m)[j].output
               PROVE  i = j
    BY DEF Distinct
  <2>1. CASE i <= Len(q) /\ j <= Len(q)
    BY <1>1, <2>1 DEF Distinct
  <2>2. CASE i > Len(q) /\ j > Len(q)
    <3>1. i - Len(q) \in 1..Len(m) /\ j - Len(q) \in 1..Len(m)
      BY <1>1, <2>2
    <3>2. (q \o m)[i] = m[i - Len(q)] /\ (q \o m)[j] = m[j - Len(q)]
      BY <1>1, <2>2
    <3>3. i - Len(q) = j - Len(q)
      BY <3>1, <3>2 DEF Distinct
    <3> QED BY <1>1, <3>3
  <2>3. CASE i <= Len(q) /\ j > Len(q)
    <3>1. i \in 1..Len(q) /\ j - Len(q) \in 1..Len(m)
          /\ (q \o m)[i] = q[i] /\ (q \o m)[j] = m[j - Len(q)]
      BY <1>1, <2>3
    <3> QED BY <1>2, <3>1
  <2>4. CASE i > Len(q) /\ j <= Len(q)
    <3>1. j \in 1..Len(q) /\ i - Len(q) \in 1..Len(m)
          /\ (q \o m)[j] = q[j] /\ (q \o m)[i] = m[i - Len(q)]
      BY <1>1, <2>4
    <3> QED BY <1>2, <3>1
  <2> QED BY <1>1, <2>1, <2>2, <2>3, <2>4
<1>4. Range(q \o m) = Range(q) \cup Range(m)
  BY ConcatRange
<1> QED BY <1>3, <1>4 DEF Outputs

LEMMA NoneDistinct ==
    ASSUME NEW S, NEW q \in Seq(S), NEW type, \A r \in Range(q) : r.type # type
    PROVE  Distinct(q, type) /\ Outputs(q, type) = {}
<1>1. \A j \in 1..Len(q) : q[j] \in Range(q)
  BY DEF Range
<1> QED BY <1>1 DEF Distinct, Outputs

LEMMA OneDistinct ==
    ASSUME NEW m
    PROVE  Distinct(<<m>>, m.type) /\ Outputs(<<m>>, m.type) = {m.output}
<1>1. Range(<<m>>) = {m}
  BY SmallRange
<1>2. Outputs(<<m>>, m.type) = {m.output}
  BY <1>1 DEF Outputs
<1>3. Distinct(<<m>>, m.type)
  BY DEF Distinct
<1> QED BY <1>2, <1>3

\* A message that is taken from a queue with distinct outputs.
LEMMA TakenOutputs ==
    ASSUME NEW S, NEW q \in Seq(S), q # <<>>, NEW type
    PROVE  /\ Outputs(Tail(q), type) \subseteq Outputs(q, type)
           /\ Head(q).type = type => Head(q).output \in Outputs(q, type)
BY TailRange DEF Outputs

Announced == Outputs(events, "global")

\* A monitor is new when it is announced, and unplugged ones do not return.
OutputsOnce ==
    /\ \A i, j \in 1..Len(lock_outputs) : lock_outputs[i] = lock_outputs[j] => i = j
    /\ Distinct(events, "global")
    /\ Announced \cap Range(lock_outputs) = {}
    /\ Announced \cup Range(lock_outputs) \subseteq present \cup Unpluggable
    /\ Requested("get_registry") => Announced = {} /\ Range(lock_outputs) = {}
    /\ InOrder(requests, {"get_registry"}, {"get_registry"})

LEMMA GlobalsDistinct ==
    ASSUME TypeInv, NEW manager \in {<<>>, <<[type |-> "manager"]>>},
           NEW order \in [1..Cardinality(present) -> present], Range(order) = present
    PROVE  /\ Globals(manager, order) \in Seq(Event)
           /\ Distinct(Globals(manager, order), "global")
           /\ Outputs(Globals(manager, order), "global") = present
<1> DEFINE globals == [i \in DOMAIN order |-> [type |-> "global", output |-> order[i]]]
<1>1. manager \in Seq(Event) /\ \A e \in Range(manager) : e.type # "global"
  <2>1. [type |-> "manager"] \in Event
    BY EventsMade
  <2>2. CASE manager = <<>>
    BY <2>2, SmallRange
  <2>3. CASE manager = <<[type |-> "manager"]>>
    BY <2>1, <2>3, SmallRange
  <2> QED BY <2>2, <2>3
<1>2. Cardinality(present) \in Nat /\ IsFiniteSet(present)
  BY FS_CardinalityType DEF TypeInv
<1>3. globals \in Seq(Event) /\ Len(globals) = Cardinality(present)
  <2>1. \A i \in DOMAIN order : [type |-> "global", output |-> order[i]] \in Event
    BY EventsMade DEF TypeInv, CompTypeOK
  <2> QED BY <1>2, <2>1
<1>4. \A i, j \in 1..Cardinality(present) : order[i] = order[j] => i = j
  <2>1. /\ IsFiniteSet(1..Cardinality(present))
        /\ Cardinality(1..Cardinality(present)) = Cardinality(present)
    BY <1>2, FS_Interval
  <2>2. order \in Surjection(1..Cardinality(present), present)
    BY DEF Surjection, Range
  <2>3. order \in Injection(1..Cardinality(present), present)
    BY <2>1, <2>2, FS_SurjSameCardinalityImpliesInj
  <2> QED BY <2>3 DEF Injection, IsInjective
<1>5. Distinct(globals, "global")
  BY <1>2, <1>3, <1>4 DEF Distinct
<1>6. Outputs(globals, "global") = present
  <2>1. \A i \in DOMAIN order : globals[i].type = "global" /\ globals[i].output = order[i]
    OBVIOUS
  <2>2. DOMAIN globals = DOMAIN order
    OBVIOUS
  <2> HIDE DEF globals
  <2> QED BY <2>1, <2>2 DEF Outputs, Range
<1>7. Globals(manager, order) = manager \o globals
  BY DEF Globals
<1> HIDE DEF globals
<1>8. Distinct(manager, "global") /\ Outputs(manager, "global") = {}
  BY <1>1, NoneDistinct
<1>9. manager \o globals \in Seq(Event)
  BY <1>1, <1>3, ConcatRange
<1>10. /\ Distinct(manager \o globals, "global")
       /\ Outputs(manager \o globals, "global")
              = Outputs(manager, "global") \cup Outputs(globals, "global")
  BY <1>1, <1>3, <1>5, <1>6, <1>8, ConcatDistinct
<1> QED BY <1>6, <1>7, <1>8, <1>9, <1>10

LEMMA OutputsInit == Init => OutputsOnce
<1> SUFFICES ASSUME Init
             PROVE  OutputsOnce
  OBVIOUS
<1>1. requests = <<GetRegistry, Sync>> /\ events = <<>> /\ lock_outputs = <<>>
  BY DEF Init, ClientInit
<1>2. Range(lock_outputs) = {} /\ Announced = {}
  BY <1>1, SmallRange DEF Announced, Outputs
<1>3. InOrder(requests, {"get_registry"}, {"get_registry"})
  BY <1>1 DEF InOrder, GetRegistry, Sync
<1> QED BY <1>1, <1>2, <1>3 DEF OutputsOnce, Distinct

\* Nobody asks for the registry again.
LEMMA RegistryClient ==
    ASSUME TypeInv, OutputsOnce, ClientNext
    PROVE  /\ Requested("get_registry")' => Requested("get_registry")
           /\ InOrder(requests', {"get_registry"}, {"get_registry"})
<1>1. ASSUME NEW msgs \in Seq(Request), Send(msgs),
             \A r \in Range(msgs) : r.type # "get_registry"
      PROVE  /\ Requested("get_registry")' => Requested("get_registry")
             /\ InOrder(requests', {"get_registry"}, {"get_registry"})
  <2>1. CASE conn = "up"
    <3>1. requests' = requests \o msgs /\ requests \in Seq(Request)
      BY <1>1, <2>1 DEF Send, TypeInv, ConnTypeOK
    <3>2. Range(requests') = Range(requests) \cup Range(msgs)
      BY <3>1, ConcatRange
    <3>3. InOrder(msgs, {"get_registry"}, {"get_registry"})
      BY <1>1, NoneInOrder
    <3>4. InOrder(requests', {"get_registry"}, {"get_registry"})
      BY <1>1, <3>1, <3>3, ConcatInOrder DEF OutputsOnce
    <3> QED BY <1>1, <3>2, <3>4 DEF Requested
  <2>2. CASE conn # "up"
    BY <1>1, <2>2 DEF Send, OutputsOnce, Requested
  <2> QED BY <2>1, <2>2
<1>2. CASE Send(SurfaceRequests)
  BY <1>1, <1>2, SurfaceRequestsTyped
<1>3. CASE HandleConfigure /\ Send(ConfigureAnswer(Head(events).output))
  <2> DEFINE o == Head(events).output
  <2>1. /\ ConfigureAnswer(o) \in Seq(Request)
        /\ Range(ConfigureAnswer(o)) = {AckConfigure(o), Commit({o}, NoSurface)}
    BY <1>3, ConfigureAnswerTyped DEF HandleConfigure
  <2>2. \A r \in Range(ConfigureAnswer(o)) : r.type # "get_registry"
    BY <2>1 DEF AckConfigure, Commit
  <2> QED BY <1>1, <1>3, <2>1, <2>2
<1>4. CASE Send(<<Commit(configured, FrameSurface)>>)
  <2>1. \A r \in Range(<<Commit(configured, FrameSurface)>>) : r.type # "get_registry"
    BY FrameRequestTyped DEF Commit
  <2> QED BY <1>1, <1>4, <2>1, FrameRequestTyped
<1>5. CASE \E msgs \in LastWords : Send(msgs)
  BY <1>1, <1>5, LastWordsTyped
<1> QED BY <1>2, <1>3, <1>4, <1>5, ClientSendsSo DEF ClientSends

LEMMA RegistryComp ==
    ASSUME TypeInv, OutputsOnce, CompNext
    PROVE  /\ Requested("get_registry")' => Requested("get_registry")
           /\ InOrder(requests', {"get_registry"}, {"get_registry"})
<1>1. CASE UNCHANGED requests
  BY <1>1 DEF OutputsOnce, Requested
<1>2. CASE requests' = <<>>
  BY <1>2, SmallRange DEF Requested, InOrder
<1>3. CASE requests # <<>> /\ requests' = Tail(requests)
  BY <1>3, TailRange, TailInOrder DEF OutputsOnce, Requested, TypeInv, ConnTypeOK
<1>4. UNCHANGED requests \/ requests' = <<>> \/ (requests # <<>> /\ requests' = Tail(requests))
  BY CompTakes DEF Reject
<1> QED BY <1>1, <1>2, <1>3, <1>4

\* Events are read or thrown away.
LEMMA AnnouncedLess ==
    ASSUME TypeInv, OutputsOnce, ClientNext
    PROVE  Distinct(events, "global")' /\ Announced' \subseteq Announced
<1>1. CASE UNCHANGED events
  BY <1>1 DEF OutputsOnce, Announced, Outputs, Distinct
<1>2. CASE events' = <<>>
  BY <1>2, SmallRange DEF Announced, Outputs, Distinct
<1>3. CASE \E type : Dispatch(type)
  <2>1. events \in Seq(Event) /\ events # <<>> /\ events' = Tail(events)
    BY <1>3 DEF Dispatch, TypeInv, ConnTypeOK
  <2>2. Distinct(Tail(events), "global")
    BY <2>1, TailDistinct DEF OutputsOnce
  <2>3. Outputs(Tail(events), "global") \subseteq Outputs(events, "global")
    BY <2>1, TakenOutputs
  <2>4. Distinct(events, "global")'
    BY <2>1, <2>2 DEF Distinct
  <2>5. Announced' = Outputs(Tail(events), "global")
    BY <2>1 DEF Announced, Outputs
  <2> QED BY <2>3, <2>4, <2>5 DEF Announced
<1> QED BY <1>1, <1>2, <1>3, ClientReads

LEMMA AppendKnown ==
    ASSUME NEW S, NEW q \in Seq(S), NEW o \in S
    PROVE  /\ Range(Append(q, o)) = Range(q) \cup {o}
           /\ (\A i, j \in 1..Len(q) : q[i] = q[j] => i = j) /\ o \notin Range(q) =>
                  \A i, j \in 1..Len(Append(q, o)) : Append(q, o)[i] = Append(q, o)[j] => i = j
<1>1. /\ Len(q) \in Nat /\ Len(Append(q, o)) = Len(q) + 1 /\ Append(q, o)[Len(q) + 1] = o
      /\ \A i \in 1..Len(q) : Append(q, o)[i] = q[i]
      /\ Append(q, o) \in Seq(S)
  BY AppendProperties, LenProperties
<1>2. \A i \in 1..Len(q) : q[i] \in Range(q)
  BY DEF Range
<1>3. Range(Append(q, o)) = Range(q) \cup {o}
  <2>1. Append(q, o)[Len(q) + 1] = o /\ \A i \in 1..Len(q) : Append(q, o)[i] = q[i]
    BY <1>1
  <2>2. DOMAIN Append(q, o) = 1..(Len(q) + 1) /\ DOMAIN q = 1..Len(q)
    BY <1>1
  <2>3. 1..(Len(q) + 1) = 1..Len(q) \cup {Len(q) + 1}
    BY <1>1
  <2> QED BY <2>1, <2>2, <2>3 DEF Range
<1>4. ASSUME \A i, j \in 1..Len(q) : q[i] = q[j] => i = j, o \notin Range(q),
             NEW i \in 1..Len(Append(q, o)), NEW j \in 1..Len(Append(q, o)),
             Append(q, o)[i] = Append(q, o)[j]
      PROVE  i = j
  <2>1. CASE i \in 1..Len(q) /\ j \in 1..Len(q)
    BY <1>1, <1>4, <2>1
  <2>2. CASE i = Len(q) + 1 /\ j \in 1..Len(q)
    BY <1>1, <1>2, <1>4, <2>2
  <2>3. CASE i \in 1..Len(q) /\ j = Len(q) + 1
    BY <1>1, <1>2, <1>4, <2>3
  <2> QED BY <1>1, <2>1, <2>2, <2>3
<1> QED BY <1>3, <1>4

LEMMA OutputsClientNext ==
    ASSUME TypeInv, OutputsOnce, ClientNext, UNCHANGED compVars
    PROVE  OutputsOnce'
<1>0. UNCHANGED present
  BY DEF compVars
<1>1. /\ Distinct(events, "global")' /\ Announced' \subseteq Announced
      /\ Requested("get_registry")' => Requested("get_registry")
      /\ InOrder(requests', {"get_registry"}, {"get_registry"})
  BY AnnouncedLess, RegistryClient
<1>2. CASE UNCHANGED lock_outputs
  BY <1>0, <1>1, <1>2 DEF OutputsOnce
<1>3. CASE HandleGlobal /\ lock_outputs' # lock_outputs
  <2> DEFINE o == Head(events).output
  <2>1. /\ Dispatch("global") /\ lock_outputs' = Append(lock_outputs, o)
        /\ lock_outputs \in Seq(Output) /\ o \in Output
    BY <1>3, DispatchFacts, EventFields DEF HandleGlobal, TypeInv, OutputTypeOK
  <2>2. /\ events \in Seq(Event) /\ events # <<>> /\ events' = Tail(events)
        /\ Head(events).type = "global"
    BY <2>1 DEF Dispatch, TypeInv, ConnTypeOK
  <2>3. o \in Announced /\ o \notin Outputs(Tail(events), "global")
    BY <2>2, TailDistinct, TakenOutputs DEF Announced, OutputsOnce
  <2>4. Announced' = Outputs(Tail(events), "global")
    BY <2>2 DEF Announced, Outputs
  <2> HIDE DEF o
  <2>5. o \notin Range(lock_outputs) /\ o \in present \cup Unpluggable
    BY <2>3 DEF OutputsOnce
  <2>6. Range(lock_outputs') = Range(lock_outputs) \cup {o}
    BY <2>1, AppendKnown
  <2>7. \A i, j \in 1..Len(lock_outputs') : lock_outputs'[i] = lock_outputs'[j] => i = j
    BY <2>1, <2>5, AppendKnown DEF OutputsOnce
  <2>8. Announced' \cap Range(lock_outputs') = {}
    BY <1>1, <2>3, <2>4, <2>6 DEF OutputsOnce
  <2>9. /\ Announced' \cup Range(lock_outputs') \subseteq present' \cup Unpluggable
        /\ ~Requested("get_registry")'
    BY <1>0, <1>1, <2>3, <2>5, <2>6 DEF OutputsOnce
  <2> QED BY <1>1, <2>7, <2>8, <2>9 DEF OutputsOnce
<1>4. CASE ~HandleGlobal
  <2>1. UNCHANGED lock_outputs
    BY <1>4
       DEF ClientNext, HandleEvent, RunMain, Signal, Synced, HandleOther, HandleManager,
           HandleLocked, HandleFinished, DropStaleEvent, HandleConfigure, HandleFrame, HandleKey,
           GiveUp, RequestLock, LockRefused, EnterLoop, LeaveLoop, UnlockSession, KeepRunning,
           DispatchFails, UnlockRoundtripReturns, Teardown, outputVars
  <2> QED BY <1>2, <2>1
<1> QED BY <1>2, <1>3, <1>4

\* New globals join those on their way.
LEMMA EmitDistinct ==
    ASSUME TypeInv, OutputsOnce, NEW msgs \in Seq(Event), Emit(msgs),
           Distinct(msgs, "global"), Announced \cap Outputs(msgs, "global") = {}
    PROVE  /\ Distinct(events, "global")'
           /\ Announced \subseteq Announced'
           /\ Announced' \subseteq Announced \cup Outputs(msgs, "global")
<1>1. CASE conn = "up"
  <2>1. events' = events \o msgs /\ events \in Seq(Event)
    BY <1>1 DEF Emit, TypeInv, ConnTypeOK
  <2>2. /\ Distinct(events \o msgs, "global")
        /\ Outputs(events \o msgs, "global") = Announced \cup Outputs(msgs, "global")
    BY <2>1, ConcatDistinct DEF OutputsOnce, Announced
  <2>3. Distinct(events, "global")'
    BY <2>1, <2>2 DEF Distinct
  <2>4. Announced' = Outputs(events \o msgs, "global")
    BY <2>1 DEF Announced, Outputs
  <2> QED BY <2>2, <2>3, <2>4
<1>2. CASE conn # "up"
  <2>1. UNCHANGED events
    BY <1>2 DEF Emit
  <2> QED BY <2>1 DEF OutputsOnce, Announced, Outputs, Distinct
<1> QED BY <1>1, <1>2

LEMMA OutputsCompNext ==
    ASSUME TypeInv, OutputsOnce, CompNext, UNCHANGED clientVars
    PROVE  OutputsOnce'
<1>1. /\ UNCHANGED lock_outputs
      /\ Requested("get_registry")' => Requested("get_registry")
      /\ InOrder(requests', {"get_registry"}, {"get_registry"})
  BY RegistryComp DEF clientVars, outputVars
<1>2. present \cup Unpluggable \subseteq present' \cup Unpluggable
  BY DEF CompNext, ServeRequest, Advertise, ServeSync, ServeLock, ServeUnlock, ServeDestroy,
         ServeGetLockSurface, ServeAck, ServeCommit, GrantLock, DenyLock, RevokeLock, Resize,
         DrawFrame, PressKey, Plug, Unplug, SendOther, Die, Reject, compVars
<1>3. ASSUME Distinct(events, "global")', Announced' = Announced
      PROVE  OutputsOnce'
  BY <1>1, <1>2, <1>3 DEF OutputsOnce
<1>4. CASE UNCHANGED events
  <2>1. Distinct(events, "global")' /\ Announced' = Announced
    BY <1>4 DEF OutputsOnce, Announced, Outputs, Distinct
  <2> QED BY <1>3, <2>1
<1>5. ASSUME NEW e \in Event, Emit(<<e>>), e.type # "global"
      PROVE  OutputsOnce'
  <2>1. <<e>> \in Seq(Event) /\ Range(<<e>>) = {e}
    BY SmallRange
  <2>2. Distinct(<<e>>, "global") /\ Outputs(<<e>>, "global") = {}
    BY <1>5, <2>1, NoneDistinct
  <2>3. Distinct(events, "global")' /\ Announced' = Announced
    BY <1>5, <2>1, <2>2, EmitDistinct
  <2> QED BY <1>3, <2>3
<1>6. CASE Advertise
  <2>1. PICK manager \in {<<>>, <<[type |-> "manager"]>>},
             order \in [1..Cardinality(present) -> present] :
                 Range(order) = present /\ Emit(Globals(manager, order))
    BY <1>6 DEF Advertise, Globals
  <2>2. /\ Globals(manager, order) \in Seq(Event)
        /\ Distinct(Globals(manager, order), "global")
        /\ Outputs(Globals(manager, order), "global") = present
    BY <2>1, GlobalsDistinct
  <2>3. Serve("get_registry") /\ UNCHANGED present
    BY <1>6 DEF Advertise, compVars
  <2>4. /\ requests \in Seq(Request) /\ requests # <<>> /\ requests' = Tail(requests)
        /\ Head(requests).type = "get_registry"
    BY <2>3 DEF Serve, TypeInv, ConnTypeOK
  <2>5. Requested("get_registry") /\ ~Requested("get_registry")'
    BY <2>4, TailRange, TailInOrder DEF OutputsOnce, Requested
  <2>6. Announced = {} /\ Range(lock_outputs) = {}
    BY <2>5 DEF OutputsOnce
  <2>7. Distinct(events, "global")' /\ Announced' \subseteq present
    BY <2>1, <2>2, <2>6, EmitDistinct
  <2>8. /\ Announced' \cap Range(lock_outputs') = {}
        /\ Announced' \cup Range(lock_outputs') \subseteq present' \cup Unpluggable
    BY <1>1, <2>3, <2>6, <2>7
  <2> QED BY <1>1, <2>5, <2>7, <2>8 DEF OutputsOnce
<1>7. CASE Plug
  <2>1. PICK o \in Pluggable \ present :
            present' = present \cup {o} /\ Emit(<<[type |-> "global", output |-> o]>>)
    BY <1>7 DEF Plug
  <2> DEFINE e == [type |-> "global", output |-> o]
  <2>2. e \in Event /\ e.type = "global" /\ e.output = o
    BY EventsMade, EnvironmentAssumption
  <2>3. o \notin present \cup Unpluggable
    BY HotplugAssumption
  <2>4. <<e>> \in Seq(Event) /\ Emit(<<e>>)
    BY <2>1, <2>2
  <2> HIDE DEF e
  <2>5. Distinct(<<e>>, "global") /\ Outputs(<<e>>, "global") = {o}
    BY <2>2, OneDistinct
  <2>6. o \notin Announced \cup Range(lock_outputs)
    BY <2>3 DEF OutputsOnce
  <2>7. Distinct(events, "global")' /\ Announced' \subseteq Announced \cup {o}
    BY <2>4, <2>5, <2>6, EmitDistinct
  <2>8. ~Requested("get_registry")'
    <3>1. ~\E i \in DOMAIN requests : requests[i].type = "get_registry"
      BY <1>7 DEF Plug
    <3> QED BY <1>1, <3>1 DEF Requested, Range
  <2>9. /\ Announced' \cap Range(lock_outputs') = {}
        /\ Announced' \cup Range(lock_outputs') \subseteq present' \cup Unpluggable
    BY <1>1, <2>1, <2>6, <2>7 DEF OutputsOnce
  <2> QED BY <1>1, <2>7, <2>8, <2>9 DEF OutputsOnce
<1>8. CASE GrantLock
  BY <1>5, <1>8, EventsMade DEF GrantLock
<1> QED BY <1>4, <1>5, <1>6, <1>7, <1>8, CompEmits

LEMMA OutputsNext == TypeInv /\ OutputsOnce /\ [Next]_vars => OutputsOnce'
<1> SUFFICES ASSUME TypeInv, OutputsOnce, [Next]_vars
             PROVE  OutputsOnce'
  OBVIOUS
<1>1. CASE UNCHANGED vars
  <2>1. UNCHANGED <<requests, events, lock_outputs, present>>
    BY <1>1 DEF vars, clientVars, connVars, compVars, outputVars
  <2> QED BY <2>1 DEF OutputsOnce, Announced, Outputs, Distinct, Requested
<1> QED BY <1>1, OutputsClientNext, OutputsCompNext DEF Next, ClientStep, CompStep

-----------------------------------------------------------------------------
(* Every monitor gets one lock surface. *)

SurfacesOnce ==
    /\ Distinct(requests, "get_lock_surface")
    /\ Outputs(requests, "get_lock_surface") \cap surfaces = {}

LEMMA SurfacesInit == Init => SurfacesOnce
<1> SUFFICES ASSUME Init
             PROVE  SurfacesOnce
  OBVIOUS
<1>1. requests = <<GetRegistry, Sync>>
  BY DEF Init
<1>2. requests \in Seq(Request)
  BY <1>1, RequestsMade
<1>3. \A r \in Range(requests) : r.type # "get_lock_surface"
  BY <1>1, SmallRange DEF GetRegistry, Sync
<1> QED BY <1>2, <1>3, NoneDistinct DEF SurfacesOnce

LEMMA SendDistinct ==
    ASSUME TypeInv, SurfacesOnce, NEW msgs \in Seq(Request), Send(msgs), UNCHANGED surfaces,
           Distinct(msgs, "get_lock_surface"),
           Outputs(msgs, "get_lock_surface")
               \cap (surfaces \cup Outputs(requests, "get_lock_surface")) = {}
    PROVE  SurfacesOnce'
<1>1. CASE conn = "up"
  <2>1. requests' = requests \o msgs /\ requests \in Seq(Request)
    BY <1>1 DEF Send, TypeInv, ConnTypeOK
  <2>2. /\ Distinct(requests', "get_lock_surface")
        /\ Outputs(requests', "get_lock_surface")
               = Outputs(requests, "get_lock_surface") \cup Outputs(msgs, "get_lock_surface")
    BY <2>1, ConcatDistinct DEF SurfacesOnce
  <2> QED BY <2>2 DEF SurfacesOnce
<1>2. CASE conn # "up"
  BY <1>2 DEF Send, SurfacesOnce
<1> QED BY <1>1, <1>2

LEMMA SurfacesClientNext ==
    ASSUME TypeInv, LockInv, HeardOnce, OutputsOnce, SurfacesOnce, ClientNext,
           UNCHANGED compVars
    PROVE  SurfacesOnce'
<1>0. UNCHANGED surfaces
  BY DEF compVars
<1>1. ASSUME NEW msgs \in Seq(Request), Send(msgs),
             \A r \in Range(msgs) : r.type # "get_lock_surface"
      PROVE  SurfacesOnce'
  <2>1. Distinct(msgs, "get_lock_surface") /\ Outputs(msgs, "get_lock_surface") = {}
    BY <1>1, NoneDistinct
  <2> QED BY <1>0, <1>1, <2>1, SendDistinct
<1>2. CASE HandleLocked /\ Send(SurfaceRequests)
  <2>1. ~locked /\ lock_surfaces = {}
    BY <1>2, DispatchQueued DEF HandleLocked, HeardOnce, LockInv, ClientKnows
  <2>2. surfaces = {} /\ Outputs(requests, "get_lock_surface") = {}
    BY <2>1 DEF TypeInv, OutputsKnown, Outputs
  <2>3. Distinct(SurfaceRequests, "get_lock_surface")
    BY SurfaceRequestsTyped DEF OutputsOnce, Distinct
  <2> QED BY <1>0, <1>2, <2>2, <2>3, SurfaceRequestsTyped, SendDistinct
<1>3. CASE HandleConfigure /\ Send(ConfigureAnswer(Head(events).output))
  <2> DEFINE o == Head(events).output
  <2>1. /\ ConfigureAnswer(o) \in Seq(Request)
        /\ Range(ConfigureAnswer(o)) = {AckConfigure(o), Commit({o}, NoSurface)}
    BY <1>3, ConfigureAnswerTyped DEF HandleConfigure
  <2>2. \A r \in Range(ConfigureAnswer(o)) : r.type # "get_lock_surface"
    BY <2>1 DEF AckConfigure, Commit
  <2> QED BY <1>1, <1>3, <2>1, <2>2
<1>4. CASE Send(<<Commit(configured, FrameSurface)>>)
  <2>1. \A r \in Range(<<Commit(configured, FrameSurface)>>) : r.type # "get_lock_surface"
    BY FrameRequestTyped DEF Commit
  <2> QED BY <1>1, <1>4, <2>1, FrameRequestTyped
<1>5. CASE \E msgs \in LastWords : Send(msgs)
  BY <1>1, <1>5, LastWordsTyped
<1> QED BY <1>2, <1>3, <1>4, <1>5, ClientSendsSo DEF ClientSends

LEMMA SurfacesCompNext ==
    ASSUME TypeInv, SurfacesOnce, CompNext
    PROVE  SurfacesOnce'
<1>1. CASE UNCHANGED <<requests, surfaces>>
  BY <1>1 DEF SurfacesOnce
<1>2. CASE requests' = <<>>
  BY <1>2, SmallRange DEF SurfacesOnce, Distinct, Outputs
<1>3. CASE /\ requests # <<>> /\ requests' = Tail(requests)
           /\ \/ ServeGetLockSurface \/ UNCHANGED surfaces
  <2>1. requests \in Seq(Request)
    BY DEF TypeInv, ConnTypeOK
  <2>2. /\ Distinct(Tail(requests), "get_lock_surface")
        /\ Head(requests).type = "get_lock_surface" =>
               Head(requests).output \notin Outputs(Tail(requests), "get_lock_surface")
        /\ Outputs(Tail(requests), "get_lock_surface")
               \subseteq Outputs(requests, "get_lock_surface")
    BY <1>3, <2>1, TailDistinct, TakenOutputs DEF SurfacesOnce
  <2>3. \/ UNCHANGED surfaces
        \/ /\ surfaces' = surfaces \cup {Head(requests).output}
           /\ Head(requests).type = "get_lock_surface"
    BY <1>3 DEF ServeGetLockSurface, Serve, Reject
  <2> QED BY <1>3, <2>2, <2>3 DEF SurfacesOnce
<1> QED BY <1>1, <1>2, <1>3, CompTakes DEF Reject

LEMMA SurfacesNext ==
    TypeInv /\ LockInv /\ HeardOnce /\ OutputsOnce /\ SurfacesOnce /\ [Next]_vars => SurfacesOnce'
<1> SUFFICES ASSUME TypeInv, LockInv, HeardOnce, OutputsOnce, SurfacesOnce, [Next]_vars
             PROVE  SurfacesOnce'
  OBVIOUS
<1>1. CASE UNCHANGED vars
  <2>1. UNCHANGED <<requests, surfaces>>
    BY <1>1 DEF vars, connVars, compVars
  <2> QED BY <2>1 DEF SurfacesOnce
<1> QED BY <1>1, SurfacesClientNext, SurfacesCompNext DEF Next, ClientStep, CompStep

-----------------------------------------------------------------------------
(* The protocol is kept. *)

\* No lock surface is asked for twice or shown before it is acknowledged.
SurfacesRightly == perror \notin {"duplicate_output", "commit_before_first_ack"}

LEMMA RightlyNext ==
    TypeInv /\ SurfacesOnce /\ AckFirst /\ SurfacesRightly /\ [Next]_vars => SurfacesRightly'
<1> SUFFICES ASSUME TypeInv, SurfacesOnce, AckFirst, SurfacesRightly, [Next]_vars
             PROVE  SurfacesRightly'
  OBVIOUS
<1>1. requests \in Seq(Request)
  BY DEF TypeInv, ConnTypeOK
<1>2. CASE ServeGetLockSurface
  <2>1. ~(Reject("get_lock_surface", "duplicate_output") /\ Head(requests).output \in surfaces)
    BY <1>1, TakenOutputs DEF Reject, SurfacesOnce
  <2> QED BY <1>2, <2>1 DEF ServeGetLockSurface, SurfacesRightly
<1>3. CASE ServeCommit
  <2>1. ~(Reject("commit", "commit_before_first_ack") /\ ~(Head(requests).on \subseteq acked))
    BY <1>1, TailCovered DEF Reject, AckFirst
  <2> QED BY <1>3, <2>1 DEF ServeCommit, SurfacesRightly
<1>4. CASE ServeUnlock \/ ServeDestroy
  BY <1>4 DEF ServeUnlock, ServeDestroy, Reject, SurfacesRightly
<1>5. CASE UNCHANGED perror
  BY <1>5 DEF SurfacesRightly
<1>6. CASE CompNext /\ ~ServeGetLockSurface /\ ~ServeCommit /\ ~ServeUnlock /\ ~ServeDestroy
  <2>1. UNCHANGED perror
    BY <1>6
       DEF CompNext, ServeRequest, Advertise, ServeSync, ServeLock, ServeAck, GrantLock,
           DenyLock, RevokeLock, Resize, DrawFrame, PressKey, Plug, Unplug, SendOther, Die,
           compVars
  <2> QED BY <1>5, <2>1
<1>7. UNCHANGED compVars \/ CompNext
  BY DEF Next, ClientStep, CompStep, vars
<1> QED BY <1>2, <1>3, <1>4, <1>5, <1>6, <1>7 DEF compVars

\* The surfaces and their requests, together.
SurfacesInv == HeardOnce /\ OutputsOnce /\ SurfacesOnce /\ AckFirst /\ SurfacesRightly

LEMMA SurfacesInvariant == Spec => []SurfacesInv
<1>1. Init => SurfacesInv
  <2>1. Init => SurfacesRightly
    BY DEF Init, CompInit, SurfacesRightly
  <2> QED BY <2>1, HeardInit, OutputsInit, SurfacesInit, AckInit DEF SurfacesInv
<1>2. TypeInv /\ LockInv /\ SurfacesInv /\ [Next]_vars => SurfacesInv'
  BY HeardNext, OutputsNext, SurfacesNext, AckNext, RightlyNext DEF SurfacesInv
<1> QED BY <1>1, <1>2, TypeInvariant, LockInvariant, PTL DEF Spec

\* The client never breaks the session-lock protocol but for the destroy of
\* main.c 203-208 after a signal: every lock surface is requested once
\* (lock_manager.h 60-82), acknowledged before it is rendered (14-54), and
\* the lock is unlocked once, when it is held (main.c 176-183, 203-208).
THEOREM ProtocolKept == Spec => []OnlyDestroyRace
<1>1. TypeInv /\ EndsRightly /\ SurfacesInv => OnlyDestroyRace
  BY DEF TypeInv, CompTypeOK, EndsRightly, LockErrors, SurfacesInv, SurfacesRightly,
         OnlyDestroyRace
<1> QED BY <1>1, TypeInvariant, EndsInvariant, SurfacesInvariant, PTL

-----------------------------------------------------------------------------
(* What is shown, once all is delivered. *)

\* A step of the client that shows nothing and asks for no frame.
Unseen ==
    /\ UNCHANGED <<configured, lock_surfaces, frame_cb>>
    /\ \/ UNCHANGED events
       \/ \E type \in {"done", "other", "manager", "global", "locked", "finished", "key"} :
              Dispatch(type)
    /\ \E msgs \in LastWords : Send(msgs)

LEMMA ClientMoves ==
    ASSUME TypeInv, ClientNext, conn' = "up"
    PROVE  HandleLocked \/ HandleConfigure \/ HandleFrame \/ EnterLoop \/ Unseen
<1>1. UNCHANGED requests => \E msgs \in LastWords : Send(msgs)
  <2>1. UNCHANGED requests => Send(<<>>)
    BY ConcatEmptySeq DEF Send, TypeInv, ConnTypeOK
  <2> QED BY <2>1 DEF LastWords
<1>2. CASE \/ Synced \/ HandleOther \/ HandleManager \/ HandleGlobal \/ DropStaleEvent
           \/ HandleKey
  <2>1. UNCHANGED <<requests, configured, lock_surfaces, frame_cb>>
    BY <1>2
       DEF Synced, HandleOther, HandleManager, HandleGlobal, DropStaleEvent, HandleKey, outputVars
  <2>2. \E type \in {"done", "other", "manager", "global", "locked", "finished", "key"} :
            Dispatch(type)
    BY <1>2 DEF Synced, HandleOther, HandleManager, HandleGlobal, DropStaleEvent, HandleKey
  <2> QED BY <1>1, <2>1, <2>2 DEF Unseen
<1>3. CASE HandleFinished
  <2>1. UNCHANGED <<configured, lock_surfaces, frame_cb>> /\ Dispatch("finished")
    BY <1>3 DEF HandleFinished, outputVars
  <2>2. UNCHANGED requests \/ Send(<<Destroy>>)
    BY <1>3 DEF HandleFinished
  <2> QED BY <1>1, <2>1, <2>2 DEF Unseen, LastWords
<1>4. CASE LeaveLoop \/ KeepRunning \/ DispatchFails \/ UnlockRoundtripReturns \/ Signal
  <2>1. UNCHANGED <<requests, events, configured, lock_surfaces, frame_cb>>
    BY <1>4
       DEF LeaveLoop, KeepRunning, DispatchFails, UnlockRoundtripReturns, Signal, connVars,
           outputVars
  <2> QED BY <1>1, <2>1 DEF Unseen
<1>5. CASE RequestLock \/ UnlockSession
  <2>1. UNCHANGED <<events, configured, lock_surfaces, frame_cb>>
    BY <1>5 DEF RequestLock, UnlockSession, outputVars
  <2>2. \E msgs \in LastWords : Send(msgs)
    BY <1>5 DEF RequestLock, UnlockSession, LastWords
  <2> QED BY <2>1, <2>2 DEF Unseen
<1>6. ~(GiveUp \/ LockRefused \/ Teardown)
  BY DEF GiveUp, LockRefused, Teardown, Disconnect
<1> QED
  BY <1>2, <1>3, <1>4, <1>5, <1>6 DEF ClientNext, HandleEvent, RunMain

\* The outputs that the commits in q show.
Shown(q) == UNION {r.on : r \in {s \in Range(q) : s.type = "commit"}}

\* An output with a lock surface is waiting for it, or has it; if it is there,
\* it waits for its configure, or is rendered; what is rendered is on its way
\* to the screen, or there.
ShownInv ==
    conn = "up" =>
        /\ lock_surfaces \subseteq surfaces \cup Outputs(requests, "get_lock_surface")
        /\ surfaces \cap present \subseteq configured \cup Outputs(events, "configure")
        /\ configured = mapped \cup Shown(requests)

LEMMA ShownInit == Init => ShownInv
<1> SUFFICES ASSUME Init
             PROVE  ShownInv
  OBVIOUS
<1>1. /\ requests = <<GetRegistry, Sync>> /\ lock_surfaces = {} /\ configured = {}
      /\ surfaces = {} /\ mapped = {}
  BY DEF Init, ClientInit, CompInit
<1>2. Shown(requests) = {}
  BY <1>1, SmallRange DEF Shown, GetRegistry, Sync
<1> QED BY <1>1, <1>2 DEF ShownInv

LEMMA SendShown ==
    ASSUME TypeInv, conn = "up", NEW msgs \in Seq(Request), Send(msgs)
    PROVE  /\ Shown(requests') = Shown(requests) \cup Shown(msgs)
           /\ \A type : Outputs(requests', type) = Outputs(requests, type) \cup Outputs(msgs, type)
<1>1. requests' = requests \o msgs /\ requests \in Seq(Request)
  BY DEF Send, TypeInv, ConnTypeOK
<1>2. Range(requests') = Range(requests) \cup Range(msgs)
  BY <1>1, ConcatRange
<1> QED BY <1>2 DEF Shown, Outputs

LEMMA DispatchShown ==
    ASSUME TypeInv, NEW type, Dispatch(type)
    PROVE  Outputs(events, "configure") \subseteq
               Outputs(events', "configure")
                   \cup (IF type = "configure" THEN {Head(events).output} ELSE {})
<1>1. events \in Seq(Event) /\ events # <<>> /\ events' = Tail(events) /\ Head(events).type = type
  BY DEF Dispatch, TypeInv, ConnTypeOK
<1>2. Range(events) = {Head(events)} \cup Range(events')
  BY <1>1, HeadOrTail
<1> QED BY <1>1, <1>2 DEF Outputs

LEMMA ShownClientNext ==
    ASSUME TypeInv, ShownInv, ClientNext, UNCHANGED compVars
    PROVE  ShownInv'
<1> SUFFICES ASSUME conn' = "up"
             PROVE  ShownInv'
  BY DEF ShownInv
<1>0. conn = "up" /\ UNCHANGED <<surfaces, present, mapped>>
  BY ClientReads DEF compVars
<1>1. CASE HandleLocked
  <2>1. /\ Dispatch("locked") /\ Send(SurfaceRequests) /\ lock_surfaces' = Range(lock_outputs)
        /\ UNCHANGED configured
    BY <1>1 DEF HandleLocked, SurfaceRequests
  <2>2. /\ SurfaceRequests \in Seq(Request) /\ Shown(SurfaceRequests) = {}
        /\ Range(lock_outputs) \subseteq Outputs(SurfaceRequests, "get_lock_surface")
    <3>1. Shown(SurfaceRequests) = {}
      BY SurfaceRequestsTyped DEF Shown
    <3>2. ASSUME NEW i \in DOMAIN lock_outputs
          PROVE  lock_outputs[i] \in Outputs(SurfaceRequests, "get_lock_surface")
      <4>1. i \in 1..Len(lock_outputs) /\ i \in DOMAIN SurfaceRequests
        BY DEF TypeInv, OutputTypeOK, SurfaceRequests
      <4>2. SurfaceRequests[i] \in Range(SurfaceRequests)
        BY <4>1 DEF Range
      <4> QED BY <4>1, <4>2, SurfaceRequestsTyped DEF Outputs
    <3> QED BY <3>1, <3>2, SurfaceRequestsTyped DEF Range
  <2>3. Outputs(events, "configure") \subseteq Outputs(events', "configure")
    BY <2>1, DispatchShown
  <2> QED BY <1>0, <2>1, <2>2, <2>3, SendShown DEF ShownInv
<1>2. CASE HandleConfigure
  <2> DEFINE o == Head(events).output
  <2>1. /\ Dispatch("configure") /\ configured' = configured \cup {o}
        /\ UNCHANGED lock_surfaces /\ Send(ConfigureAnswer(o))
    BY <1>2 DEF HandleConfigure, ConfigureAnswer
  <2>2. ConfigureAnswer(o) \in Seq(Request)
        /\ Range(ConfigureAnswer(o)) = {AckConfigure(o), Commit({o}, NoSurface)}
    BY <2>1, ConfigureAnswerTyped
  <2>3. Outputs(events, "configure") \subseteq Outputs(events', "configure") \cup {o}
    BY <2>1, DispatchShown
  <2> HIDE DEF o
  <2>4. Shown(ConfigureAnswer(o)) = {o}
    <3>1. /\ AckConfigure(o).type # "commit"
          /\ Commit({o}, NoSurface).type = "commit" /\ Commit({o}, NoSurface).on = {o}
      BY DEF AckConfigure, Commit
    <3>2. {r \in Range(ConfigureAnswer(o)) : r.type = "commit"} = {Commit({o}, NoSurface)}
      BY <2>2, <3>1
    <3> QED BY <3>1, <3>2 DEF Shown
  <2> QED BY <1>0, <2>1, <2>2, <2>3, <2>4, SendShown DEF ShownInv
<1>3. CASE HandleFrame \/ EnterLoop
  <2> DEFINE c == Commit(configured, FrameSurface)
  <2>1. Send(<<c>>) /\ UNCHANGED <<configured, lock_surfaces>>
    BY <1>3 DEF HandleFrame, EnterLoop, ArmFrame, outputVars
  <2>2. <<c>> \in Seq(Request) /\ Range(<<c>>) = {c}
    BY FrameRequestTyped
  <2>3. c.type = "commit" /\ c.on = configured
    BY DEF Commit
  <2> HIDE DEF c
  <2>4. Shown(<<c>>) = configured
    BY <2>2, <2>3 DEF Shown
  <2>5. UNCHANGED events \/ Dispatch("frame")
    BY <1>3 DEF HandleFrame, EnterLoop
  <2>6. Outputs(events, "configure") \subseteq Outputs(events', "configure")
    BY <2>5, DispatchShown DEF Outputs
  <2> QED BY <1>0, <2>1, <2>2, <2>4, <2>6, SendShown DEF ShownInv
<1>4. CASE Unseen
  <2>1. PICK msgs \in LastWords : Send(msgs)
    BY <1>4 DEF Unseen
  <2>2. msgs \in Seq(Request) /\ Shown(msgs) = {}
    BY <2>1, LastWordsTyped DEF Shown
  <2>3. Outputs(events, "configure") \subseteq Outputs(events', "configure")
    <3>1. CASE UNCHANGED events
      BY <3>1 DEF Outputs
    <3>2. CASE \E type \in {"done", "other", "manager", "global", "locked", "finished", "key"} :
                   Dispatch(type)
      <4>1. PICK type \in {"done", "other", "manager", "global", "locked", "finished", "key"} :
                Dispatch(type)
        BY <3>2
      <4>2. type # "configure"
        OBVIOUS
      <4> QED BY <4>1, <4>2, DispatchShown
    <3> QED BY <1>4, <3>1, <3>2 DEF Unseen
  <2> QED BY <1>0, <1>4, <2>1, <2>2, <2>3, SendShown DEF ShownInv, Unseen
<1> QED BY <1>1, <1>2, <1>3, <1>4, ClientMoves

\* What the compositor emits to a client that is there is queued.
LEMMA EmitArrives ==
    ASSUME TypeInv, NEW msgs \in Seq(Event), Emit(msgs), conn = "up"
    PROVE  Range(msgs) \subseteq Range(events')
<1>1. events' = events \o msgs /\ events \in Seq(Event)
  BY DEF Emit, TypeInv, ConnTypeOK
<1> QED BY <1>1, ConcatRange

LEMMA EmitGrows ==
    ASSUME TypeInv, NEW msgs \in Seq(Event), Emit(msgs)
    PROVE  Range(events) \subseteq Range(events')
<1>1. CASE conn = "up"
  <2>1. events' = events \o msgs /\ events \in Seq(Event)
    BY <1>1 DEF Emit, TypeInv, ConnTypeOK
  <2> QED BY <2>1, ConcatRange
<1>2. CASE conn # "up"
  BY <1>2 DEF Emit
<1> QED BY <1>1, <1>2

\* The compositor takes no event back.
LEMMA EventsGrow ==
    ASSUME TypeInv, CompNext
    PROVE  Range(events) \subseteq Range(events')
<1>1. ASSUME NEW e \in Event, Emit(<<e>>)
      PROVE  Range(events) \subseteq Range(events')
  <2>1. <<e>> \in Seq(Event)
    OBVIOUS
  <2> QED BY <1>1, <2>1, EmitGrows
<1>2. CASE Advertise
  <2>1. PICK manager \in {<<>>, <<[type |-> "manager"]>>},
             order \in [1..Cardinality(present) -> present] : Emit(Globals(manager, order))
    BY <1>2 DEF Advertise, Globals
  <2>2. Globals(manager, order) \in Seq(Event)
    BY GlobalsTyped DEF TypeInv
  <2> QED BY <2>1, <2>2, EmitGrows
<1>3. CASE GrantLock \/ Plug
  BY <1>1, <1>3, EventsMade, EnvironmentAssumption DEF GrantLock, Plug
<1> QED BY <1>1, <1>2, <1>3, CompEmits

\* What is left of the requests when the first is taken.
LEMMA ServeShown ==
    ASSUME TypeInv, NEW type, Serve(type)
    PROVE  LET r == Head(requests) IN
           /\ r.type = type
           /\ Shown(requests) = Shown(requests') \cup (IF type = "commit" THEN r.on ELSE {})
           /\ \A t : Outputs(requests, t) =
                         Outputs(requests', t) \cup (IF type = t THEN {r.output} ELSE {})
<1>1. /\ requests \in Seq(Request) /\ requests # <<>> /\ requests' = Tail(requests)
      /\ Head(requests).type = type
  BY DEF Serve, TypeInv, ConnTypeOK
<1>2. Range(requests) = {Head(requests)} \cup Range(requests')
  BY <1>1, HeadOrTail
<1>3. {s \in Range(requests) : s.type = "commit"}
          = {s \in Range(requests') : s.type = "commit"}
                \cup (IF type = "commit" THEN {Head(requests)} ELSE {})
  BY <1>1, <1>2
<1>4. Shown(requests) = Shown(requests') \cup (IF type = "commit" THEN Head(requests).on ELSE {})
  BY <1>3 DEF Shown
<1>5. \A t : Outputs(requests, t) =
                 Outputs(requests', t) \cup (IF type = t THEN {Head(requests).output} ELSE {})
  BY <1>1, <1>2 DEF Outputs
<1> QED BY <1>1, <1>4, <1>5

LEMMA ShownCompNext ==
    ASSUME TypeInv, OutputsOnce, ShownInv, CompNext, UNCHANGED clientVars
    PROVE  ShownInv'
<1> SUFFICES ASSUME conn' = "up"
             PROVE  ShownInv'
  BY DEF ShownInv
<1>0. UNCHANGED <<lock_surfaces, configured>>
  BY DEF clientVars, outputVars
<1>1. conn = "up"
  BY DEF CompNext, ServeRequest, Advertise, ServeSync, ServeLock, ServeUnlock, ServeDestroy,
         ServeGetLockSurface, ServeAck, ServeCommit, Serve, GrantLock, DenyLock, RevokeLock,
         Resize, DrawFrame, PressKey, Plug, Unplug, SendOther, Die, Hangup, Reject
<1>2. Outputs(events, "configure") \subseteq Outputs(events', "configure")
  BY EventsGrow DEF Outputs
<1>3. \A type, error : ~Reject(type, error)
  BY DEF Reject
<1>4. CASE ServeGetLockSurface
  <2> DEFINE o == Head(requests).output
  <2>1. /\ Serve("get_lock_surface") /\ surfaces' = surfaces \cup {o}
        /\ Emit(IF o \in present THEN <<[type |-> "configure", output |-> o]>> ELSE <<>>)
        /\ UNCHANGED <<present, mapped>>
    BY <1>3, <1>4 DEF ServeGetLockSurface
  <2>2. /\ Shown(requests) = Shown(requests')
        /\ Outputs(requests, "get_lock_surface")
               = Outputs(requests', "get_lock_surface") \cup {o}
    BY <2>1, ServeShown
  <2>3. o \in Output
    BY <2>1, ServeFacts, RequestFields DEF TypeInv
  <2> HIDE DEF o
  <2>4. o \in present => o \in Outputs(events', "configure")
    <3> SUFFICES ASSUME o \in present
                 PROVE  o \in Outputs(events', "configure")
      OBVIOUS
    <3> DEFINE e == [type |-> "configure", output |-> o]
    <3>1. e \in Event /\ e.type = "configure" /\ e.output = o
      BY <2>3, EventsMade
    <3>2. Emit(<<e>>) /\ <<e>> \in Seq(Event) /\ Range(<<e>>) = {e}
      BY <2>1, <3>1, SmallRange
    <3> HIDE DEF e
    <3>3. e \in Range(events')
      BY <1>1, <3>2, EmitArrives
    <3> QED BY <3>1, <3>3 DEF Outputs
  <2> QED BY <1>0, <1>1, <1>2, <2>1, <2>2, <2>4 DEF ShownInv
<1>5. CASE ServeCommit
  <2>1. /\ Serve("commit") /\ mapped' = mapped \cup Head(requests).on
        /\ UNCHANGED <<surfaces, present>>
    BY <1>3, <1>5 DEF ServeCommit
  <2>2. /\ Shown(requests) = Shown(requests') \cup Head(requests).on
        /\ Outputs(requests, "get_lock_surface") = Outputs(requests', "get_lock_surface")
    BY <2>1, ServeShown
  <2> QED BY <1>0, <1>1, <1>2, <2>1, <2>2 DEF ShownInv
<1>6. CASE Advertise \/ ServeSync \/ ServeLock \/ ServeUnlock \/ ServeDestroy \/ ServeAck
  <2>1. UNCHANGED <<surfaces, present, mapped>>
    BY <1>3, <1>6
       DEF Advertise, ServeSync, ServeLock, ServeUnlock, ServeDestroy, ServeAck, compVars
  <2>2. \E type \in {"get_registry", "sync", "lock", "unlock_and_destroy", "destroy",
                     "ack_configure"} : Serve(type)
    BY <1>3, <1>6
       DEF Advertise, ServeSync, ServeLock, ServeUnlock, ServeDestroy, ServeAck
  <2>3. /\ Shown(requests) = Shown(requests')
        /\ Outputs(requests, "get_lock_surface") = Outputs(requests', "get_lock_surface")
    BY <2>2, ServeShown
  <2> QED BY <1>0, <1>1, <1>2, <2>1, <2>3 DEF ShownInv
<1>7. CASE Plug
  <2>1. PICK o \in Pluggable \ present : present' = present \cup {o}
    BY <1>7 DEF Plug
  <2>2. o \notin surfaces
    <3>1. o \notin present \cup Unpluggable
      BY <2>1, HotplugAssumption
    <3>2. surfaces \subseteq Range(lock_outputs)
      BY DEF TypeInv, OutputsKnown, OutputTypeOK
    <3> QED BY <3>1, <3>2 DEF OutputsOnce
  <2>3. UNCHANGED <<requests, surfaces, mapped>>
    BY <1>7 DEF Plug
  <2> QED BY <1>0, <1>1, <1>2, <2>1, <2>2, <2>3 DEF ShownInv
<1>8. CASE \/ GrantLock \/ DenyLock \/ RevokeLock \/ Resize \/ DrawFrame \/ PressKey
           \/ Unplug \/ SendOther
  <2>1. UNCHANGED <<requests, surfaces, mapped>> /\ present' \subseteq present
    BY <1>8
       DEF GrantLock, DenyLock, RevokeLock, Resize, DrawFrame, PressKey, Unplug, SendOther,
           compVars
  <2> QED BY <1>0, <1>1, <1>2, <2>1 DEF ShownInv
<1>9. ~(Die \/ Hangup)
  BY <1>1 DEF Die, Hangup
<1> QED
  BY <1>4, <1>5, <1>6, <1>7, <1>8, <1>9 DEF CompNext, ServeRequest

\* When all is delivered, every monitor that got a lock surface and is still
\* there shows it (lock_manager.h 14-54, 60-82; wl_callback_listener.h 64-85).
THEOREM SurfacesGetShown == Spec => []SettledSurfacesShown
<1>1. TypeInv /\ OutputsOnce /\ ShownInv /\ [Next]_vars => ShownInv'
  <2> SUFFICES ASSUME TypeInv, OutputsOnce, ShownInv, [Next]_vars
               PROVE  ShownInv'
    OBVIOUS
  <2>1. CASE UNCHANGED vars
    <3>1. UNCHANGED <<requests, events, conn, lock_surfaces, configured, present, surfaces,
                      mapped>>
      BY <2>1 DEF vars, clientVars, connVars, compVars, outputVars
    <3> QED BY <3>1 DEF ShownInv, Outputs, Shown
  <2> QED BY <2>1, ShownClientNext, ShownCompNext DEF Next, ClientStep, CompStep
<1>2. TypeInv /\ ShownInv => SettledSurfacesShown
  <2> SUFFICES ASSUME TypeInv, ShownInv, conn = "up", requests = <<>>, ~Pending("configure")
               PROVE  /\ surfaces = lock_surfaces
                      /\ mapped = configured
                      /\ lock_surfaces \cap present \subseteq mapped
    BY DEF SettledSurfacesShown
  <2>1. Shown(requests) = {} /\ Outputs(requests, "get_lock_surface") = {}
    BY SmallRange DEF Shown, Outputs
  <2>2. Outputs(events, "configure") = {}
    BY DEF Outputs, Pending, Range
  <2>3. surfaces \subseteq lock_surfaces
    BY DEF TypeInv, OutputsKnown
  <2> QED BY <2>1, <2>2, <2>3 DEF ShownInv
<1>3. SurfacesInv => OutputsOnce
  BY DEF SurfacesInv
<1> QED BY <1>1, <1>2, <1>3, ShownInit, TypeInvariant, SurfacesInvariant, PTL DEF Spec

-----------------------------------------------------------------------------
(* The frame callback is never lost and never doubled. *)

Has(q, F) == Range(q) \cap F # {}

Once(q, F) == \A i, j \in 1..Len(q) : q[i] \in F /\ q[j] \in F => i = j

\* Commits that carry the callback, and the events that end it.
Carrier == {r \in Request : r.type = "commit" /\ r.frame \in r.on}

FrameEvent == {e \in Event : e.type = "frame"}

Carried == Has(requests, Carrier) \/ frame_ready # NoFrame \/ Has(events, FrameEvent)

\* The callback is in one place at most.
Alone ==
    /\ Once(requests, Carrier) /\ Once(events, FrameEvent)
    /\ Has(requests, Carrier) => frame_ready = NoFrame /\ ~Has(events, FrameEvent)
    /\ frame_ready # NoFrame => ~Has(events, FrameEvent)

\* Until main() enters its loop there is none; then it is somewhere, unless
\* there was nothing configured to ask on.
FrameInv ==
    conn = "up" /\ pc \in {"connecting", "locking", "running", "unlocking"} =>
        /\ Alone
        /\ Carried <=> frame_cb \in Output
        /\ pc \in {"connecting", "locking"} => frame_cb = NoSurface

LEMMA TailOnce ==
    ASSUME NEW S, NEW q \in Seq(S), q # <<>>, NEW F, Once(q, F)
    PROVE  /\ Once(Tail(q), F)
           /\ Head(q) \in F => Has(q, F) /\ ~Has(Tail(q), F)
           /\ Head(q) \notin F => (Has(Tail(q), F) <=> Has(q, F))
<1>1. /\ Len(q) \in Nat /\ Len(q) > 0 /\ Head(q) = q[1] /\ Len(Tail(q)) = Len(q) - 1
      /\ \A i \in 1..Len(Tail(q)) : Tail(q)[i] = q[i + 1]
  BY HeadTailProperties, EmptySeq
<1>2. Once(Tail(q), F)
  <2> SUFFICES ASSUME NEW i \in 1..Len(Tail(q)), NEW j \in 1..Len(Tail(q)),
                      Tail(q)[i] \in F, Tail(q)[j] \in F
               PROVE  i = j
    BY DEF Once
  <2>1. /\ i + 1 \in 1..Len(q) /\ j + 1 \in 1..Len(q)
        /\ q[i + 1] = Tail(q)[i] /\ q[j + 1] = Tail(q)[j]
    BY <1>1
  <2>2. i + 1 = j + 1
    BY <2>1 DEF Once
  <2> QED BY <2>2
<1>3. ASSUME Head(q) \in F, NEW r \in Range(Tail(q)), r \in F
      PROVE  FALSE
  <2>1. PICK i \in 1..Len(Tail(q)) : r = Tail(q)[i]
    BY <1>3, TailRange DEF Range
  <2>2. i + 1 \in 1..Len(q) /\ 1 \in 1..Len(q) /\ i + 1 # 1 /\ q[i + 1] = r
    BY <1>1, <2>1
  <2> QED BY <1>1, <1>3, <2>2 DEF Once
<1>4. Range(q) = {Head(q)} \cup Range(Tail(q))
  BY HeadOrTail
<1> QED BY <1>2, <1>3, <1>4 DEF Has

LEMMA ConcatOnce ==
    ASSUME NEW S, NEW q \in Seq(S), NEW m \in Seq(S), NEW F, Once(q, F), Once(m, F),
           ~(Has(q, F) /\ Has(m, F))
    PROVE  /\ Once(q \o m, F)
           /\ Has(q \o m, F) <=> Has(q, F) \/ Has(m, F)
<1>1. /\ Len(q) \in Nat /\ Len(m) \in Nat /\ Len(q \o m) = Len(q) + Len(m)
      /\ \A k \in 1..Len(q) + Len(m) :
             (q \o m)[k] = IF k <= Len(q) THEN q[k] ELSE m[k - Len(q)]
  BY ConcatProperties, LenProperties
<1>2. /\ \A k \in 1..Len(q) : q[k] \in F => Has(q, F)
      /\ \A k \in 1..Len(m) : m[k] \in F => Has(m, F)
  BY DEF Range, Has
<1>3. Once(q \o m, F)
  <2> SUFFICES ASSUME NEW i \in 1..Len(q \o m), NEW j \in 1..Len(q \o m),
                      (q \o m)[i] \in F, (q \o m)[j] \in F
               PROVE  i = j
    BY DEF Once
  <2>1. CASE i <= Len(q) /\ j <= Len(q)
    BY <1>1, <2>1 DEF Once
  <2>2. CASE i > Len(q) /\ j > Len(q)
    <3>1. i - Len(q) \in 1..Len(m) /\ j - Len(q) \in 1..Len(m)
      BY <1>1, <2>2
    <3>2. (q \o m)[i] = m[i - Len(q)] /\ (q \o m)[j] = m[j - Len(q)]
      BY <1>1, <2>2
    <3>3. i - Len(q) = j - Len(q)
      BY <3>1, <3>2 DEF Once
    <3> QED BY <1>1, <3>3
  <2>3. CASE i <= Len(q) /\ j > Len(q)
    <3>1. i \in 1..Len(q) /\ j - Len(q) \in 1..Len(m)
          /\ (q \o m)[i] = q[i] /\ (q \o m)[j] = m[j - Len(q)]
      BY <1>1, <2>3
    <3> QED BY <1>2, <3>1
  <2>4. CASE i > Len(q) /\ j <= Len(q)
    <3>1. j \in 1..Len(q) /\ i - Len(q) \in 1..Len(m)
          /\ (q \o m)[j] = q[j] /\ (q \o m)[i] = m[i - Len(q)]
      BY <1>1, <2>4
    <3> QED BY <1>2, <3>1
  <2> QED BY <1>1, <2>1, <2>2, <2>3, <2>4
<1>4. Range(q \o m) = Range(q) \cup Range(m)
  BY ConcatRange
<1> QED BY <1>3, <1>4 DEF Has

LEMMA NoneOnce ==
    ASSUME NEW S, NEW q \in Seq(S), NEW F, Range(q) \cap F = {}
    PROVE  Once(q, F) /\ ~Has(q, F)
<1>1. \A j \in 1..Len(q) : q[j] \in Range(q)
  BY DEF Range
<1> QED BY <1>1 DEF Once, Has

LEMMA CountOnce ==
    ASSUME NEW S, NEW q \in Seq(S), NEW F, Once(q, F)
    PROVE  Cardinality({i \in DOMAIN q : q[i] \in F}) = IF Has(q, F) THEN 1 ELSE 0
<1>1. DOMAIN q = 1..Len(q)
  OBVIOUS
<1>2. CASE Has(q, F)
  <2>1. PICK k \in 1..Len(q) : q[k] \in F
    BY <1>2 DEF Has, Range
  <2>2. {i \in DOMAIN q : q[i] \in F} = {k}
    BY <1>1, <2>1 DEF Once
  <2> QED BY <1>2, <2>2, FS_Singleton
<1>3. CASE ~Has(q, F)
  <2>1. {i \in DOMAIN q : q[i] \in F} = {}
    BY <1>3 DEF Has, Range
  <2> QED BY <1>3, <2>1, FS_EmptySet
<1> QED BY <1>2, <1>3

LEMMA FrameInit == Init => FrameInv
<1> SUFFICES ASSUME Init
             PROVE  FrameInv
  OBVIOUS
<1>1. /\ requests = <<GetRegistry, Sync>> /\ events = <<>> /\ frame_cb = NoSurface
      /\ frame_ready = NoFrame
  BY DEF Init, ClientInit, CompInit
<1>2. Range(requests) \cap Carrier = {} /\ Range(events) \cap FrameEvent = {}
  BY <1>1, SmallRange DEF Carrier, GetRegistry, Sync
<1>3. requests \in Seq(Request) /\ events \in Seq(Event)
  BY <1>1, RequestsMade
<1>4. Alone /\ ~Carried
  BY <1>1, <1>2, <1>3, NoneOnce DEF Alone, Carried
<1>5. frame_cb \notin Output
  BY <1>1, OutputAssumption
<1> QED BY <1>1, <1>4, <1>5 DEF FrameInv

\* main() goes one way.
LEMMA MainForward ==
    ASSUME TypeInv, ClientNext
    PROVE  /\ pc' \in {"connecting", "locking", "running", "unlocking"} =>
                  pc \in {"connecting", "locking", "running", "unlocking"}
           /\ pc' \in {"connecting", "locking"} => pc \in {"connecting", "locking"}
<1>1. CASE HandleEvent
  <2>1. UNCHANGED pc
    BY <1>1
       DEF HandleEvent, Synced, HandleOther, HandleManager, HandleGlobal, HandleLocked,
           HandleFinished, DropStaleEvent, HandleConfigure, HandleFrame, HandleKey, Dispatch
  <2> QED BY <2>1
<1>2. CASE GiveUp \/ RequestLock \/ LockRefused \/ EnterLoop \/ UnlockSession \/ KeepRunning
  BY <1>2
     DEF GiveUp, RequestLock, LockRefused, EnterLoop, UnlockSession, KeepRunning, PassOver
<1>3. CASE LeaveLoop \/ DispatchFails \/ UnlockRoundtripReturns \/ Teardown \/ Signal
  BY <1>3 DEF LeaveLoop, DispatchFails, UnlockRoundtripReturns, Teardown, Signal
<1> QED BY <1>1, <1>2, <1>3 DEF ClientNext, RunMain

LEMMA SendOnce ==
    ASSUME TypeInv, Alone, conn = "up", NEW msgs \in Seq(Request), Send(msgs),
           Range(msgs) \cap Carrier = {}
    PROVE  Once(requests', Carrier) /\ (Has(requests', Carrier) <=> Has(requests, Carrier))
<1>1. requests' = requests \o msgs /\ requests \in Seq(Request)
  BY DEF Send, TypeInv, ConnTypeOK
<1>2. Once(msgs, Carrier) /\ ~Has(msgs, Carrier)
  BY NoneOnce
<1>3. Once(requests, Carrier)
  BY DEF Alone
<1>4. /\ Once(requests \o msgs, Carrier)
      /\ Has(requests \o msgs, Carrier) <=> Has(requests, Carrier) \/ Has(msgs, Carrier)
  BY <1>1, <1>2, <1>3, ConcatOnce
<1> QED BY <1>1, <1>2, <1>4

LEMMA DispatchOnce ==
    ASSUME TypeInv, Alone, NEW type, Dispatch(type)
    PROVE  /\ Once(events', FrameEvent)
           /\ type = "frame" => Has(events, FrameEvent) /\ ~Has(events', FrameEvent)
           /\ type # "frame" => (Has(events', FrameEvent) <=> Has(events, FrameEvent))
<1>1. /\ events \in Seq(Event) /\ events # <<>> /\ events' = Tail(events)
      /\ Head(events).type = type
  BY DEF Dispatch, TypeInv, ConnTypeOK
<1>2. Head(events) \in FrameEvent <=> type = "frame"
  BY <1>1, TailRange DEF FrameEvent
<1>3. Once(events, FrameEvent)
  BY DEF Alone
<1>4. /\ Once(Tail(events), FrameEvent)
      /\ Head(events) \in FrameEvent =>
             Has(events, FrameEvent) /\ ~Has(Tail(events), FrameEvent)
      /\ Head(events) \notin FrameEvent =>
             (Has(Tail(events), FrameEvent) <=> Has(events, FrameEvent))
  BY <1>1, <1>3, TailOnce
<1> QED BY <1>1, <1>2, <1>4

\* A new callback, while there is no other.
LEMMA ArmOnce ==
    ASSUME TypeInv, conn = "up", ArmFrame, Alone, ~Has(requests, Carrier), frame_ready = NoFrame,
           UNCHANGED frame_ready, Once(events', FrameEvent), ~Has(events', FrameEvent)
    PROVE  Alone' /\ (Carried' <=> frame_cb' \in Output)
<1> DEFINE c == Commit(configured, FrameSurface)
<1>1. Send(<<c>>) /\ frame_cb' = FrameSurface
  BY DEF ArmFrame
<1>2. c \in Request /\ <<c>> \in Seq(Request) /\ Range(<<c>>) = {c}
  BY FrameRequestTyped
<1>3. c.type = "commit" /\ c.on = configured /\ c.frame = FrameSurface
  BY DEF Commit
<1>4. FrameSurface \in configured <=> FrameSurface \in Output
  <2>1. FrameSurface \in configured \cup {Window} /\ configured \subseteq Output
    BY FrameSurfaceKnown DEF TypeInv
  <2> QED BY <2>1, OutputAssumption
<1>5. Len(<<c>>) = 1
  OBVIOUS
<1> HIDE DEF c
<1>6. Once(<<c>>, Carrier) /\ (Has(<<c>>, Carrier) <=> FrameSurface \in Output)
  BY <1>2, <1>3, <1>4, <1>5 DEF Once, Has, Carrier
<1>7. requests' = requests \o <<c>> /\ requests \in Seq(Request) /\ Once(requests, Carrier)
  BY <1>1 DEF Send, TypeInv, ConnTypeOK, Alone
<1>8. /\ Once(requests \o <<c>>, Carrier)
      /\ Has(requests \o <<c>>, Carrier) <=> Has(requests, Carrier) \/ Has(<<c>>, Carrier)
  BY <1>2, <1>6, <1>7, ConcatOnce
<1>9. Once(requests', Carrier) /\ (Has(requests', Carrier) <=> frame_cb' \in Output)
  BY <1>1, <1>6, <1>7, <1>8
<1>10. Carrier' = Carrier /\ FrameEvent' = FrameEvent
  BY DEF Carrier, FrameEvent, Request, Event
<1> QED BY <1>9, <1>10 DEF Alone, Carried

LEMMA FrameClientNext ==
    ASSUME TypeInv, FrameInv, ClientNext, UNCHANGED compVars
    PROVE  FrameInv'
<1> SUFFICES ASSUME conn' = "up", pc' \in {"connecting", "locking", "running", "unlocking"}
             PROVE  /\ Alone' /\ (Carried' <=> frame_cb' \in Output)
                    /\ pc' \in {"connecting", "locking"} => frame_cb' = NoSurface
  BY DEF FrameInv
<1>1. /\ conn = "up" /\ pc \in {"connecting", "locking", "running", "unlocking"}
      /\ pc' \in {"connecting", "locking"} => pc \in {"connecting", "locking"}
      /\ UNCHANGED frame_ready
  BY ClientReads, MainForward DEF compVars
<1>2. /\ Alone /\ (Carried <=> frame_cb \in Output)
      /\ pc \in {"connecting", "locking"} => frame_cb = NoSurface
  BY <1>1 DEF FrameInv
<1>3. NoSurface \notin Output
  BY OutputAssumption
<1>4. ASSUME UNCHANGED frame_cb, NEW msgs \in Seq(Request), Send(msgs),
             Range(msgs) \cap Carrier = {},
             (UNCHANGED events) \/ \E type : type # "frame" /\ Dispatch(type)
      PROVE  /\ Alone' /\ (Carried' <=> frame_cb' \in Output)
             /\ pc' \in {"connecting", "locking"} => frame_cb' = NoSurface
  <2>1. Once(requests', Carrier) /\ (Has(requests', Carrier) <=> Has(requests, Carrier))
    BY <1>1, <1>2, <1>4, SendOnce
  <2>2. Once(events', FrameEvent) /\ (Has(events', FrameEvent) <=> Has(events, FrameEvent))
    <3>1. CASE UNCHANGED events
      BY <1>2, <3>1 DEF Alone
    <3>2. CASE \E type : type # "frame" /\ Dispatch(type)
      BY <1>2, <3>2, DispatchOnce
    <3> QED BY <1>4, <3>1, <3>2
  <2> QED BY <1>1, <1>2, <1>4, <2>1, <2>2 DEF Alone, Carried
<1>5. CASE HandleLocked
  <2>1. UNCHANGED frame_cb /\ Send(SurfaceRequests) /\ Dispatch("locked")
    BY <1>5 DEF HandleLocked, SurfaceRequests
  <2>2. SurfaceRequests \in Seq(Request) /\ Range(SurfaceRequests) \cap Carrier = {}
    BY SurfaceRequestsTyped DEF Carrier
  <2> QED BY <1>4, <2>1, <2>2
<1>6. CASE HandleConfigure
  <2> DEFINE o == Head(events).output
  <2>1. UNCHANGED frame_cb /\ Send(ConfigureAnswer(o)) /\ Dispatch("configure")
    BY <1>6 DEF HandleConfigure, ConfigureAnswer
  <2>2. /\ o \in Output /\ ConfigureAnswer(o) \in Seq(Request)
        /\ Range(ConfigureAnswer(o)) = {AckConfigure(o), Commit({o}, NoSurface)}
    BY <2>1, ConfigureAnswerTyped
  <2> HIDE DEF o
  <2>3. Range(ConfigureAnswer(o)) \cap Carrier = {}
    BY <1>3, <2>2 DEF Carrier, AckConfigure, Commit
  <2> QED BY <1>4, <2>1, <2>2, <2>3
<1>7. CASE HandleFrame
  <2>1. Dispatch("frame") /\ ArmFrame
    BY <1>7 DEF HandleFrame
  <2>2. Once(events', FrameEvent) /\ Has(events, FrameEvent) /\ ~Has(events', FrameEvent)
    BY <1>2, <2>1, DispatchOnce
  <2>3. ~Has(requests, Carrier) /\ frame_ready = NoFrame
    BY <1>2, <2>2 DEF Alone
  <2>4. pc \notin {"connecting", "locking"}
    BY <1>2, <1>3, <2>2 DEF Carried
  <2> QED BY <1>1, <1>2, <2>1, <2>2, <2>3, <2>4, ArmOnce
<1>8. CASE EnterLoop
  <2>1. ArmFrame /\ UNCHANGED events /\ pc = "locking" /\ pc' = "running"
    BY <1>8 DEF EnterLoop
  <2>2. ~Carried
    BY <1>2, <1>3, <2>1
  <2>3. Once(events', FrameEvent) /\ ~Has(events', FrameEvent)
    BY <1>2, <2>1, <2>2 DEF Alone, Carried
  <2> QED BY <1>1, <1>2, <2>1, <2>2, <2>3, ArmOnce DEF Carried
<1>9. CASE Unseen
  <2>1. PICK msgs \in LastWords : Send(msgs)
    BY <1>9 DEF Unseen
  <2>2. msgs \in Seq(Request) /\ Range(msgs) \cap Carrier = {}
    BY <2>1, LastWordsTyped DEF Carrier
  <2>3. (UNCHANGED events) \/ \E type : type # "frame" /\ Dispatch(type)
    BY <1>9 DEF Unseen
  <2> QED BY <1>4, <1>9, <2>1, <2>2, <2>3 DEF Unseen
<1> QED BY <1>5, <1>6, <1>7, <1>8, <1>9, ClientMoves

LEMMA EmitOnce ==
    ASSUME TypeInv, Alone, NEW msgs \in Seq(Event), Emit(msgs), Range(msgs) \cap FrameEvent = {}
    PROVE  Once(events', FrameEvent) /\ (Has(events', FrameEvent) <=> Has(events, FrameEvent))
<1>1. CASE conn = "up"
  <2>1. events' = events \o msgs /\ events \in Seq(Event) /\ Once(events, FrameEvent)
    BY <1>1 DEF Emit, TypeInv, ConnTypeOK, Alone
  <2>2. Once(msgs, FrameEvent) /\ ~Has(msgs, FrameEvent)
    BY NoneOnce
  <2>3. /\ Once(events \o msgs, FrameEvent)
        /\ Has(events \o msgs, FrameEvent) <=> Has(events, FrameEvent) \/ Has(msgs, FrameEvent)
    BY <2>1, <2>2, ConcatOnce
  <2> QED BY <2>1, <2>2, <2>3
<1>2. CASE conn # "up"
  BY <1>2 DEF Emit, Alone
<1> QED BY <1>1, <1>2

LEMMA NoFrameEmitted ==
    ASSUME TypeInv, Alone, CompNext, ~DrawFrame
    PROVE  Once(events', FrameEvent) /\ (Has(events', FrameEvent) <=> Has(events, FrameEvent))
<1>1. CASE UNCHANGED events
  BY <1>1 DEF Alone
<1>2. ASSUME NEW e \in Event, Emit(<<e>>), e.type # "frame"
      PROVE  Once(events', FrameEvent) /\ (Has(events', FrameEvent) <=> Has(events, FrameEvent))
  <2>1. <<e>> \in Seq(Event) /\ Range(<<e>>) = {e}
    BY SmallRange
  <2>2. Range(<<e>>) \cap FrameEvent = {}
    BY <1>2, <2>1 DEF FrameEvent
  <2> QED BY <1>2, <2>1, <2>2, EmitOnce
<1>3. CASE Advertise
  <2>1. PICK manager \in {<<>>, <<[type |-> "manager"]>>},
             order \in [1..Cardinality(present) -> present] : Emit(Globals(manager, order))
    BY <1>3 DEF Advertise, Globals
  <2>2. /\ Globals(manager, order) \in Seq(Event)
        /\ Range(Globals(manager, order)) \cap FrameEvent = {}
    BY GlobalsTyped DEF TypeInv, FrameEvent
  <2> QED BY <2>1, <2>2, EmitOnce
<1>4. CASE GrantLock \/ Plug
  BY <1>2, <1>4, EventsMade, EnvironmentAssumption DEF GrantLock, Plug
<1> QED BY <1>1, <1>2, <1>3, <1>4, CompEmits

LEMMA FrameServeCommit ==
    ASSUME TypeInv, Alone, ServeCommit, \A type, error : ~Reject(type, error)
    PROVE  Alone' /\ (Carried' <=> Carried)
<1> DEFINE c == Head(requests)
<1>1. /\ requests \in Seq(Request) /\ requests # <<>> /\ requests' = Tail(requests)
      /\ c.type = "commit" /\ UNCHANGED events
      /\ frame_ready' = IF c.frame \in c.on THEN c.frame ELSE frame_ready
  BY DEF ServeCommit, Serve, TypeInv, ConnTypeOK
<1>2. c \in Request /\ c.on \subseteq Output
  BY <1>1, TailRange, RequestFields
<1>3. c \in Carrier <=> c.frame \in c.on
  BY <1>1, <1>2 DEF Carrier
<1>4. Once(requests, Carrier)
  BY DEF Alone
<1>5. /\ Once(Tail(requests), Carrier)
      /\ c \in Carrier => Has(requests, Carrier) /\ ~Has(Tail(requests), Carrier)
      /\ c \notin Carrier => (Has(Tail(requests), Carrier) <=> Has(requests, Carrier))
  BY <1>1, <1>4, TailOnce
<1> HIDE DEF c
<1>6. Carrier' = Carrier /\ FrameEvent' = FrameEvent
  BY DEF Carrier, FrameEvent, Request, Event
<1>7. c \in Carrier => frame_ready' # NoFrame
  BY <1>1, <1>2, <1>3, EnvironmentAssumption
<1> QED BY <1>1, <1>3, <1>5, <1>6, <1>7 DEF Alone, Carried

LEMMA FrameDrawn ==
    ASSUME TypeInv, Alone, DrawFrame
    PROVE  Alone' /\ Carried' /\ Carried
<1>1. /\ conn = "up" /\ frame_ready \in present /\ frame_ready' = NoFrame /\ UNCHANGED requests
  BY DEF DrawFrame
<1>2. frame_ready # NoFrame
  BY <1>1, EnvironmentAssumption DEF TypeInv, CompTypeOK
<1>3. PICK dt \in FrameTime : Emit(<<[type |-> "frame", dt |-> dt]>>)
  BY DEF DrawFrame
<1> DEFINE e == [type |-> "frame", dt |-> dt]
<1>4. e \in Event /\ e.type = "frame"
  BY EventsMade, EnvironmentAssumption
<1>5. Emit(<<e>>) /\ <<e>> \in Seq(Event) /\ Range(<<e>>) = {e} /\ Len(<<e>>) = 1
  BY <1>3, <1>4, SmallRange
<1> HIDE DEF e
<1>6. Once(<<e>>, FrameEvent) /\ Has(<<e>>, FrameEvent)
  BY <1>4, <1>5 DEF Once, Has, FrameEvent
<1>7. events' = events \o <<e>> /\ events \in Seq(Event) /\ Once(events, FrameEvent)
  BY <1>1, <1>5 DEF Emit, TypeInv, ConnTypeOK, Alone
<1>8. ~Has(events, FrameEvent) /\ ~Has(requests, Carrier)
  BY <1>2 DEF Alone
<1>9. /\ Once(events \o <<e>>, FrameEvent)
      /\ Has(events \o <<e>>, FrameEvent) <=> Has(events, FrameEvent) \/ Has(<<e>>, FrameEvent)
  BY <1>5, <1>6, <1>7, <1>8, ConcatOnce
<1>10. Carrier' = Carrier /\ FrameEvent' = FrameEvent
  BY DEF Carrier, FrameEvent, Request, Event
<1> QED BY <1>1, <1>2, <1>6, <1>7, <1>8, <1>9, <1>10 DEF Alone, Carried

LEMMA FrameCompNext ==
    ASSUME TypeInv, FrameInv, CompNext, UNCHANGED clientVars
    PROVE  FrameInv'
<1> SUFFICES ASSUME conn' = "up", pc \in {"connecting", "locking", "running", "unlocking"}
             PROVE  Alone' /\ (Carried' <=> frame_cb \in Output)
  <2>1. UNCHANGED <<pc, frame_cb>>
    BY DEF clientVars, mainVars
  <2>2. conn' = "up" => conn = "up"
    BY DEF CompNext, ServeRequest, Advertise, ServeSync, ServeLock, ServeUnlock, ServeDestroy,
           ServeGetLockSurface, ServeAck, ServeCommit, Serve, GrantLock, DenyLock, RevokeLock,
           Resize, DrawFrame, PressKey, Plug, Unplug, SendOther, Die, Hangup, Reject
  <2> QED BY <2>1, <2>2 DEF FrameInv
<1>1. conn = "up"
  BY DEF CompNext, ServeRequest, Advertise, ServeSync, ServeLock, ServeUnlock, ServeDestroy,
         ServeGetLockSurface, ServeAck, ServeCommit, Serve, GrantLock, DenyLock, RevokeLock,
         Resize, DrawFrame, PressKey, Plug, Unplug, SendOther, Die, Hangup, Reject
<1>2. Alone /\ (Carried <=> frame_cb \in Output)
  BY <1>1 DEF FrameInv
<1>3. \A type, error : ~Reject(type, error)
  BY DEF Reject
<1>4. CASE ServeCommit
  BY <1>2, <1>3, <1>4, FrameServeCommit
<1>5. CASE DrawFrame
  BY <1>2, <1>5, FrameDrawn
<1>6. CASE ~ServeCommit /\ ~DrawFrame
  <2>1. UNCHANGED frame_ready
    BY <1>3, <1>6
       DEF CompNext, ServeRequest, Advertise, ServeSync, ServeLock, ServeUnlock, ServeDestroy,
           ServeGetLockSurface, ServeAck, GrantLock, DenyLock, RevokeLock, Resize, PressKey, Plug,
           Unplug, SendOther, Die, compVars
  <2>2. Once(requests', Carrier) /\ (Has(requests', Carrier) <=> Has(requests, Carrier))
    <3>1. CASE UNCHANGED requests
      BY <1>2, <3>1 DEF Alone
    <3>2. CASE requests # <<>> /\ requests' = Tail(requests) /\ Head(requests).type # "commit"
      <4>1. requests \in Seq(Request) /\ Once(requests, Carrier)
        BY <1>2 DEF Alone, TypeInv, ConnTypeOK
      <4>2. Head(requests) \notin Carrier
        BY <3>2 DEF Carrier
      <4>3. /\ Once(Tail(requests), Carrier)
            /\ Has(Tail(requests), Carrier) <=> Has(requests, Carrier)
        BY <3>2, <4>1, <4>2, TailOnce
      <4> QED BY <3>2, <4>3
    <3>3. \/ UNCHANGED requests
          \/ requests # <<>> /\ requests' = Tail(requests) /\ Head(requests).type # "commit"
      BY <1>1, <1>3, <1>6
         DEF CompNext, ServeRequest, Advertise, ServeSync, ServeLock, ServeUnlock, ServeDestroy,
             ServeGetLockSurface, ServeAck, Serve, GrantLock, DenyLock, RevokeLock, Resize,
             PressKey, Plug, Unplug, SendOther, Die, Hangup
    <3> QED BY <3>1, <3>2, <3>3
  <2>3. Once(events', FrameEvent) /\ (Has(events', FrameEvent) <=> Has(events, FrameEvent))
    BY <1>2, <1>6, NoFrameEmitted
  <2>4. Carrier' = Carrier /\ FrameEvent' = FrameEvent
    BY DEF Carrier, FrameEvent, Request, Event
  <2> QED BY <1>2, <2>1, <2>2, <2>3, <2>4 DEF Alone, Carried
<1> QED BY <1>4, <1>5, <1>6

\* The frame callback is never lost and never doubled: from the frame_done
\* that asks for the next one (wl_callback_listener.h 26-37) to the event
\* that answers, exactly one commit, surface or event carries it.
THEOREM CallbackCarried == Spec => []OneFrameCallback
<1>1. TypeInv /\ FrameInv /\ [Next]_vars => FrameInv'
  <2> SUFFICES ASSUME TypeInv, FrameInv, [Next]_vars
               PROVE  FrameInv'
    OBVIOUS
  <2>1. CASE UNCHANGED vars
    <3>1. UNCHANGED <<requests, events, conn, frame_ready, frame_cb, pc>>
      BY <2>1 DEF vars, clientVars, connVars, compVars, mainVars
    <3> QED BY <3>1 DEF FrameInv, Alone, Carried, Once, Has, Carrier, FrameEvent
  <2> QED BY <2>1, FrameClientNext, FrameCompNext DEF Next, ClientStep, CompStep
<1>2. TypeInv /\ FrameInv => OneFrameCallback
  <2> SUFFICES ASSUME TypeInv, FrameInv, conn = "up", pc \in {"running", "unlocking"}
               PROVE  FrameCarriers = IF frame_cb \in Output THEN 1 ELSE 0
    BY DEF OneFrameCallback
  <2>1. Alone /\ (Carried <=> frame_cb \in Output)
    BY DEF FrameInv
  <2>2. requests \in Seq(Request) /\ events \in Seq(Event)
    BY DEF TypeInv, ConnTypeOK
  <2>3. {i \in DOMAIN requests : requests[i].type = "commit"
                                 /\ requests[i].frame \in requests[i].on}
            = {i \in DOMAIN requests : requests[i] \in Carrier}
    BY <2>2 DEF Carrier
  <2>4. {i \in DOMAIN events : events[i].type = "frame"}
            = {i \in DOMAIN events : events[i] \in FrameEvent}
    BY <2>2 DEF FrameEvent
  <2>5. /\ Cardinality({i \in DOMAIN requests : requests[i] \in Carrier})
               = IF Has(requests, Carrier) THEN 1 ELSE 0
        /\ Cardinality({i \in DOMAIN events : events[i] \in FrameEvent})
               = IF Has(events, FrameEvent) THEN 1 ELSE 0
    BY <2>1, <2>2, CountOnce DEF Alone
  <2>6. FrameCarriers = (IF Has(requests, Carrier) THEN 1 ELSE 0)
                            + (IF frame_ready = NoFrame THEN 0 ELSE 1)
                            + (IF Has(events, FrameEvent) THEN 1 ELSE 0)
    BY <2>3, <2>4, <2>5 DEF FrameCarriers
  <2> QED BY <2>1, <2>6 DEF Alone, Carried
<1> QED BY <1>1, <1>2, FrameInit, TypeInvariant, PTL DEF Spec
=============================================================================
