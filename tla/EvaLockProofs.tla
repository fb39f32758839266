---------------------------- MODULE EvaLockProofs ---------------------------
(***************************************************************************)
(* Proof that the program and the compositor keep the type invariant, and  *)
(* that they implement the abstract locker, for any monitors, any timing   *)
(* and any password buffer.                                                *)
(*                                                                         *)
(* The refinement needs to know, at the moment unlock_and_destroy is read  *)
(* by the compositor, why it was sent: LockInv carries that reason through *)
(* the queues.                                                             *)
(***************************************************************************)
EXTENDS EvaLock, PasswordEntryProofs, FiniteSetTheorems, WellFoundedInduction

-----------------------------------------------------------------------------
(* The types *)

\* Lock surfaces are requested, configured, acknowledged and shown only for
\* outputs the client has created them for.
OutputsKnown ==
    /\ \A e \in Range(events) : e.type = "configure" => e.output \in lock_surfaces
    /\ \A r \in Range(requests) :
           r.type \in {"get_lock_surface", "ack_configure"} => r.output \in lock_surfaces
    /\ surfaces \cup acked \cup mapped \subseteq lock_surfaces

\* The password buffer's part of TypeOK is proved on its own.
TypeInv ==
    /\ MainTypeOK /\ LockTypeOK /\ OutputTypeOK /\ AuthTypeOK /\ ConnTypeOK /\ CompTypeOK
    /\ IsFiniteSet(present)
    /\ OutputsKnown

-----------------------------------------------------------------------------
(* Messages *)

LEMMA EventFields ==
    ASSUME NEW e \in Event
    PROVE  /\ e.type \in {"global", "configure"} => e.output \in Output
           /\ e.type = "frame" => e.dt \in 1..MaxDt
           /\ e.type = "key" => e.sym \in KeySym
BY DEF Event

LEMMA RequestFields ==
    ASSUME NEW r \in Request
    PROVE  /\ r.type \in {"get_lock_surface", "ack_configure"} => r.output \in Output
           /\ r.type = "commit" =>
                  r.on \subseteq Output /\ r.frame \in Output \cup {Window, NoSurface}
BY DEF Request, GetRegistry, Lock, Sync, UnlockAndDestroy, Destroy

LEMMA RequestsMade ==
    /\ {GetRegistry, Lock, Sync, UnlockAndDestroy, Destroy} \subseteq Request
    /\ \A o \in Output : {GetLockSurface(o), AckConfigure(o)} \subseteq Request
    /\ \A on \in SUBSET Output, f \in Output \cup {Window, NoSurface} :
           Commit(on, f) \in Request
BY DEF Request, GetLockSurface, AckConfigure, Commit

LEMMA TailRange ==
    ASSUME NEW S, NEW q \in Seq(S), q # <<>>
    PROVE  /\ Tail(q) \in Seq(S) /\ Head(q) \in S
           /\ Head(q) \in Range(q) /\ Range(Tail(q)) \subseteq Range(q)
BY DEF Range

LEMMA ConcatRange ==
    ASSUME NEW S, NEW q \in Seq(S), NEW m \in Seq(S)
    PROVE  /\ q \o m \in Seq(S)
           /\ Range(q \o m) = Range(q) \cup Range(m)
<1>1. q \o m \in Seq(S) /\ Len(q \o m) = Len(q) + Len(m)
  BY ConcatProperties
<1>2. \A i \in 1..Len(q) + Len(m) :
          (q \o m)[i] = IF i <= Len(q) THEN q[i] ELSE m[i - Len(q)]
  BY ConcatProperties
<1>3. Range(q \o m) \subseteq Range(q) \cup Range(m)
  BY <1>1, <1>2 DEF Range
<1>4. \A i \in 1..Len(q) : i \in 1..Len(q \o m) /\ (q \o m)[i] = q[i]
  BY <1>1, <1>2
<1>5. \A i \in 1..Len(m) :
          i + Len(q) \in 1..Len(q \o m) /\ (q \o m)[i + Len(q)] = m[i]
  BY <1>1, <1>2
<1>6. Range(q) \subseteq Range(q \o m)
  BY <1>1, <1>4 DEF Range
<1>7. Range(m) \subseteq Range(q \o m)
  <2> SUFFICES ASSUME NEW i \in 1..Len(m)
               PROVE  m[i] \in Range(q \o m)
    BY DEF Range
  <2> QED BY <1>1, <1>5 DEF Range
<1> QED BY <1>1, <1>3, <1>6, <1>7

LEMMA SmallRange ==
    /\ Range(<<>>) = {}
    /\ \A a : Range(<<a>>) = {a}
    /\ \A a, b : Range(<<a, b>>) = {a, b}
BY DEF Range

\* What a handler finds at the head of the queue and leaves behind.
LEMMA DispatchFacts ==
    ASSUME ConnTypeOK, NEW type, Dispatch(type)
    PROVE  /\ events' \in Seq(Event) /\ Range(events') \subseteq Range(events)
           /\ Head(events) \in Event /\ Head(events) \in Range(events)
           /\ Head(events).type = type
           /\ UNCHANGED <<pc, g_should_exit, exit_code, conn>> /\ dispatched' = TRUE
           /\ pc \in {"connecting", "locking", "running", "unlocking"}
BY TailRange DEF ConnTypeOK, Dispatch

LEMMA SendFacts ==
    ASSUME ConnTypeOK, NEW msgs \in Seq(Request), Send(msgs)
    PROVE  /\ requests' \in Seq(Request)
           /\ Range(requests') \subseteq Range(requests) \cup Range(msgs)
BY ConcatRange DEF ConnTypeOK, Send

LEMMA DisconnectFacts ==
    ASSUME ConnTypeOK, NEW msgs \in Seq(Request), Disconnect(msgs)
    PROVE  /\ requests' \in Seq(Request)
           /\ Range(requests') \subseteq Range(requests) \cup Range(msgs)
           /\ events' = <<>> /\ conn' \in {"closed", "dead"}
BY SendFacts DEF ConnTypeOK, Disconnect

LEMMA EmitFacts ==
    ASSUME ConnTypeOK, NEW msgs \in Seq(Event), Emit(msgs)
    PROVE  /\ events' \in Seq(Event)
           /\ Range(events') \subseteq Range(events) \cup Range(msgs)
BY ConcatRange DEF ConnTypeOK, Emit

LEMMA ServeFacts ==
    ASSUME ConnTypeOK, NEW type, Serve(type)
    PROVE  /\ requests' \in Seq(Request) /\ Range(requests') \subseteq Range(requests)
           /\ Head(requests) \in Request /\ Head(requests) \in Range(requests)
           /\ Head(requests).type = type
           /\ UNCHANGED conn /\ conn # "dead"
BY TailRange DEF ConnTypeOK, Serve

-----------------------------------------------------------------------------
(* The frame loop *)

LEMMA LeastNatural ==
    ASSUME NEW T, T \subseteq Nat, T # {}
    PROVE  \E n \in T : \A m \in T : n <= m
<1>1. PICK n \in T : \A m \in T : ~(<<m, n>> \in OpToRel(<, Nat))
  BY WFMin, NatLessThanWellFounded
<1>2. \A m \in T : ~(m < n)
  BY <1>1 DEF OpToRel
<1> QED BY <1>2

\* The output of the frame callback is one that is configured.
LEMMA FrameSurfaceKnown ==
    ASSUME OutputTypeOK
    PROVE  /\ FrameSurface \in configured \cup {Window}
           /\ configured \subseteq Output
<1>1. configured \subseteq Output
  BY DEF OutputTypeOK, Range
<1>2. ASSUME configured # {}
      PROVE  FrameOutput \in configured
  <2> DEFINE Known == {i \in 1..Len(lock_outputs) : lock_outputs[i] \in configured}
  <2>1. Known \subseteq Nat /\ Known # {}
    BY <1>2 DEF OutputTypeOK, Range
  <2>2. PICK n \in Known : \A m \in Known : n <= m
    BY <2>1, LeastNatural
  <2>3. \A j \in 1..(n - 1) : lock_outputs[j] \notin configured
    BY <2>2 DEF OutputTypeOK
  <2>4. DOMAIN lock_outputs = 1..Len(lock_outputs)
    BY DEF OutputTypeOK
  <2> QED BY <2>2, <2>3, <2>4 DEF FrameOutput
<1> QED BY <1>1, <1>2 DEF FrameSurface

LEMMA ArmFrameFacts ==
    ASSUME OutputTypeOK, ConnTypeOK, ArmFrame
    PROVE  /\ frame_cb' \in Output \cup {Window, NoSurface}
           /\ requests' \in Seq(Request)
           /\ \A r \in Range(requests') :
                  r \in Range(requests) \/ r.type = "commit"
<1>1. FrameSurface \in Output \cup {Window, NoSurface} /\ configured \in SUBSET Output
  BY FrameSurfaceKnown
<1>2. Commit(configured, FrameSurface) \in Request
  BY <1>1, RequestsMade
<1>3. Send(<<Commit(configured, FrameSurface)>>)
  BY DEF ArmFrame
<1>4. <<Commit(configured, FrameSurface)>> \in Seq(Request)
  BY <1>2
<1>5. /\ requests' \in Seq(Request)
      /\ Range(requests') \subseteq Range(requests) \cup Range(<<Commit(configured, FrameSurface)>>)
  BY <1>3, <1>4, SendFacts
<1>6. Commit(configured, FrameSurface).type = "commit"
  BY DEF Commit
<1> QED BY <1>1, <1>5, <1>6, SmallRange DEF ArmFrame

LEMMA TimersTyped ==
    ASSUME AuthTypeOK, NEW dt \in 1..MaxDt
    PROVE  Decay(countdown_timer, dt) \in 0..Countdown /\ Decay(flash_timer, dt) \in 0..Flash
BY TimeAssumption DEF AuthTypeOK, Decay

-----------------------------------------------------------------------------
(* Initial states *)

LEMMA TypeInit == Init => TypeInv
<1> SUFFICES ASSUME Init
             PROVE  TypeInv
  OBVIOUS
<1> USE DEF Init, ClientInit, CompInit
<1>1. MainTypeOK /\ LockTypeOK
  BY DEF MainTypeOK, LockTypeOK
<1>2. OutputTypeOK
  BY OutputAssumption DEF OutputTypeOK
<1>3. AuthTypeOK
  <2>1. 0 \in 0..Countdown /\ 0 \in 0..Flash
    BY TimeAssumption
  <2> QED BY <2>1 DEF AuthTypeOK
<1>4. ConnTypeOK
  BY RequestsMade DEF ConnTypeOK
<1>5. CompTypeOK /\ IsFiniteSet(present)
  BY HotplugAssumption, EnvironmentAssumption DEF CompTypeOK
<1>6. Range(requests) = {GetRegistry, Sync} /\ Range(events) = {}
  BY SmallRange
<1>7. OutputsKnown
  BY <1>6 DEF OutputsKnown, GetRegistry, Sync
<1> QED BY <1>1, <1>2, <1>3, <1>4, <1>5, <1>7 DEF TypeInv

-----------------------------------------------------------------------------
(* What a step leaves alone keeps its type *)

LEMMA Kept ==
    /\ LockTypeOK /\ UNCHANGED lockVars => LockTypeOK'
    /\ OutputTypeOK /\ UNCHANGED <<outputVars, frame_cb>> => OutputTypeOK'
    /\ AuthTypeOK /\ UNCHANGED authVars => AuthTypeOK'
    /\ CompTypeOK /\ IsFiniteSet(present) /\ UNCHANGED compVars =>
           CompTypeOK' /\ IsFiniteSet(present')
BY DEF LockTypeOK, OutputTypeOK, AuthTypeOK, CompTypeOK, lockVars, outputVars, authVars,
       compVars

\* A handler reads one event; what it requests is about known outputs.
LEMMA KnownKept ==
    ASSUME OutputsKnown, UNCHANGED compVars, lock_surfaces \subseteq lock_surfaces',
           Range(events') \subseteq Range(events),
           \A r \in Range(requests') :
               \/ r \in Range(requests)
               \/ r.type \notin {"get_lock_surface", "ack_configure"}
               \/ r.output \in lock_surfaces'
    PROVE  OutputsKnown'
BY DEF OutputsKnown, compVars

LEMMA DispatchMain ==
    ASSUME MainTypeOK, ConnTypeOK, NEW type, Dispatch(type), synced' \in BOOLEAN
    PROVE  MainTypeOK'
BY DispatchFacts DEF MainTypeOK

LEMMA DispatchConn ==
    ASSUME ConnTypeOK, NEW type, Dispatch(type), requests' \in Seq(Request)
    PROVE  ConnTypeOK'
BY DispatchFacts DEF ConnTypeOK

\* An event of type type that changes nothing but main()'s flag synced.
LEMMA DispatchOnly ==
    ASSUME TypeInv, UNCHANGED <<requests, compVars, lockVars, outputVars, frame_cb, authVars>>,
           NEW type, Dispatch(type), synced' \in BOOLEAN
    PROVE  TypeInv'
<1>1. MainTypeOK' /\ ConnTypeOK'
  BY DispatchMain, DispatchConn DEF TypeInv, ConnTypeOK
<1>2. LockTypeOK' /\ OutputTypeOK' /\ AuthTypeOK' /\ CompTypeOK' /\ IsFiniteSet(present')
  BY Kept DEF TypeInv
<1>3. OutputsKnown'
  BY KnownKept, DispatchFacts DEF TypeInv, outputVars
<1> QED BY <1>1, <1>2, <1>3 DEF TypeInv

-----------------------------------------------------------------------------
(* Handlers *)

LEMMA TypeHandleEvent ==
    ASSUME TypeInv, HandleEvent, UNCHANGED compVars
    PROVE  TypeInv'
<1>0. /\ MainTypeOK /\ LockTypeOK /\ OutputTypeOK /\ AuthTypeOK /\ ConnTypeOK /\ CompTypeOK
      /\ IsFiniteSet(present) /\ OutputsKnown
      /\ synced \in BOOLEAN /\ requests \in Seq(Request)
  BY DEF TypeInv, MainTypeOK, ConnTypeOK
<1>c. CompTypeOK' /\ IsFiniteSet(present')
  BY <1>0, Kept
<1>1. CASE Synced \/ HandleOther
  <2>1. PICK type \in {"done", "other"} : Dispatch(type)
    BY <1>1 DEF Synced, HandleOther
  <2> QED BY <1>0, <1>1, <2>1, DispatchOnly DEF Synced, HandleOther
<1>2. CASE DropStaleEvent
  BY <1>0, <1>2, DispatchOnly DEF DropStaleEvent
<1>3. CASE HandleManager
  <2>1. Dispatch("manager") /\ UNCHANGED <<requests, synced, outputVars, frame_cb, authVars>>
    BY <1>3 DEF HandleManager
  <2>2. MainTypeOK' /\ ConnTypeOK'
    BY <1>0, <2>1, DispatchMain, DispatchConn
  <2>3. LockTypeOK'
    BY <1>0, <1>3 DEF HandleManager, LockTypeOK
  <2>4. OutputTypeOK' /\ AuthTypeOK'
    BY <1>0, <2>1, Kept
  <2>5. OutputsKnown'
    BY <1>0, <2>1, KnownKept, DispatchFacts DEF outputVars
  <2> QED BY <1>c, <2>2, <2>3, <2>4, <2>5 DEF TypeInv
<1>4. CASE HandleGlobal
  <2>1. Dispatch("global") /\ UNCHANGED <<requests, synced, lockVars, lock_surfaces, authVars>>
    BY <1>4 DEF HandleGlobal
  <2>2. MainTypeOK' /\ ConnTypeOK' /\ LockTypeOK' /\ AuthTypeOK'
    BY <1>0, <2>1, DispatchMain, DispatchConn, Kept
  <2>3. Head(events).output \in Output
    BY <1>0, <2>1, DispatchFacts, EventFields
  <2>4. /\ lock_outputs' \in Seq(Output) /\ Len(lock_outputs') <= MaxOutputs
        /\ Range(lock_outputs) \subseteq Range(lock_outputs')
    <3>1. CASE Len(lock_outputs) < MaxOutputs
      <4>1. lock_outputs' = Append(lock_outputs, Head(events).output)
        BY <1>4, <3>1 DEF HandleGlobal
      <4>2. /\ lock_outputs' \in Seq(Output) /\ Len(lock_outputs') = Len(lock_outputs) + 1
            /\ \A i \in 1..Len(lock_outputs) : lock_outputs'[i] = lock_outputs[i]
        BY <1>0, <2>3, <4>1, AppendProperties DEF OutputTypeOK
      <4>3. Len(lock_outputs') <= MaxOutputs
        BY <1>0, <3>1, <4>2, OutputAssumption DEF OutputTypeOK
      <4>4. Range(lock_outputs) \subseteq Range(lock_outputs')
        BY <1>0, <4>2 DEF OutputTypeOK, Range
      <4> QED BY <4>2, <4>3, <4>4
    <3>2. CASE ~(Len(lock_outputs) < MaxOutputs)
      BY <1>0, <1>4, <3>2 DEF HandleGlobal, OutputTypeOK
    <3> QED BY <3>1, <3>2
  <2>5. OutputTypeOK'
    BY <1>0, <1>4, <2>4 DEF HandleGlobal, OutputTypeOK
  <2>6. OutputsKnown'
    BY <1>0, <2>1, KnownKept, DispatchFacts
  <2> QED BY <1>c, <2>2, <2>5, <2>6 DEF TypeInv
<1>5. CASE HandleLocked
  <2> DEFINE msgs == [i \in 1..Len(lock_outputs) |-> GetLockSurface(lock_outputs[i])]
  <2>1. /\ Dispatch("locked") /\ Send(msgs) /\ UNCHANGED <<synced, authVars>>
        /\ lock_surfaces' = Range(lock_outputs)
    BY <1>5 DEF HandleLocked
  <2>2. msgs \in Seq(Request)
    BY <1>0, RequestsMade DEF OutputTypeOK
  <2>3. \A r \in Range(msgs) : r.output \in Range(lock_outputs)
    BY <1>0 DEF OutputTypeOK, GetLockSurface, Range
  <2> HIDE DEF msgs
  <2>4. /\ requests' \in Seq(Request)
        /\ Range(requests') \subseteq Range(requests) \cup Range(msgs)
    BY <1>0, <2>1, <2>2, SendFacts
  <2>5. MainTypeOK' /\ ConnTypeOK' /\ AuthTypeOK'
    BY <1>0, <2>1, <2>4, DispatchMain, DispatchConn, Kept
  <2>6. LockTypeOK'
    BY <1>0, <1>5 DEF HandleLocked, LockTypeOK
  <2>7. OutputTypeOK'
    BY <1>0, <1>5 DEF HandleLocked, OutputTypeOK
  <2>8. OutputsKnown'
    <3>1. lock_surfaces \subseteq lock_surfaces'
      BY <1>0, <2>1 DEF OutputTypeOK
    <3> QED BY <1>0, <2>1, <2>3, <2>4, <3>1, KnownKept, DispatchFacts
  <2> QED BY <1>c, <2>5, <2>6, <2>7, <2>8 DEF TypeInv
<1>6. CASE HandleFinished
  <2>1. /\ Dispatch("finished") /\ UNCHANGED <<synced, outputVars, frame_cb, authVars>>
        /\ UNCHANGED requests \/ Send(<<Destroy>>)
    BY <1>6 DEF HandleFinished
  <2>2. /\ requests' \in Seq(Request)
        /\ Range(requests') \subseteq Range(requests) \cup {Destroy}
    <3>1. <<Destroy>> \in Seq(Request)
      BY RequestsMade
    <3> QED BY <1>0, <2>1, <3>1, SendFacts, SmallRange
  <2>3. MainTypeOK' /\ ConnTypeOK' /\ OutputTypeOK' /\ AuthTypeOK'
    BY <1>0, <2>1, <2>2, DispatchMain, DispatchConn, Kept
  <2>4. LockTypeOK'
    BY <1>0, <1>6 DEF HandleFinished, LockTypeOK
  <2>5. OutputsKnown'
    <3>1. Destroy.type = "destroy"
      BY DEF Destroy
    <3> QED BY <1>0, <2>1, <2>2, <3>1, KnownKept, DispatchFacts DEF outputVars
  <2> QED BY <1>c, <2>3, <2>4, <2>5 DEF TypeInv
<1>7. CASE HandleConfigure
  <2> DEFINE o == Head(events).output
             msgs == <<AckConfigure(o), Commit({o}, NoSurface)>>
  <2>1. /\ Dispatch("configure") /\ Send(msgs) /\ configured' = configured \cup {o}
        /\ UNCHANGED <<synced, lockVars, lock_outputs, lock_surfaces, frame_cb, authVars>>
    BY <1>7 DEF HandleConfigure
  <2>2. o \in lock_surfaces /\ o \in Output
    BY <1>0, <2>1, DispatchFacts, EventFields DEF OutputsKnown
  <2>3. {AckConfigure(o), Commit({o}, NoSurface)} \subseteq Request
    BY <2>2, RequestsMade
  <2>4. /\ requests' \in Seq(Request)
        /\ Range(requests') \subseteq
               Range(requests) \cup {AckConfigure(o), Commit({o}, NoSurface)}
    <3>1. msgs \in Seq(Request)
      BY <2>3
    <3> QED BY <1>0, <2>1, <3>1, SendFacts, SmallRange
  <2>5. AckConfigure(o).output = o /\ Commit({o}, NoSurface).type = "commit"
    BY DEF AckConfigure, Commit
  <2> HIDE DEF o, msgs
  <2>6. MainTypeOK' /\ ConnTypeOK' /\ LockTypeOK' /\ AuthTypeOK'
    BY <1>0, <2>1, <2>4, DispatchMain, DispatchConn, Kept
  <2>7. OutputTypeOK'
    BY <1>0, <2>1, <2>2 DEF OutputTypeOK
  <2>8. OutputsKnown'
    BY <1>0, <2>1, <2>2, <2>4, <2>5, KnownKept, DispatchFacts
  <2> QED BY <1>c, <2>6, <2>7, <2>8 DEF TypeInv
<1>8. CASE HandleFrame
  <2>1. /\ Dispatch("frame") /\ ArmFrame /\ UNCHANGED <<synced, lockVars, outputVars, flash>>
        /\ flash_timer' = Decay(flash_timer, Head(events).dt)
        /\ CountDown(Head(events).dt)
    BY <1>8 DEF HandleFrame
  <2>2. /\ frame_cb' \in Output \cup {Window, NoSurface}
        /\ requests' \in Seq(Request)
        /\ \A r \in Range(requests') : r \in Range(requests) \/ r.type = "commit"
    BY <1>0, <2>1, ArmFrameFacts
  <2>3. MainTypeOK' /\ ConnTypeOK' /\ LockTypeOK'
    BY <1>0, <2>1, <2>2, DispatchMain, DispatchConn, Kept
  <2>4. Head(events).dt \in 1..MaxDt
    BY <1>0, <2>1, DispatchFacts, EventFields
  <2>5. AuthTypeOK'
    <3>1. /\ Decay(countdown_timer, Head(events).dt) \in 0..Countdown
          /\ Decay(flash_timer, Head(events).dt) \in 0..Flash
      BY <1>0, <2>4, TimersTyped
    <3>2. counting_down' \in BOOLEAN /\ auth_result' \in {0, 1}
      <4>1. (countdown_timer > Head(events).dt) \in BOOLEAN
        OBVIOUS
      <4>2. /\ counting_down' \in {counting_down, countdown_timer > Head(events).dt}
            /\ auth_result' \in {auth_result, 1}
        BY <2>1, Zenon DEF CountDown
      <4> QED BY <1>0, <4>1, <4>2, Zenon DEF AuthTypeOK
    <3>3. countdown_timer' \in 0..Countdown
      <4>1. countdown_timer' \in {countdown_timer, Decay(countdown_timer, Head(events).dt)}
        BY <2>1 DEF CountDown
      <4> QED BY <1>0, <3>1, <4>1, Zenon DEF AuthTypeOK
    <3>4. flash_timer' \in 0..Flash /\ flash' \in {"none", "red", "green"}
      BY <1>0, <2>1, <3>1, Zenon DEF AuthTypeOK
    <3> QED BY <3>2, <3>3, <3>4 DEF AuthTypeOK
  <2>6. OutputTypeOK'
    BY <1>0, <2>1, <2>2 DEF OutputTypeOK, outputVars
  <2>7. OutputsKnown'
    BY <1>0, <2>1, <2>2, KnownKept, DispatchFacts DEF outputVars
  <2> QED BY <1>c, <2>3, <2>5, <2>6, <2>7 DEF TypeInv
<1>9. CASE HandleKey
  <2>1. /\ Dispatch("key")
        /\ UNCHANGED <<requests, synced, has_manager, lock_object, session_locked, locked,
                       outputVars, frame_cb>>
        /\ \E sym : KeyUnlocked(sym) \/ KeySubmit(sym) \/ KeyEdit(sym)
    BY <1>9 DEF HandleKey
  <2>2. MainTypeOK' /\ ConnTypeOK' /\ OutputTypeOK'
    BY <1>0, <2>1, DispatchMain, DispatchConn, Kept
  <2>3. Countdown \in 0..Countdown /\ Flash \in 0..Flash
    BY TimeAssumption
  <2>4. AuthTypeOK' /\ LockTypeOK'
    BY <1>0, <2>1, <2>3
       DEF KeyUnlocked, KeySubmit, KeyEdit, StartCountdown, StartFlash, AuthTypeOK,
           LockTypeOK, authVars
  <2>5. OutputsKnown'
    BY <1>0, <2>1, KnownKept, DispatchFacts DEF outputVars
  <2> QED BY <1>c, <2>2, <2>4, <2>5 DEF TypeInv
<1> QED
  BY <1>1, <1>2, <1>3, <1>4, <1>5, <1>6, <1>7, <1>8, <1>9 DEF HandleEvent

-----------------------------------------------------------------------------
(* main() and the signal handler *)

\* A step of main() requests nothing about outputs and reads no event.
LEMMA MainOnly ==
    ASSUME TypeInv, UNCHANGED <<compVars, outputVars, authVars>>,
           MainTypeOK', LockTypeOK', frame_cb' \in Output \cup {Window, NoSurface},
           requests' \in Seq(Request), events' \in {events, <<>>},
           conn' \in {"up", "closed", "dead"},
           \A r \in Range(requests') :
               r \in Range(requests) \/ r.type \notin {"get_lock_surface", "ack_configure"}
    PROVE  TypeInv'
<1>1. AuthTypeOK' /\ CompTypeOK' /\ IsFiniteSet(present')
  BY Kept DEF TypeInv
<1>2. OutputTypeOK'
  BY DEF TypeInv, OutputTypeOK, outputVars
<1>3. events' \in Seq(Event) /\ Range(events') \subseteq Range(events)
  <2>1. CASE events' = <<>>
    BY <2>1, SmallRange
  <2>2. CASE events' = events
    BY <2>2 DEF TypeInv, ConnTypeOK
  <2> QED BY <2>1, <2>2
<1>4. ConnTypeOK'
  BY <1>3 DEF ConnTypeOK
<1>5. OutputsKnown'
  BY <1>3, KnownKept DEF TypeInv, outputVars
<1> QED BY <1>1, <1>2, <1>4, <1>5 DEF TypeInv

LEMMA LastRequests ==
    /\ \A msgs \in {<<Lock, Sync>>, <<UnlockAndDestroy, Sync>>, <<>>, <<UnlockAndDestroy>>,
                    <<Destroy>>} :
           /\ msgs \in Seq(Request)
           /\ \A r \in Range(msgs) : r.type \notin {"get_lock_surface", "ack_configure"}
<1>1. \A r \in {Lock, Sync, UnlockAndDestroy, Destroy} :
          r \in Request /\ r.type \notin {"get_lock_surface", "ack_configure"}
  BY RequestsMade DEF Lock, Sync, UnlockAndDestroy, Destroy
<1> QED BY <1>1, SmallRange

LEMMA TypeRunMain ==
    ASSUME TypeInv, RunMain \/ Signal, UNCHANGED compVars
    PROVE  TypeInv'
<1>0. /\ MainTypeOK /\ LockTypeOK /\ OutputTypeOK /\ ConnTypeOK
      /\ frame_cb \in Output \cup {Window, NoSurface}
      /\ requests \in Seq(Request) /\ conn \in {"up", "closed", "dead"}
  BY DEF TypeInv, OutputTypeOK, ConnTypeOK
<1>1. CASE GiveUp \/ LockRefused \/ Teardown
  <2>1. PICK msgs \in {<<>>, <<UnlockAndDestroy>>, <<Destroy>>} : Disconnect(msgs)
    BY <1>0, <1>1 DEF GiveUp, LockRefused, Teardown, Release, LockTypeOK
  <2>2. /\ requests' \in Seq(Request) /\ events' = <<>> /\ conn' \in {"closed", "dead"}
        /\ Range(requests') \subseteq Range(requests) \cup Range(msgs)
    BY <1>0, <2>1, DisconnectFacts, LastRequests
  <2>3. MainTypeOK' /\ UNCHANGED <<lockVars, outputVars, frame_cb, authVars>>
    BY <1>0, <1>1 DEF GiveUp, LockRefused, Teardown, MainTypeOK
  <2>4. LockTypeOK'
    BY <1>0, <2>3, Kept
  <2> QED BY <1>0, <2>2, <2>3, <2>4, LastRequests, MainOnly
<1>2. CASE RequestLock \/ UnlockSession
  <2>1. PICK msgs \in {<<Lock, Sync>>, <<UnlockAndDestroy, Sync>>} : Send(msgs)
    BY <1>2 DEF RequestLock, UnlockSession
  <2>2. /\ requests' \in Seq(Request)
        /\ Range(requests') \subseteq Range(requests) \cup Range(msgs)
    BY <1>0, <2>1, SendFacts, LastRequests
  <2>3. MainTypeOK' /\ UNCHANGED <<events, conn, outputVars, frame_cb, authVars>>
    BY <1>0, <1>2 DEF RequestLock, UnlockSession, MainTypeOK
  <2>4. LockTypeOK'
    BY <1>0, <1>2 DEF RequestLock, UnlockSession, LockTypeOK
  <2> QED BY <1>0, <2>2, <2>3, <2>4, LastRequests, MainOnly
<1>3. CASE EnterLoop
  <2>1. ArmFrame /\ UNCHANGED <<events, conn, lockVars, outputVars, authVars>>
    BY <1>3 DEF EnterLoop
  <2>2. /\ frame_cb' \in Output \cup {Window, NoSurface}
        /\ requests' \in Seq(Request)
        /\ \A r \in Range(requests') : r \in Range(requests) \/ r.type = "commit"
    BY <1>0, <2>1, ArmFrameFacts
  <2>3. MainTypeOK' /\ LockTypeOK'
    BY <1>0, <1>3, <2>1, Kept DEF EnterLoop, MainTypeOK
  <2> QED BY <1>0, <2>1, <2>2, <2>3, MainOnly
<1>4. CASE KeepRunning
  <2>1. MainTypeOK' /\ LockTypeOK'
    BY <1>0, <1>4, Kept DEF KeepRunning, MainTypeOK
  <2>2. UNCHANGED <<connVars, compVars, outputVars, frame_cb>> /\ AuthTypeOK'
    BY <1>4 DEF KeepRunning, TypeInv, AuthTypeOK
  <2>3. OutputTypeOK' /\ ConnTypeOK' /\ CompTypeOK' /\ IsFiniteSet(present')
    BY <2>2, Kept DEF TypeInv, ConnTypeOK, connVars
  <2>4. OutputsKnown'
    BY <2>2, KnownKept DEF TypeInv, outputVars, connVars
  <2> QED BY <2>1, <2>2, <2>3, <2>4 DEF TypeInv
<1>5. CASE LeaveLoop \/ DispatchFails \/ UnlockRoundtripReturns \/ Signal
  <2>1. UNCHANGED <<connVars, lockVars, outputVars, frame_cb, authVars>> /\ MainTypeOK'
    BY <1>0, <1>5
       DEF LeaveLoop, DispatchFails, UnlockRoundtripReturns, Signal, MainTypeOK
  <2>2. LockTypeOK' /\ UNCHANGED <<requests, events, conn, outputVars, authVars, frame_cb>>
    BY <1>0, <2>1, Kept DEF connVars
  <2> QED BY <1>0, <2>1, <2>2, MainOnly
<1> QED
  BY <1>1, <1>2, <1>3, <1>4, <1>5 DEF RunMain

-----------------------------------------------------------------------------
(* The compositor *)

\* A step of the compositor reads requests, and writes configure events for
\* known outputs only.
LEMMA CompOnly ==
    ASSUME TypeInv, UNCHANGED clientVars, CompTypeOK', IsFiniteSet(present'),
           requests' \in Seq(Request), Range(requests') \subseteq Range(requests),
           events' \in Seq(Event), conn' \in {"up", "closed", "dead"},
           \A e \in Range(events') :
               e \in Range(events) \/ e.type # "configure" \/ e.output \in lock_surfaces,
           surfaces' \cup acked' \cup mapped' \subseteq lock_surfaces
    PROVE  TypeInv'
<1>1. UNCHANGED <<lockVars, outputVars, frame_cb, authVars>> /\ MainTypeOK'
  BY DEF TypeInv, MainTypeOK, clientVars, mainVars
<1>2. LockTypeOK' /\ OutputTypeOK' /\ AuthTypeOK'
  BY <1>1, Kept DEF TypeInv
<1>3. ConnTypeOK'
  BY DEF ConnTypeOK
<1>4. OutputsKnown'
  BY <1>1 DEF TypeInv, OutputsKnown, outputVars
<1> QED BY <1>1, <1>2, <1>3, <1>4 DEF TypeInv

LEMMA EventsMade ==
    /\ \A type \in {"manager", "locked", "finished", "done", "other"} : [type |-> type] \in Event
    /\ \A type \in {"global", "configure"}, o \in Output : [type |-> type, output |-> o] \in Event
    /\ \A dt \in 1..MaxDt : [type |-> "frame", dt |-> dt] \in Event
    /\ \A sym \in KeySym : [type |-> "key", sym |-> sym] \in Event
BY DEF Event

\* What Advertise emits.
Globals(manager, order) ==
    manager \o [i \in DOMAIN order |-> [type |-> "global", output |-> order[i]]]

LEMMA GlobalsTyped ==
    ASSUME CompTypeOK, IsFiniteSet(present), NEW manager \in {<<>>, <<[type |-> "manager"]>>},
           NEW order \in [1..Cardinality(present) -> present]
    PROVE  /\ Globals(manager, order) \in Seq(Event)
           /\ \A e \in Range(Globals(manager, order)) : e.type \in {"manager", "global"}
<1> DEFINE globals == [i \in DOMAIN order |-> [type |-> "global", output |-> order[i]]]
<1>1. manager \in Seq(Event) /\ \A e \in Range(manager) : e.type = "manager"
  <2>1. [type |-> "manager"] \in Event
    BY EventsMade
  <2>2. CASE manager = <<>>
    BY <2>2, SmallRange
  <2>3. CASE manager = <<[type |-> "manager"]>>
    BY <2>1, <2>3, SmallRange
  <2> QED BY <2>2, <2>3
<1>2. globals \in Seq(Event) /\ \A e \in Range(globals) : e.type = "global"
  <2>1. Cardinality(present) \in Nat
    BY FS_CardinalityType
  <2>2. \A i \in DOMAIN order : [type |-> "global", output |-> order[i]] \in Event
    BY EventsMade DEF CompTypeOK
  <2>3. globals \in Seq(Event)
    BY <2>1, <2>2
  <2> QED BY <2>3 DEF Range
<1>3. Globals(manager, order) = manager \o globals
  BY DEF Globals
<1> HIDE DEF globals
<1> QED BY <1>1, <1>2, <1>3, ConcatRange

\* Emitting one event.
LEMMA EmitOne ==
    ASSUME ConnTypeOK, NEW e \in Event, Emit(<<e>>)
    PROVE  events' \in Seq(Event) /\ Range(events') \subseteq Range(events) \cup {e}
<1>1. <<e>> \in Seq(Event) /\ Range(<<e>>) = {e}
  BY SmallRange
<1> QED BY <1>1, EmitFacts

LEMMA ErrorNames ==
    ASSUME TypeInv, NEW type,
           NEW error \in {"invalid_unlock", "invalid_destroy", "duplicate_output",
                          "commit_before_first_ack"},
           Reject(type, error), UNCHANGED clientVars
    PROVE  TypeInv'
<1>1. CompTypeOK' /\ IsFiniteSet(present')
  BY DEF TypeInv, CompTypeOK, Reject
<1>2. /\ requests' = <<>> /\ UNCHANGED <<events, surfaces, acked, mapped>>
      /\ conn' \in {"up", "closed", "dead"}
  BY DEF TypeInv, ConnTypeOK, Reject
<1>3. requests' \in Seq(Request) /\ Range(requests') = {} /\ events' \in Seq(Event)
  BY <1>2, SmallRange DEF TypeInv, ConnTypeOK
<1> QED BY <1>1, <1>2, <1>3, CompOnly DEF TypeInv, OutputsKnown

LEMMA TypeServeRequest ==
    ASSUME TypeInv, ServeRequest, UNCHANGED clientVars
    PROVE  TypeInv'
<1>0. /\ ConnTypeOK /\ CompTypeOK /\ IsFiniteSet(present) /\ OutputsKnown
      /\ events \in Seq(Event) /\ conn \in {"up", "closed", "dead"}
      /\ surfaces \cup acked \cup mapped \subseteq lock_surfaces
  BY DEF TypeInv, ConnTypeOK, OutputsKnown
<1>1. CASE Advertise
  <2>1. Serve("get_registry") /\ UNCHANGED compVars
    BY <1>1 DEF Advertise
  <2>2. PICK manager \in {<<>>, <<[type |-> "manager"]>>},
             order \in [1..Cardinality(present) -> present] : Emit(Globals(manager, order))
    BY <1>1 DEF Advertise, Globals
  <2>3. /\ events' \in Seq(Event)
        /\ \A e \in Range(events') : e \in Range(events) \/ e.type # "configure"
    BY <1>0, <2>2, GlobalsTyped, EmitFacts
  <2>4. CompTypeOK' /\ IsFiniteSet(present') /\ UNCHANGED <<surfaces, acked, mapped>>
    BY <1>0, <2>1, Kept DEF compVars
  <2> QED BY <1>0, <2>1, <2>3, <2>4, ServeFacts, CompOnly
<1>2. CASE ServeSync
  <2>1. Serve("sync") /\ Emit(<<[type |-> "done"]>>) /\ UNCHANGED compVars
    BY <1>2 DEF ServeSync
  <2>2. /\ events' \in Seq(Event)
        /\ \A e \in Range(events') : e \in Range(events) \/ e.type = "done"
    BY <1>0, <2>1, EventsMade, EmitOne
  <2>3. CompTypeOK' /\ IsFiniteSet(present') /\ UNCHANGED <<surfaces, acked, mapped>>
    BY <1>0, <2>1, Kept DEF compVars
  <2> QED BY <1>0, <2>1, <2>2, <2>3, ServeFacts, CompOnly
<1>3. CASE ServeLock
  <2>1. CompTypeOK' /\ IsFiniteSet(present') /\ UNCHANGED <<events, surfaces, acked, mapped>>
    BY <1>0, <1>3 DEF ServeLock, CompTypeOK
  <2>2. Serve("lock")
    BY <1>3 DEF ServeLock
  <2> QED BY <1>0, <2>1, <2>2, ServeFacts, CompOnly
<1>4. CASE ServeUnlock
  <2>1. CASE Reject("unlock_and_destroy", "invalid_unlock")
    BY <2>1, ErrorNames
  <2>2. CASE /\ Serve("unlock_and_destroy")
             /\ lock_state' = "unlocked"
             /\ UNCHANGED <<events, present, revoked, surfaces, acked, mapped, frame_ready, perror>>
    <3>1. CompTypeOK' /\ IsFiniteSet(present')
      BY <1>0, <2>2 DEF CompTypeOK
    <3> QED BY <1>0, <2>2, <3>1, ServeFacts, CompOnly
  <2> QED BY <1>4, <2>1, <2>2 DEF ServeUnlock
<1>5. CASE ServeDestroy
  <2>1. CASE Reject("destroy", "invalid_destroy")
    BY <2>1, ErrorNames
  <2>2. CASE /\ Serve("destroy")
             /\ lock_state' = "destroyed"
             /\ UNCHANGED <<events, present, revoked, surfaces, acked, mapped, frame_ready, perror>>
    <3>1. CompTypeOK' /\ IsFiniteSet(present')
      BY <1>0, <2>2 DEF CompTypeOK
    <3> QED BY <1>0, <2>2, <3>1, ServeFacts, CompOnly
  <2> QED BY <1>5, <2>1, <2>2 DEF ServeDestroy
<1>6. CASE ServeGetLockSurface
  <2> DEFINE o == Head(requests).output
  <2>1. CASE Reject("get_lock_surface", "duplicate_output")
    BY <2>1, ErrorNames
  <2>2. CASE /\ Serve("get_lock_surface")
             /\ surfaces' = surfaces \cup {o}
             /\ Emit(IF o \in present THEN <<[type |-> "configure", output |-> o]>> ELSE <<>>)
             /\ UNCHANGED <<present, lock_state, revoked, acked, mapped, frame_ready, perror>>
    <3>1. o \in Output /\ o \in lock_surfaces
      BY <1>0, <2>2, ServeFacts, RequestFields DEF OutputsKnown
    <3> HIDE DEF o
    <3>2. CompTypeOK' /\ IsFiniteSet(present')
      BY <1>0, <2>2, <3>1 DEF CompTypeOK
    <3>3. /\ events' \in Seq(Event)
          /\ Range(events') \subseteq Range(events) \cup {[type |-> "configure", output |-> o]}
      <4>1. CASE Emit(<<[type |-> "configure", output |-> o]>>)
        <5>1. [type |-> "configure", output |-> o] \in Event
          BY <3>1, EventsMade
        <5> QED BY <1>0, <4>1, <5>1, EmitOne
      <4>2. CASE Emit(<<>>)
        <5>1. <<>> \in Seq(Event) /\ Range(<<>>) = {}
          BY SmallRange
        <5> QED BY <1>0, <4>2, <5>1, EmitFacts
      <4>3. Emit(<<[type |-> "configure", output |-> o]>>) \/ Emit(<<>>)
        BY <2>2
      <4> QED BY <4>1, <4>2, <4>3
    <3>4. \A e \in Range(events') :
              e \in Range(events) \/ e.type # "configure" \/ e.output \in lock_surfaces
      BY <3>1, <3>3
    <3> QED BY <1>0, <2>2, <3>1, <3>2, <3>3, <3>4, ServeFacts, CompOnly
  <2> QED BY <1>6, <2>1, <2>2 DEF ServeGetLockSurface
<1>7. CASE ServeAck
  <2>1. /\ Serve("ack_configure") /\ acked' = acked \cup {Head(requests).output}
        /\ UNCHANGED <<events, present, lock_state, revoked, surfaces, mapped, frame_ready, perror>>
    BY <1>7 DEF ServeAck
  <2>2. Head(requests).output \in Output /\ Head(requests).output \in lock_surfaces
    BY <1>0, <2>1, ServeFacts, RequestFields DEF OutputsKnown
  <2>3. CompTypeOK' /\ IsFiniteSet(present')
    BY <1>0, <2>1, <2>2 DEF CompTypeOK
  <2> QED BY <1>0, <2>1, <2>2, <2>3, ServeFacts, CompOnly
<1>8. CASE ServeCommit
  <2> DEFINE c == Head(requests)
  <2>1. CASE Reject("commit", "commit_before_first_ack")
    BY <2>1, ErrorNames
  <2>2. CASE /\ Serve("commit")
             /\ c.on \subseteq acked
             /\ mapped' = mapped \cup c.on
             /\ frame_ready' = IF c.frame \in c.on THEN c.frame ELSE frame_ready
             /\ UNCHANGED <<events, present, lock_state, revoked, surfaces, acked, perror>>
    <3>1. CompTypeOK' /\ IsFiniteSet(present')
      BY <1>0, <2>2 DEF CompTypeOK
    <3> QED BY <1>0, <2>2, <3>1, ServeFacts, CompOnly
  <2> QED BY <1>8, <2>1, <2>2 DEF ServeCommit
<1> QED
  BY <1>1, <1>2, <1>3, <1>4, <1>5, <1>6, <1>7, <1>8 DEF ServeRequest

LEMMA TypeCompNext ==
    ASSUME TypeInv, CompNext, UNCHANGED clientVars
    PROVE  TypeInv'
<1>0. /\ ConnTypeOK /\ CompTypeOK /\ IsFiniteSet(present) /\ OutputsKnown
      /\ requests \in Seq(Request) /\ events \in Seq(Event) /\ conn \in {"up", "closed", "dead"}
      /\ surfaces \cup acked \cup mapped \subseteq lock_surfaces
  BY DEF TypeInv, ConnTypeOK, OutputsKnown
<1>1. CASE ServeRequest
  BY <1>1, TypeServeRequest
\* The events that are about no lock surface.
<1>2. ASSUME NEW e \in Event, e.type # "configure", Emit(<<e>>),
             UNCHANGED <<requests, conn, surfaces, acked, mapped>>,
             CompTypeOK', IsFiniteSet(present')
      PROVE  TypeInv'
  <2>1. events' \in Seq(Event) /\ Range(events') \subseteq Range(events) \cup {e}
    BY <1>0, <1>2, EmitOne
  <2> QED BY <1>0, <1>2, <2>1, CompOnly
<1>3. CASE GrantLock \/ DenyLock \/ RevokeLock
  <2>1. PICK type \in {"locked", "finished"} : Emit(<<[type |-> type]>>)
    BY <1>3 DEF GrantLock, DenyLock, RevokeLock
  <2>2. CompTypeOK' /\ IsFiniteSet(present') /\ UNCHANGED <<requests, conn, surfaces, acked, mapped>>
    BY <1>0, <1>3 DEF GrantLock, DenyLock, RevokeLock, CompTypeOK
  <2> QED BY <1>2, <2>1, <2>2, EventsMade
<1>4. CASE DrawFrame
  <2>1. PICK dt \in FrameTime : Emit(<<[type |-> "frame", dt |-> dt]>>)
    BY <1>4 DEF DrawFrame
  <2>2. CompTypeOK' /\ IsFiniteSet(present') /\ UNCHANGED <<requests, conn, surfaces, acked, mapped>>
    BY <1>0, <1>4 DEF DrawFrame, CompTypeOK
  <2>3. dt \in 1..MaxDt
    BY EnvironmentAssumption
  <2> QED BY <1>2, <2>1, <2>2, <2>3, EventsMade
<1>5. CASE PressKey \/ SendOther
  <2>1. PICK e \in Event : e.type # "configure" /\ Emit(<<e>>)
    <3>1. CASE PressKey
      <4>1. PICK sym \in Keys : Emit(<<[type |-> "key", sym |-> sym]>>)
        BY <3>1 DEF PressKey
      <4>2. sym \in KeySym
        BY EnvironmentAssumption
      <4> QED BY <4>1, <4>2, EventsMade
    <3>2. CASE SendOther
      BY <3>2, EventsMade DEF SendOther
    <3> QED BY <1>5, <3>1, <3>2
  <2>2. UNCHANGED <<requests, conn, compVars>>
    BY <1>5 DEF PressKey, SendOther
  <2>3. CompTypeOK' /\ IsFiniteSet(present') /\ UNCHANGED <<surfaces, acked, mapped>>
    BY <1>0, <2>2, Kept DEF compVars
  <2> QED BY <1>2, <2>1, <2>2, <2>3
<1>6. CASE Plug \/ Unplug
  <2>1. PICK e \in Event : e.type # "configure" /\ Emit(<<e>>)
    <3>1. CASE Plug
      <4>1. PICK o \in Pluggable : Emit(<<[type |-> "global", output |-> o]>>)
        BY <3>1 DEF Plug
      <4>2. o \in Output
        BY EnvironmentAssumption
      <4> QED BY <4>1, <4>2, EventsMade
    <3>2. CASE Unplug
      BY <3>2, EventsMade DEF Unplug
    <3> QED BY <1>6, <3>1, <3>2
  <2>2. PICK o : (present' = present \cup {o} /\ o \in Pluggable) \/ present' = present \ {o}
    BY <1>6 DEF Plug, Unplug
  <2>3. present' \subseteq Output /\ IsFiniteSet(present')
    BY <1>0, <2>2, FS_AddElement, FS_RemoveElement, EnvironmentAssumption DEF CompTypeOK
  <2>4. CompTypeOK' /\ UNCHANGED <<requests, conn, surfaces, acked, mapped>>
    BY <1>0, <1>6, <2>3 DEF Plug, Unplug, CompTypeOK
  <2> QED BY <1>2, <2>1, <2>3, <2>4
<1>7. CASE Resize
  <2>1. PICK o \in mapped : Emit(<<[type |-> "configure", output |-> o]>>)
    BY <1>7 DEF Resize
  <2>2. UNCHANGED <<requests, conn, compVars>>
    BY <1>7 DEF Resize
  <2>3. CompTypeOK' /\ IsFiniteSet(present') /\ UNCHANGED <<surfaces, acked, mapped>>
    BY <1>0, <2>2, Kept DEF compVars
  <2>4. o \in Output /\ o \in lock_surfaces
    BY <1>0 DEF CompTypeOK
  <2>5. /\ events' \in Seq(Event)
        /\ Range(events') \subseteq Range(events) \cup {[type |-> "configure", output |-> o]}
    BY <1>0, <2>1, <2>4, EventsMade, EmitOne
  <2>6. \A e \in Range(events') :
            e \in Range(events) \/ e.type # "configure" \/ e.output \in lock_surfaces
    BY <2>4, <2>5
  <2> QED BY <1>0, <2>2, <2>3, <2>5, <2>6, CompOnly
<1>8. CASE Die \/ (Hangup /\ UNCHANGED compVars)
  <2>1. requests' = <<>> /\ UNCHANGED <<events, compVars>> /\ conn' \in {"up", "closed", "dead"}
    BY <1>0, <1>8 DEF Die, Hangup
  <2>2. CompTypeOK' /\ IsFiniteSet(present') /\ UNCHANGED <<surfaces, acked, mapped>>
    BY <1>0, <2>1, Kept DEF compVars
  <2>3. requests' \in Seq(Request) /\ Range(requests') = {}
    BY <2>1, SmallRange
  <2> QED BY <1>0, <2>1, <2>2, <2>3, CompOnly
<1> QED
  BY <1>1, <1>3, <1>4, <1>5, <1>6, <1>7, <1>8 DEF CompNext

-----------------------------------------------------------------------------
(* The invariant *)

LEMMA TypeNext == TypeInv /\ [Next]_vars => TypeInv'
<1> SUFFICES ASSUME TypeInv, [Next]_vars
             PROVE  TypeInv'
  OBVIOUS
<1>1. CASE ClientStep
  BY <1>1, TypeHandleEvent, TypeRunMain DEF ClientStep, ClientNext
<1>2. CASE CompStep
  BY <1>2, TypeCompNext DEF CompStep
<1>3. CASE UNCHANGED vars
  <2>1. UNCHANGED <<requests, events, conn, clientVars, compVars>>
    BY <1>3 DEF vars, connVars
  <2>2. CompTypeOK' /\ IsFiniteSet(present') /\ UNCHANGED <<surfaces, acked, mapped>>
    BY <2>1, Kept DEF compVars, TypeInv
  <2> QED BY <2>1, <2>2, CompOnly DEF TypeInv, ConnTypeOK, OutputsKnown
<1> QED BY <1>1, <1>2, <1>3 DEF Next

\* Typed states, and lock surfaces for known outputs only, whatever the
\* monitors, the timing and the size of the buffer are.
THEOREM TypeInvariant == Spec => []TypeInv
BY TypeInit, TypeNext, PTL DEF Spec

\* The program edits its password buffer as the password entry specifies.
THEOREM ImplementsPasswordEntry == Spec => PwSpec
<1>1. Init => PwInit
  BY DEF Init, ClientInit
<1>2. [Next]_vars => [PwNext]_pwVars
  <2> SUFFICES ASSUME [Next]_vars
               PROVE  PwNext \/ UNCHANGED pwVars
    OBVIOUS
  <2>1. CASE HandleKey
    BY <2>1
       DEF HandleKey, KeyUnlocked, KeySubmit, KeyEdit, PwNext
  <2>2. CASE HandleEvent /\ ~HandleKey
    BY <2>2
       DEF HandleEvent, Synced, HandleOther, HandleManager, HandleGlobal, HandleLocked,
           HandleFinished, DropStaleEvent, HandleConfigure, HandleFrame
  <2>3. CASE RunMain \/ Signal
    BY <2>3
       DEF RunMain, Signal, GiveUp, RequestLock, LockRefused, EnterLoop, LeaveLoop,
           UnlockSession, KeepRunning, DispatchFails, UnlockRoundtripReturns, Teardown
  <2>4. CASE CompStep \/ UNCHANGED vars
    BY <2>4 DEF CompStep, vars, clientVars
  <2> QED BY <2>1, <2>2, <2>3, <2>4 DEF Next, ClientStep, ClientNext
<1> QED BY <1>1, <1>2, PTL DEF Spec, PwSpec

\* The type invariant of the locker and the compositor.
THEOREM TypeCorrect == Spec => []TypeOK
<1>1. TypeInv /\ PwTypeOK => TypeOK
  BY DEF TypeInv, TypeOK
<1> QED BY <1>1, TypeInvariant, ImplementsPasswordEntry, PwTypeCorrect, PTL

-----------------------------------------------------------------------------
(* The refinement *)

Requested(type) == \E r \in Range(requests) : r.type = type

Queued(type) == \E e \in Range(events) : e.type = type

\* A request for the lock is the only one in q and comes before destroy.
LockComesFirst(q) ==
    \A i, j \in 1..Len(q) :
        q[i].type = "lock" /\ q[j].type \in {"lock", "destroy"} => i <= j

\* Before main() asks for the lock, nothing is known of one.
NothingYet ==
    pc = "connecting" =>
        /\ lock_state = "none" /\ lock_object = "null"
        /\ ~session_locked /\ ~locked /\ ~closed
        /\ \A type \in {"lock", "unlock_and_destroy", "destroy"} : ~Requested(type)

\* The lock is asked for once, before anything else happens to it.
AskedOnce ==
    /\ Requested("lock") => lock_state = "none"
    /\ LockComesFirst(requests)

\* While the client holds its lock object it has not given it up, and the
\* compositor has not been told that it did.
LiveLock ==
    pc # "exited" /\ lock_object = "live" =>
        /\ ~Requested("unlock_and_destroy") /\ ~Requested("destroy")
        /\ lock_state \notin {"unlocked", "destroyed"}

\* What an event on its way says of the compositor, or of the client.
EventsTrue ==
    /\ Queued("locked") => lock_state \notin {"none", "pending", "denied"}
    /\ Queued("finished") => revoked \/ lock_state \in {"denied", "destroyed"}
    /\ Queued("key") => locked

\* What the client believes of the session is so.
ClientKnows ==
    /\ session_locked /\ pc # "exited" => lock_object = "live" /\ lock_state = "locked"
    /\ locked => session_locked \/ lock_object = "null"
    /\ lock_surfaces # {} => locked
    /\ closed /\ lock_object = "live" => revoked

\* A correct password is given while the session is locked, and is
\* remembered until the unlock.
PasswordCounts ==
    counting_down \/ auth_result = 1 =>
        session_locked \/ pc \in {"unlocking", "teardown", "exited"}

\* Why main() has left its loop.
LeftForReason ==
    /\ pc = "unlocking" => lock_object = "null"
    /\ pc = "teardown" => closed \/ g_should_exit \/ conn = "dead" \/ lock_object = "null"

\* An unlock on its way has been permitted, and is the only way the lock
\* object is given up.
UnlockPermitted ==
    /\ Requested("unlock_and_destroy") => AbstractPermits # {}
    /\ Requested("destroy") => lock_state # "unlocked" /\ ~Requested("unlock_and_destroy")
    /\ lock_state = "unlocked" => AbstractPermits # {}

LockInv ==
    /\ NothingYet /\ AskedOnce /\ LiveLock /\ EventsTrue /\ ClientKnows
    /\ PasswordCounts /\ LeftForReason /\ UnlockPermitted
-----------------------------------------------------------------------------
(* Queues *)

LockRequests == {"lock", "unlock_and_destroy", "destroy"}

\* Requests about the lock object: none is added.
NoLockRequest ==
    /\ \A type \in LockRequests : Requested(type)' => Requested(type)
    /\ LockComesFirst(requests) => LockComesFirst(requests')

LEMMA TailFirst ==
    ASSUME NEW S, NEW q \in Seq(S), q # <<>>, LockComesFirst(q)
    PROVE  /\ LockComesFirst(Tail(q))
           /\ Head(q).type \in {"lock", "destroy"} => \A r \in Range(Tail(q)) : r.type # "lock"
<1>1. Len(Tail(q)) = Len(q) - 1 /\ \A i \in 1..Len(Tail(q)) : Tail(q)[i] = q[i + 1]
  BY HeadTailProperties
<1>2. Len(q) \in Nat /\ Len(q) > 0 /\ Head(q) = q[1]
  BY HeadTailProperties, EmptySeq
<1>3. LockComesFirst(Tail(q))
  <2> SUFFICES ASSUME NEW i \in 1..Len(Tail(q)), NEW j \in 1..Len(Tail(q)),
                      Tail(q)[i].type = "lock", Tail(q)[j].type \in {"lock", "destroy"}
               PROVE  i <= j
    BY DEF LockComesFirst
  <2>1. i + 1 \in 1..Len(q) /\ j + 1 \in 1..Len(q)
    BY <1>1, <1>2
  <2>2. q[i + 1].type = "lock" /\ q[j + 1].type \in {"lock", "destroy"}
    BY <1>1
  <2>3. i + 1 <= j + 1
    BY <2>1, <2>2 DEF LockComesFirst
  <2> QED BY <2>3
<1>4. ASSUME Head(q).type \in {"lock", "destroy"}, NEW r \in Range(Tail(q)), r.type = "lock"
      PROVE  FALSE
  <2>1. PICK i \in 1..Len(Tail(q)) : r = Tail(q)[i]
    BY <1>4, TailRange DEF Range
  <2>2. i + 1 \in 1..Len(q) /\ 1 \in 1..Len(q) /\ ~(i + 1 <= 1)
    BY <1>1, <1>2
  <2>3. q[i + 1].type = "lock" /\ q[1].type \in {"lock", "destroy"}
    BY <1>1, <1>2, <1>4, <2>1
  <2> QED BY <2>2, <2>3 DEF LockComesFirst
<1> QED BY <1>3, <1>4

LEMMA ConcatFirst ==
    ASSUME NEW S, NEW q \in Seq(S), NEW m \in Seq(S), LockComesFirst(q), LockComesFirst(m),
           \/ \A r \in Range(q) : r.type \notin {"lock", "destroy"}
           \/ \A r \in Range(m) : r.type # "lock"
    PROVE  LockComesFirst(q \o m)
<1> SUFFICES ASSUME NEW i \in 1..Len(q \o m), NEW j \in 1..Len(q \o m),
                    (q \o m)[i].type = "lock", (q \o m)[j].type \in {"lock", "destroy"}
             PROVE  i <= j
  BY DEF LockComesFirst
<1>1. /\ Len(q) \in Nat /\ Len(m) \in Nat /\ Len(q \o m) = Len(q) + Len(m)
      /\ \A k \in 1..Len(q) + Len(m) :
             (q \o m)[k] = IF k <= Len(q) THEN q[k] ELSE m[k - Len(q)]
  BY ConcatProperties, LenProperties
<1>2. /\ \A k \in 1..Len(q) : q[k] \in Range(q)
      /\ \A k \in 1..Len(m) : m[k] \in Range(m)
  BY DEF Range
<1>3. CASE i <= Len(q) /\ j <= Len(q)
  BY <1>1, <1>3 DEF LockComesFirst
<1>4. CASE i > Len(q) /\ j > Len(q)
  <2>1. i - Len(q) \in 1..Len(m) /\ j - Len(q) \in 1..Len(m)
    BY <1>1, <1>4
  <2>2. m[i - Len(q)].type = "lock" /\ m[j - Len(q)].type \in {"lock", "destroy"}
    BY <1>1, <1>4
  <2>3. i - Len(q) <= j - Len(q)
    BY <2>1, <2>2 DEF LockComesFirst
  <2> QED BY <1>1, <2>3
<1>5. CASE i <= Len(q) /\ j > Len(q)
  BY <1>1, <1>5
<1>6. CASE i > Len(q) /\ j <= Len(q)
  <2>1. q[j].type \in {"lock", "destroy"} /\ q[j] \in Range(q)
    BY <1>1, <1>2, <1>6
  <2>2. m[i - Len(q)].type = "lock" /\ m[i - Len(q)] \in Range(m)
    BY <1>1, <1>2, <1>6
  <2> QED BY <2>1, <2>2
<1> QED BY <1>1, <1>3, <1>4, <1>5, <1>6

\* Nothing sent about the lock.
LEMMA SendNoLock ==
    ASSUME ConnTypeOK, NEW msgs \in Seq(Request), Send(msgs),
           \A r \in Range(msgs) : r.type \notin LockRequests
    PROVE  NoLockRequest
<1>1. Range(requests') \subseteq Range(requests) \cup Range(msgs)
  BY SendFacts
<1>2. \A type \in LockRequests : Requested(type)' => Requested(type)
  BY <1>1 DEF Requested
<1>3. \A r \in Range(msgs) : r.type # "lock"
  BY DEF LockRequests
<1>4. LockComesFirst(msgs)
  BY <1>3 DEF LockComesFirst, Range
<1>5. LockComesFirst(requests) => LockComesFirst(requests')
  BY <1>3, <1>4, ConcatFirst DEF Send, ConnTypeOK
<1> QED BY <1>2, <1>5 DEF NoLockRequest

LEMMA ArmFrameNoLock ==
    ASSUME OutputTypeOK, ConnTypeOK, ArmFrame
    PROVE  NoLockRequest
<1>1. FrameSurface \in Output \cup {Window, NoSurface} /\ configured \in SUBSET Output
  BY FrameSurfaceKnown
<1>2. Commit(configured, FrameSurface) \in Request
      /\ Commit(configured, FrameSurface).type = "commit"
  BY <1>1, RequestsMade DEF Commit
<1>3. /\ <<Commit(configured, FrameSurface)>> \in Seq(Request)
      /\ \A r \in Range(<<Commit(configured, FrameSurface)>>) : r.type \notin LockRequests
  BY <1>2, SmallRange DEF LockRequests
<1> QED BY <1>3, SendNoLock DEF ArmFrame

LEMMA PermitsGiven ==
    /\ AbstractPermits # {} <=>
           counting_down \/ auth_result = 1 \/ revoked \/ g_should_exit
    /\ AbstractPermits' # {} <=>
           counting_down' \/ auth_result' = 1 \/ revoked' \/ g_should_exit'
BY DEF AbstractPermits

LEMMA LockInit == Init => LockInv
<1> SUFFICES ASSUME Init
             PROVE  LockInv
  OBVIOUS
<1>1. /\ pc = "connecting" /\ lock_state = "none" /\ lock_object = "null"
      /\ ~session_locked /\ ~locked /\ ~closed
      /\ lock_surfaces = {} /\ ~counting_down /\ auth_result = 0
      /\ requests = <<GetRegistry, Sync>> /\ events = <<>>
  BY DEF Init, ClientInit, CompInit
<1>2. Range(requests) = {GetRegistry, Sync} /\ Range(events) = {}
  BY <1>1, SmallRange
<1>3. \A type \in LockRequests : ~Requested(type)
  BY <1>2 DEF Requested, LockRequests, GetRegistry, Sync
<1>4. \A type : ~Queued(type)
  BY <1>2 DEF Queued
<1>5. LockComesFirst(requests)
  BY <1>1 DEF LockComesFirst, GetRegistry, Sync
<1> QED
  BY <1>1, <1>3, <1>4, <1>5
     DEF LockInv, NothingYet, AskedOnce, LiveLock, EventsTrue, ClientKnows, PasswordCounts,
         LeftForReason, UnlockPermitted, LockRequests

-----------------------------------------------------------------------------
(* Handlers *)

\* A step of the client that does not touch the lock.
LEMMA ClientQuiet ==
    ASSUME LockInv, UNCHANGED <<compVars, lockVars, pc, conn, lock_surfaces>>, NoLockRequest,
           Range(events') \subseteq Range(events), g_should_exit => g_should_exit',
           PasswordCounts', AbstractPermits # {} => AbstractPermits' # {}
    PROVE  LockInv'
<1>1. \A type : Queued(type)' => Queued(type)
  BY DEF Queued
<1>2. /\ UNCHANGED <<has_manager, lock_object, session_locked, locked, closed>>
      /\ UNCHANGED <<lock_state, revoked>>
  BY DEF lockVars, compVars
<1>3. NothingYet' /\ AskedOnce' /\ LiveLock'
  BY <1>2 DEF LockInv, NothingYet, AskedOnce, LiveLock, NoLockRequest, LockRequests
<1>4. EventsTrue' /\ ClientKnows' /\ LeftForReason'
  BY <1>1, <1>2 DEF LockInv, EventsTrue, ClientKnows, LeftForReason
<1>5. UnlockPermitted'
  BY <1>2 DEF LockInv, UnlockPermitted, NoLockRequest, LockRequests
<1> QED BY <1>3, <1>4, <1>5 DEF LockInv

\* An event that only the queues, the outputs and the frame loop notice.
LEMMA EventQuiet ==
    ASSUME TypeInv, LockInv, NEW type, Dispatch(type), NoLockRequest,
           UNCHANGED <<compVars, lockVars, lock_surfaces, counting_down, auth_result>>
    PROVE  LockInv'
<1>1. UNCHANGED <<pc, conn, g_should_exit, revoked>> /\ Range(events') \subseteq Range(events)
  BY DispatchFacts DEF TypeInv, compVars
<1>2. PasswordCounts'
  BY <1>1 DEF LockInv, PasswordCounts, lockVars
<1>3. AbstractPermits # {} => AbstractPermits' # {}
  BY <1>1, PermitsGiven
<1> QED BY <1>1, <1>2, <1>3, ClientQuiet

LEMMA SameRequests ==
    ASSUME UNCHANGED requests
    PROVE  NoLockRequest
BY DEF NoLockRequest, Requested

\* What a handler may conclude from the event it has read.
LEMMA DispatchQueued ==
    ASSUME TypeInv, NEW type, Dispatch(type)
    PROVE  /\ UNCHANGED <<pc, conn, g_should_exit>> /\ Queued(type)
           /\ pc \in {"connecting", "locking", "running", "unlocking"}
           /\ \A t : Queued(t)' => Queued(t)
<1>1. ConnTypeOK
  BY DEF TypeInv
<1>2. /\ Range(events') \subseteq Range(events) /\ UNCHANGED <<pc, conn, g_should_exit>>
      /\ Head(events) \in Range(events) /\ Head(events).type = type
      /\ pc \in {"connecting", "locking", "running", "unlocking"}
  BY <1>1, DispatchFacts
<1> QED BY <1>2 DEF Queued

LEMMA LockHandleLocked ==
    ASSUME TypeInv, LockInv, HandleLocked, UNCHANGED compVars
    PROVE  LockInv'
<1> DEFINE msgs == [i \in 1..Len(lock_outputs) |-> GetLockSurface(lock_outputs[i])]
<1>1. /\ Dispatch("locked") /\ lock_object = "live" /\ session_locked' = TRUE /\ locked' = TRUE
      /\ Send(msgs)
      /\ UNCHANGED <<has_manager, lock_object, closed, counting_down, auth_result>>
      /\ UNCHANGED <<lock_state, revoked>>
  BY DEF HandleLocked, authVars, compVars
<1>2. NoLockRequest
  <2>1. msgs \in Seq(Request)
    BY RequestsMade DEF TypeInv, OutputTypeOK
  <2>2. \A r \in Range(msgs) : r.type \notin LockRequests
    BY DEF GetLockSurface, Range, LockRequests
  <2> HIDE DEF msgs
  <2> QED BY <1>1, <2>1, <2>2, SendNoLock DEF TypeInv
<1> HIDE DEF msgs
<1>3. /\ UNCHANGED <<pc, conn, g_should_exit>> /\ Queued("locked")
      /\ pc \in {"connecting", "locking", "running", "unlocking"}
      /\ \A type : Queued(type)' => Queued(type)
  BY <1>1, DispatchQueued
<1>4. lock_state = "locked" /\ pc # "connecting"
  BY <1>1, <1>3
     DEF LockInv, EventsTrue, LiveLock, NothingYet, TypeInv, CompTypeOK
<1>5. NothingYet' /\ AskedOnce' /\ LiveLock'
  BY <1>1, <1>2, <1>3, <1>4
     DEF LockInv, NothingYet, AskedOnce, LiveLock, NoLockRequest, LockRequests
<1>6. EventsTrue' /\ ClientKnows'
  BY <1>1, <1>3, <1>4 DEF LockInv, EventsTrue, ClientKnows
<1>7. PasswordCounts' /\ LeftForReason'
  BY <1>1, <1>3 DEF LockInv, PasswordCounts, LeftForReason
<1>8. UnlockPermitted'
  BY <1>1, <1>2, <1>3, PermitsGiven DEF LockInv, UnlockPermitted, NoLockRequest, LockRequests
<1> QED BY <1>5, <1>6, <1>7, <1>8 DEF LockInv

LEMMA DestroySent ==
    ASSUME ConnTypeOK, LockComesFirst(requests), Send(<<Destroy>>)
    PROVE  /\ Requested("lock")' => Requested("lock")
           /\ Requested("unlock_and_destroy")' => Requested("unlock_and_destroy")
           /\ LockComesFirst(requests')
<1>1. <<Destroy>> \in Seq(Request) /\ Range(<<Destroy>>) = {Destroy}
  BY RequestsMade, SmallRange
<1>2. Range(requests') \subseteq Range(requests) \cup {Destroy} /\ Destroy.type = "destroy"
  BY <1>1, SendFacts DEF Destroy
<1>3. LockComesFirst(<<Destroy>>)
  BY DEF LockComesFirst, Destroy
<1>4. LockComesFirst(requests')
  BY <1>1, <1>2, <1>3, ConcatFirst DEF Send, ConnTypeOK
<1> QED BY <1>2, <1>4 DEF Requested

LEMMA LockHandleFinished ==
    ASSUME TypeInv, LockInv, HandleFinished, UNCHANGED compVars
    PROVE  LockInv'
<1>1. /\ Dispatch("finished") /\ lock_object = "live" /\ closed' = TRUE
      /\ UNCHANGED <<has_manager, session_locked, locked, counting_down, auth_result,
                     lock_surfaces, lock_state, revoked>>
  BY DEF HandleFinished, authVars, outputVars, compVars
<1>2. /\ UNCHANGED <<pc, conn, g_should_exit>> /\ Queued("finished")
      /\ pc \in {"connecting", "locking", "running", "unlocking"}
      /\ \A type : Queued(type)' => Queued(type)
  BY <1>1, DispatchQueued
<1>3. pc # "connecting"
  BY <1>1 DEF LockInv, NothingYet
<1>4. NothingYet' /\ EventsTrue' /\ PasswordCounts'
  BY <1>1, <1>2, <1>3 DEF LockInv, NothingYet, EventsTrue, PasswordCounts
<1>5. CASE session_locked /\ UNCHANGED <<requests, lock_object>>
  <2>1. revoked
    BY <1>2, <1>5 DEF LockInv, EventsTrue, ClientKnows
  <2>2. AskedOnce' /\ LiveLock' /\ ClientKnows' /\ LeftForReason'
    BY <1>1, <1>2, <1>5, <2>1
       DEF LockInv, AskedOnce, LiveLock, ClientKnows, LeftForReason, Requested
  <2>3. UnlockPermitted'
    BY <1>1, <1>2, <1>5, PermitsGiven DEF LockInv, UnlockPermitted, Requested
  <2> QED BY <1>4, <2>2, <2>3 DEF LockInv
<1>6. CASE ~session_locked /\ Send(<<Destroy>>) /\ lock_object' = "null"
  <2>1. /\ Requested("lock")' => Requested("lock")
        /\ Requested("unlock_and_destroy")' => Requested("unlock_and_destroy")
        /\ LockComesFirst(requests')
    BY <1>6, DestroySent DEF TypeInv, LockInv, AskedOnce
  <2>2. AskedOnce' /\ LiveLock' /\ ClientKnows' /\ LeftForReason'
    BY <1>1, <1>2, <1>6, <2>1 DEF LockInv, AskedOnce, LiveLock, ClientKnows, LeftForReason
  <2>3. ~Requested("unlock_and_destroy") /\ lock_state # "unlocked"
    BY <1>1, <1>2 DEF LockInv, LiveLock
  <2>4. UnlockPermitted'
    BY <1>1, <2>1, <2>3 DEF UnlockPermitted
  <2> QED BY <1>4, <2>2, <2>4 DEF LockInv
<1> QED BY <1>5, <1>6 DEF HandleFinished

LEMMA LockHandleKey ==
    ASSUME TypeInv, LockInv, HandleKey, UNCHANGED compVars
    PROVE  LockInv'
<1>1. /\ Dispatch("key")
      /\ UNCHANGED <<requests, synced, has_manager, lock_object, session_locked, locked,
                     lock_surfaces, lock_state, revoked>>
  BY DEF HandleKey, outputVars, compVars
<1>2. /\ UNCHANGED <<pc, conn, g_should_exit>> /\ Queued("key")
      /\ pc \in {"connecting", "locking", "running", "unlocking"}
      /\ \A type : Queued(type)' => Queued(type)
  BY <1>1, DispatchQueued
<1>3. locked /\ pc # "connecting"
  BY <1>2 DEF LockInv, EventsTrue, NothingYet
<1>4. PICK sym : KeyUnlocked(sym) \/ KeySubmit(sym) \/ KeyEdit(sym)
  BY DEF HandleKey
<1>5. /\ closed' => closed \/ ~session_locked
      /\ closed => closed'
      /\ counting_down => counting_down'
      /\ auth_result' = auth_result
      /\ counting_down' => counting_down \/ session_locked
  <2>1. closed \in BOOLEAN /\ counting_down \in BOOLEAN
    BY DEF TypeInv, LockTypeOK, AuthTypeOK
  <2>2. CASE KeyUnlocked(sym)
    BY <2>1, <2>2 DEF KeyUnlocked, authVars
  <2>3. CASE KeySubmit(sym)
    BY <2>1, <2>3 DEF KeySubmit, StartCountdown
  <2>4. CASE KeyEdit(sym)
    BY <2>1, <2>4 DEF KeyEdit, authVars
  <2> QED BY <1>4, <2>2, <2>3, <2>4
<1>6. NothingYet' /\ AskedOnce' /\ LiveLock' /\ EventsTrue'
  BY <1>1, <1>2, <1>3
     DEF LockInv, NothingYet, AskedOnce, LiveLock, EventsTrue, Requested
<1>7. ClientKnows'
  BY <1>1, <1>2, <1>3, <1>5 DEF LockInv, ClientKnows
<1>8. PasswordCounts' /\ LeftForReason'
  BY <1>1, <1>2, <1>5 DEF LockInv, PasswordCounts, LeftForReason
<1>9. UnlockPermitted'
  BY <1>1, <1>2, <1>5, PermitsGiven DEF LockInv, UnlockPermitted, Requested
<1> QED BY <1>6, <1>7, <1>8, <1>9 DEF LockInv

\* The countdown and the result it leaves are one permit.
LEMMA CountDownPermits ==
    ASSUME NEW dt, CountDown(dt)
    PROVE  counting_down \/ auth_result = 1 <=> counting_down' \/ auth_result' = 1
<1>1. CASE counting_down
  <2>1. /\ counting_down' = (countdown_timer > dt)
        /\ auth_result' = IF countdown_timer > dt THEN auth_result ELSE 1
    BY <1>1 DEF CountDown
  <2> QED BY <1>1, <2>1
<1>2. CASE ~counting_down
  BY <1>2 DEF CountDown
<1> QED BY <1>1, <1>2

LEMMA LockHandleEvent ==
    ASSUME TypeInv, LockInv, HandleEvent, UNCHANGED compVars
    PROVE  LockInv'
<1>1. CASE Synced \/ HandleOther \/ DropStaleEvent
  <2>1. PICK type : Dispatch(type)
    BY <1>1 DEF Synced, HandleOther, DropStaleEvent
  <2>2. UNCHANGED <<requests, lockVars, lock_surfaces, counting_down, auth_result>>
    BY <1>1 DEF Synced, HandleOther, DropStaleEvent, outputVars, authVars
  <2> QED BY <2>1, <2>2, SameRequests, EventQuiet
<1>2. CASE HandleManager
  <2>1. /\ Dispatch("manager")
        /\ UNCHANGED <<requests, lock_object, session_locked, locked, closed, lock_surfaces,
                       counting_down, auth_result, lock_state, revoked>>
    BY <1>2 DEF HandleManager, outputVars, authVars, compVars
  <2>2. UNCHANGED <<pc, conn, g_should_exit>> /\ \A type : Queued(type)' => Queued(type)
    BY <2>1, DispatchQueued
  <2>3. NothingYet' /\ AskedOnce' /\ LiveLock' /\ EventsTrue'
    BY <2>1, <2>2 DEF LockInv, NothingYet, AskedOnce, LiveLock, EventsTrue, Requested
  <2>4. ClientKnows' /\ PasswordCounts' /\ LeftForReason'
    BY <2>1, <2>2 DEF LockInv, ClientKnows, PasswordCounts, LeftForReason
  <2>5. UnlockPermitted'
    BY <2>1, <2>2, PermitsGiven DEF LockInv, UnlockPermitted, Requested
  <2> QED BY <2>3, <2>4, <2>5 DEF LockInv
<1>3. CASE HandleGlobal
  <2>1. /\ Dispatch("global")
        /\ UNCHANGED <<requests, lockVars, lock_surfaces, counting_down, auth_result>>
    BY <1>3 DEF HandleGlobal, authVars
  <2> QED BY <2>1, SameRequests, EventQuiet
<1>4. CASE HandleLocked
  BY <1>4, LockHandleLocked
<1>5. CASE HandleFinished
  BY <1>5, LockHandleFinished
<1>6. CASE HandleConfigure
  <2> DEFINE o == Head(events).output
             msgs == <<AckConfigure(o), Commit({o}, NoSurface)>>
  <2>1. /\ Dispatch("configure") /\ Send(msgs)
        /\ UNCHANGED <<lockVars, lock_surfaces, counting_down, auth_result>>
    BY <1>6 DEF HandleConfigure, authVars
  <2>2. o \in Output
    BY <2>1, DispatchFacts, EventFields DEF TypeInv
  <2>3. {AckConfigure(o), Commit({o}, NoSurface)} \subseteq Request
    BY <2>2, RequestsMade
  <2>4. AckConfigure(o).type \notin LockRequests /\ Commit({o}, NoSurface).type \notin LockRequests
    BY DEF AckConfigure, Commit, LockRequests
  <2>5. msgs \in Seq(Request) /\ \A r \in Range(msgs) : r.type \notin LockRequests
    <3>1. Range(msgs) = {AckConfigure(o), Commit({o}, NoSurface)}
      BY SmallRange
    <3>2. msgs \in Seq(Request)
      BY <2>3
    <3> QED BY <2>4, <3>1, <3>2
  <2> HIDE DEF msgs
  <2>6. NoLockRequest
    BY <2>1, <2>5, SendNoLock DEF TypeInv
  <2> QED BY <2>1, <2>6, EventQuiet
<1>7. CASE HandleFrame
  <2>1. /\ Dispatch("frame") /\ ArmFrame /\ UNCHANGED <<lockVars, lock_surfaces>>
        /\ CountDown(Head(events).dt)
    BY <1>7 DEF HandleFrame, outputVars
  <2>2. NoLockRequest
    BY <2>1, ArmFrameNoLock DEF TypeInv
  <2>3. UNCHANGED <<pc, conn, g_should_exit, revoked>> /\ Range(events') \subseteq Range(events)
    BY <2>1, DispatchFacts DEF TypeInv, compVars
  <2>4. counting_down \/ auth_result = 1 <=> counting_down' \/ auth_result' = 1
    BY <2>1, CountDownPermits
  <2>5. PasswordCounts'
    BY <2>1, <2>3, <2>4 DEF LockInv, PasswordCounts, lockVars
  <2>6. AbstractPermits # {} => AbstractPermits' # {}
    BY <2>3, <2>4, PermitsGiven
  <2> QED BY <2>1, <2>2, <2>3, <2>5, <2>6, ClientQuiet
<1>8. CASE HandleKey
  BY <1>8, LockHandleKey
<1> QED
  BY <1>1, <1>2, <1>3, <1>4, <1>5, <1>6, <1>7, <1>8 DEF HandleEvent

-----------------------------------------------------------------------------
(* main() and the signal handler *)

\* What the last requests of main() add to the queue.
LEMMA SentOrNot ==
    ASSUME ConnTypeOK, NEW msgs \in Seq(Request), Send(msgs),
           LockComesFirst(requests), LockComesFirst(msgs),
           \/ ~Requested("lock") /\ ~Requested("destroy")
           \/ \A r \in Range(msgs) : r.type # "lock"
    PROVE  /\ \A type : Requested(type)' =>
                  Requested(type) \/ (conn = "up" /\ \E r \in Range(msgs) : r.type = type)
           /\ LockComesFirst(requests')
<1>1. CASE conn = "up"
  <2>1. requests' = requests \o msgs
    BY <1>1 DEF Send
  <2>2. Range(requests') = Range(requests) \cup Range(msgs)
    BY <2>1, ConcatRange DEF ConnTypeOK
  <2>3. LockComesFirst(requests')
    BY <2>1, ConcatFirst DEF ConnTypeOK, Requested
  <2> QED BY <1>1, <2>2, <2>3 DEF Requested
<1>2. CASE conn # "up"
  BY <1>2 DEF Send, Requested
<1> QED BY <1>1, <1>2

LEMMA LastMessages ==
    ASSUME NEW msgs \in {<<Lock, Sync>>, <<UnlockAndDestroy, Sync>>, <<>>, <<UnlockAndDestroy>>,
                         <<Destroy>>}
    PROVE  /\ msgs \in Seq(Request) /\ LockComesFirst(msgs)
           /\ \A r \in Range(msgs) :
                  /\ r.type = "lock" => msgs = <<Lock, Sync>>
                  /\ r.type = "unlock_and_destroy" =>
                         msgs \in {<<UnlockAndDestroy, Sync>>, <<UnlockAndDestroy>>}
                  /\ r.type = "destroy" => msgs = <<Destroy>>
<1>1. msgs \in Seq(Request)
  BY LastRequests
<1>2. LockComesFirst(msgs)
  BY DEF LockComesFirst, Lock, Sync, UnlockAndDestroy, Destroy
<1>3. /\ Range(<<Lock, Sync>>) = {Lock, Sync} /\ Range(<<>>) = {}
      /\ Range(<<UnlockAndDestroy, Sync>>) = {UnlockAndDestroy, Sync}
      /\ Range(<<UnlockAndDestroy>>) = {UnlockAndDestroy} /\ Range(<<Destroy>>) = {Destroy}
  BY SmallRange
<1>4. /\ Lock.type = "lock" /\ Sync.type = "sync" /\ Destroy.type = "destroy"
      /\ UnlockAndDestroy.type = "unlock_and_destroy"
  BY DEF Lock, Sync, UnlockAndDestroy, Destroy
<1> QED BY <1>1, <1>2, <1>3, <1>4

\* Leaving: main() exits, or leaves its loop for a reason.
LEMMA LockLeave ==
    ASSUME TypeInv, LockInv,
           GiveUp \/ LockRefused \/ LeaveLoop \/ DispatchFails \/ UnlockRoundtripReturns,
           UNCHANGED compVars
    PROVE  LockInv'
<1>1. /\ UNCHANGED <<requests, lock_object, session_locked, locked, closed, lock_surfaces,
                     counting_down, auth_result, g_should_exit, lock_state, revoked>>
      /\ events' = events \/ events' = <<>>
  <2>1. CASE GiveUp \/ LockRefused
    <3>1. Disconnect(<<>>)
      BY <2>1 DEF GiveUp, LockRefused
    <3>2. requests' = requests /\ events' = <<>>
      BY <3>1, ConcatEmptySeq DEF Disconnect, Send, TypeInv, ConnTypeOK
    <3> QED
      BY <2>1, <3>2 DEF GiveUp, LockRefused, lockVars, outputVars, authVars, compVars
  <2>2. CASE LeaveLoop \/ DispatchFails \/ UnlockRoundtripReturns
    BY <2>2
       DEF LeaveLoop, DispatchFails, UnlockRoundtripReturns, connVars, lockVars, outputVars,
           authVars, compVars
  <2> QED BY <2>1, <2>2
<1>2. \A type : Queued(type)' => Queued(type)
  BY <1>1, SmallRange DEF Queued
<1>3. /\ pc' \in {"teardown", "exited"}
      /\ pc' = "teardown" =>
             closed \/ g_should_exit \/ (conn = "dead" /\ conn' = "dead") \/ lock_object = "null"
  BY DEF GiveUp, LockRefused, LeaveLoop, ShouldStop, DispatchFails, UnlockRoundtripReturns,
         connVars, LockInv, LeftForReason
<1>4. pc # "exited"
  BY DEF GiveUp, LockRefused, LeaveLoop, PassOver, DispatchFails, UnlockRoundtripReturns
<1>5. NothingYet' /\ AskedOnce' /\ LiveLock' /\ EventsTrue'
  BY <1>1, <1>2, <1>3, <1>4
     DEF LockInv, NothingYet, AskedOnce, LiveLock, EventsTrue, Requested
<1>6. ClientKnows' /\ PasswordCounts' /\ LeftForReason'
  BY <1>1, <1>3, <1>4 DEF LockInv, ClientKnows, PasswordCounts, LeftForReason
<1>7. UnlockPermitted'
  BY <1>1, PermitsGiven DEF LockInv, UnlockPermitted, Requested
<1> QED BY <1>5, <1>6, <1>7 DEF LockInv

LEMMA LockRequestLock ==
    ASSUME TypeInv, LockInv, RequestLock, UNCHANGED compVars
    PROVE  LockInv'
<1>1. /\ pc = "connecting" /\ pc' = "locking" /\ lock_object' = "live" /\ Send(<<Lock, Sync>>)
      /\ UNCHANGED <<events, conn, g_should_exit, session_locked, locked, closed, lock_surfaces,
                     counting_down, auth_result, lock_state, revoked>>
  BY DEF RequestLock, outputVars, authVars, compVars
<1>2. /\ lock_state = "none" /\ ~session_locked /\ ~locked /\ ~closed
      /\ \A type \in LockRequests : ~Requested(type)
  BY <1>1 DEF LockInv, NothingYet, LockRequests
<1>3. /\ LockComesFirst(requests')
      /\ ~Requested("unlock_and_destroy")' /\ ~Requested("destroy")'
  <2>1. /\ <<Lock, Sync>> \in Seq(Request) /\ LockComesFirst(<<Lock, Sync>>)
        /\ \A r \in Range(<<Lock, Sync>>) : r.type \notin {"unlock_and_destroy", "destroy"}
    <3>1. Range(<<Lock, Sync>>) = {Lock, Sync}
      BY SmallRange
    <3> QED BY <3>1, LastMessages DEF Lock, Sync
  <2>2. ~Requested("lock") /\ ~Requested("destroy") /\ LockComesFirst(requests) /\ ConnTypeOK
    BY <1>2 DEF LockInv, AskedOnce, LockRequests, TypeInv
  <2>3. /\ LockComesFirst(requests')
        /\ \A type : Requested(type)' =>
               Requested(type) \/ \E r \in Range(<<Lock, Sync>>) : r.type = type
    BY <1>1, <2>1, <2>2, SentOrNot
  <2> QED BY <1>2, <2>1, <2>3 DEF LockRequests
<1>4. NothingYet' /\ AskedOnce' /\ LiveLock'
  BY <1>1, <1>2, <1>3 DEF NothingYet, AskedOnce, LiveLock
<1>5. EventsTrue' /\ ClientKnows' /\ PasswordCounts'
  BY <1>1, <1>2 DEF LockInv, EventsTrue, ClientKnows, PasswordCounts, Queued
<1>6. LeftForReason' /\ UnlockPermitted'
  BY <1>1, <1>2, <1>3 DEF LeftForReason, UnlockPermitted
<1> QED BY <1>4, <1>5, <1>6 DEF LockInv

LEMMA LockUnlockSession ==
    ASSUME TypeInv, LockInv, UnlockSession, UNCHANGED compVars
    PROVE  LockInv'
<1>1. /\ pc = "running" /\ auth_result = 1 /\ session_locked /\ pc' = "unlocking"
      /\ lock_object' = "null" /\ session_locked' = FALSE /\ Send(<<UnlockAndDestroy, Sync>>)
      /\ UNCHANGED <<events, conn, g_should_exit, locked, closed, lock_surfaces,
                     counting_down, auth_result, lock_state, revoked>>
  BY DEF UnlockSession, PassOver, Authenticated, outputVars, authVars, compVars
<1>2. lock_object = "live" /\ lock_state = "locked"
      /\ ~Requested("unlock_and_destroy") /\ ~Requested("destroy")
  BY <1>1 DEF LockInv, ClientKnows, LiveLock
<1>3. /\ LockComesFirst(requests') /\ ~Requested("lock")' /\ ~Requested("destroy")'
  <2>1. /\ <<UnlockAndDestroy, Sync>> \in Seq(Request) /\ LockComesFirst(<<UnlockAndDestroy, Sync>>)
        /\ \A r \in Range(<<UnlockAndDestroy, Sync>>) : r.type \notin {"lock", "destroy"}
    <3>1. Range(<<UnlockAndDestroy, Sync>>) = {UnlockAndDestroy, Sync}
      BY SmallRange
    <3> QED BY <3>1, LastMessages DEF UnlockAndDestroy, Sync
  <2>2. LockComesFirst(requests) /\ ConnTypeOK /\ ~Requested("lock")
    BY <1>2 DEF LockInv, AskedOnce, TypeInv
  <2>3. /\ LockComesFirst(requests')
        /\ \A type : Requested(type)' =>
               Requested(type) \/ \E r \in Range(<<UnlockAndDestroy, Sync>>) : r.type = type
    BY <1>1, <2>1, <2>2, SentOrNot
  <2> QED BY <1>2, <2>1, <2>2, <2>3
<1>4. NothingYet' /\ AskedOnce' /\ LiveLock'
  BY <1>1, <1>3 DEF NothingYet, AskedOnce, LiveLock
<1>5. EventsTrue' /\ ClientKnows' /\ PasswordCounts' /\ LeftForReason'
  BY <1>1 DEF LockInv, EventsTrue, ClientKnows, PasswordCounts, LeftForReason, Queued
<1>6. UnlockPermitted'
  BY <1>1, <1>2, <1>3, PermitsGiven DEF UnlockPermitted
<1> QED BY <1>4, <1>5, <1>6 DEF LockInv

\* The reason for which main() left the loop permits the unlock.
LEMMA LockTeardown ==
    ASSUME TypeInv, LockInv, Teardown, UNCHANGED compVars
    PROVE  LockInv'
<1>1. /\ pc = "teardown" /\ pc' = "exited" /\ Send(Release) /\ events' = <<>>
      /\ UNCHANGED <<g_should_exit, lock_object, session_locked, locked, closed, lock_surfaces,
                     counting_down, auth_result, lock_state, revoked>>
  BY DEF Teardown, Disconnect, lockVars, outputVars, authVars, compVars
<1>2. /\ Release \in {<<>>, <<UnlockAndDestroy>>, <<Destroy>>}
      /\ Release = <<UnlockAndDestroy>> => lock_object = "live"
      /\ Release = <<Destroy>> => lock_object = "live" /\ ~session_locked
      /\ lock_object # "live" => Release = <<>>
  <2>1. lock_object \in {"null", "live"} /\ session_locked \in BOOLEAN
    BY DEF TypeInv, LockTypeOK
  <2>2. <<UnlockAndDestroy>> # <<>> /\ <<Destroy>> # <<>> /\ <<UnlockAndDestroy>> # <<Destroy>>
    BY DEF UnlockAndDestroy, Destroy
  <2> QED BY <2>1, <2>2 DEF Release
<1>3. /\ LockComesFirst(requests')
      /\ Requested("lock")' => Requested("lock")
      /\ Requested("unlock_and_destroy")' =>
             \/ Requested("unlock_and_destroy")
             \/ conn = "up" /\ Release = <<UnlockAndDestroy>>
      /\ Requested("destroy")' => Requested("destroy") \/ Release = <<Destroy>>
  <2>1. /\ Release \in Seq(Request) /\ LockComesFirst(Release)
        /\ \A r \in Range(Release) :
               /\ r.type # "lock"
               /\ r.type = "unlock_and_destroy" => Release = <<UnlockAndDestroy>>
               /\ r.type = "destroy" => Release = <<Destroy>>
    <3>1. <<Lock, Sync>> \notin {<<>>, <<UnlockAndDestroy>>, <<Destroy>>}
          /\ <<UnlockAndDestroy, Sync>> \notin {<<>>, <<UnlockAndDestroy>>, <<Destroy>>}
      OBVIOUS
    <3> QED BY <1>2, <3>1, LastMessages
  <2>2. LockComesFirst(requests) /\ ConnTypeOK
    BY DEF LockInv, AskedOnce, TypeInv
  <2>3. /\ LockComesFirst(requests')
        /\ \A type : Requested(type)' =>
               Requested(type) \/ (conn = "up" /\ \E r \in Range(Release) : r.type = type)
    BY <1>1, <2>1, <2>2, SentOrNot
  <2> QED BY <2>1, <2>3
<1>4. \A type : ~Queued(type)'
  BY <1>1, SmallRange DEF Queued
<1>5. NothingYet' /\ AskedOnce' /\ LiveLock' /\ EventsTrue'
  BY <1>1, <1>3, <1>4 DEF LockInv, NothingYet, AskedOnce, LiveLock, EventsTrue
<1>6. ClientKnows' /\ PasswordCounts' /\ LeftForReason'
  BY <1>1 DEF LockInv, ClientKnows, PasswordCounts, LeftForReason
<1>7. UnlockPermitted'
  <2>1. lock_object = "live" =>
            /\ lock_state # "unlocked"
            /\ ~Requested("unlock_and_destroy") /\ ~Requested("destroy")
    BY <1>1 DEF LockInv, LiveLock
  <2>2. conn = "up" /\ Release = <<UnlockAndDestroy>> => AbstractPermits # {}
    BY <1>1, <1>2, PermitsGiven DEF LockInv, LeftForReason, ClientKnows
  <2>3. AbstractPermits # {} <=> AbstractPermits' # {}
    BY <1>1, PermitsGiven
  <2>4. ~(Release = <<UnlockAndDestroy>> /\ Release = <<Destroy>>)
    BY DEF UnlockAndDestroy, Destroy
  <2> QED BY <1>1, <1>2, <1>3, <2>1, <2>2, <2>3, <2>4 DEF LockInv, UnlockPermitted
<1> QED BY <1>5, <1>6, <1>7 DEF LockInv

LEMMA LockRunMain ==
    ASSUME TypeInv, LockInv, RunMain \/ Signal, UNCHANGED compVars
    PROVE  LockInv'
<1>1. CASE GiveUp \/ LockRefused \/ LeaveLoop \/ DispatchFails \/ UnlockRoundtripReturns
  BY <1>1, LockLeave
<1>2. CASE RequestLock
  BY <1>2, LockRequestLock
<1>3. CASE EnterLoop
  <2>1. /\ pc = "locking" /\ pc' = "running" /\ ArmFrame
        /\ UNCHANGED <<events, conn, g_should_exit, lock_object, session_locked, locked, closed,
                       lock_surfaces, counting_down, auth_result, lock_state, revoked>>
    BY <1>3 DEF EnterLoop, lockVars, outputVars, authVars, compVars
  <2>2. NoLockRequest
    BY <2>1, ArmFrameNoLock DEF TypeInv
  <2>3. NothingYet' /\ AskedOnce' /\ LiveLock' /\ EventsTrue'
    BY <2>1, <2>2
       DEF LockInv, NothingYet, AskedOnce, LiveLock, EventsTrue, NoLockRequest, LockRequests,
           Queued
  <2>4. ClientKnows' /\ PasswordCounts' /\ LeftForReason'
    BY <2>1 DEF LockInv, ClientKnows, PasswordCounts, LeftForReason
  <2>5. UnlockPermitted'
    BY <2>1, <2>2, PermitsGiven DEF LockInv, UnlockPermitted, NoLockRequest, LockRequests
  <2> QED BY <2>3, <2>4, <2>5 DEF LockInv
<1>4. CASE UnlockSession
  BY <1>4, LockUnlockSession
<1>5. CASE KeepRunning
  <2>1. /\ pc = "running" /\ auth_result' = 0 /\ ~(auth_result = 1 /\ session_locked)
        /\ UNCHANGED <<requests, events, pc, conn, g_should_exit, lockVars, lock_surfaces,
                       counting_down, revoked>>
    BY <1>5
       DEF KeepRunning, PassOver, Authenticated, connVars, lockVars, outputVars, compVars
  <2>2. auth_result # 1
    BY <2>1 DEF LockInv, PasswordCounts
  <2>3. PasswordCounts' /\ (AbstractPermits # {} => AbstractPermits' # {})
    BY <2>1, <2>2, PermitsGiven DEF LockInv, PasswordCounts, lockVars
  <2> QED BY <2>1, <2>3, SameRequests, ClientQuiet
<1>6. CASE Teardown
  BY <1>6, LockTeardown
<1>7. CASE Signal
  <2>1. /\ g_should_exit' = TRUE
        /\ UNCHANGED <<requests, events, pc, conn, lockVars, lock_surfaces, counting_down,
                       auth_result, revoked>>
    BY <1>7 DEF Signal, connVars, lockVars, outputVars, authVars, compVars
  <2>2. PasswordCounts' /\ (AbstractPermits # {} => AbstractPermits' # {})
    BY <2>1, PermitsGiven DEF LockInv, PasswordCounts, lockVars
  <2> QED BY <2>1, <2>2, SameRequests, ClientQuiet
<1> QED
  BY <1>1, <1>2, <1>3, <1>4, <1>5, <1>6, <1>7 DEF RunMain

-----------------------------------------------------------------------------
(* The compositor *)

\* A step of the compositor that does not decide about the lock.
LEMMA CompQuiet ==
    ASSUME LockInv, UNCHANGED <<clientVars, lock_state, revoked>>, NoLockRequest,
           conn = "dead" => conn' = "dead",
           \A type \in {"locked", "finished"} : Queued(type)' => Queued(type),
           Queued("key")' => locked
    PROVE  LockInv'
<1>1. UNCHANGED <<pc, g_should_exit, lock_object, session_locked, locked, closed,
                  lock_surfaces, counting_down, auth_result>>
  BY DEF clientVars, mainVars, lockVars, outputVars, authVars
<1>2. NothingYet' /\ AskedOnce' /\ LiveLock'
  BY <1>1 DEF LockInv, NothingYet, AskedOnce, LiveLock, NoLockRequest, LockRequests
<1>3. EventsTrue' /\ ClientKnows' /\ PasswordCounts' /\ LeftForReason'
  BY <1>1 DEF LockInv, EventsTrue, ClientKnows, PasswordCounts, LeftForReason
<1>4. UnlockPermitted'
  BY <1>1, PermitsGiven DEF LockInv, UnlockPermitted, NoLockRequest, LockRequests
<1> QED BY <1>2, <1>3, <1>4 DEF LockInv

LEMMA ServeQueue ==
    ASSUME TypeInv, LockInv, NEW type, Serve(type)
    PROVE  /\ NoLockRequest /\ LockComesFirst(requests') /\ Requested(type)
           /\ type \in {"lock", "destroy"} => ~Requested("lock")'
<1>1. ConnTypeOK /\ LockComesFirst(requests)
  BY DEF TypeInv, LockInv, AskedOnce
<1>2. /\ requests \in Seq(Request) /\ requests # <<>> /\ requests' = Tail(requests)
      /\ Head(requests).type = type
  BY <1>1 DEF ConnTypeOK, Serve
<1>3. /\ Range(requests') \subseteq Range(requests) /\ Head(requests) \in Range(requests)
  BY <1>2, TailRange
<1>4. /\ LockComesFirst(requests')
      /\ type \in {"lock", "destroy"} => \A r \in Range(requests') : r.type # "lock"
  BY <1>1, <1>2, TailFirst
<1> QED BY <1>2, <1>3, <1>4 DEF NoLockRequest, Requested

LEMMA NoRequests ==
    ASSUME requests' = <<>>
    PROVE  NoLockRequest
<1>1. Range(requests') = {} /\ LockComesFirst(requests')
  BY SmallRange DEF LockComesFirst
<1> QED BY <1>1 DEF NoLockRequest, Requested

\* Events that say nothing about the lock.
LEMMA EmitQuiet ==
    ASSUME TypeInv, NEW msgs \in Seq(Event), Emit(msgs),
           \A e \in Range(msgs) : e.type \notin {"locked", "finished", "key"}
    PROVE  \A type \in {"locked", "finished", "key"} : Queued(type)' => Queued(type)
<1>1. Range(events') \subseteq Range(events) \cup Range(msgs)
  BY EmitFacts DEF TypeInv
<1> QED BY <1>1 DEF Queued

LEMMA EmitOneQueued ==
    ASSUME TypeInv, NEW e \in Event, Emit(<<e>>)
    PROVE  \A type : Queued(type)' => Queued(type) \/ e.type = type
<1>1. Range(events') \subseteq Range(events) \cup {e}
  BY EmitOne DEF TypeInv
<1> QED BY <1>1 DEF Queued

\* The globals, the end of a roundtrip, and configure.
LEMMA EmittedQuiet ==
    ASSUME TypeInv, Advertise \/ ServeSync \/ ServeGetLockSurface,
           ~\E type, error : Reject(type, error)
    PROVE  \A type \in {"locked", "finished", "key"} : Queued(type)' => Queued(type)
<1>1. CASE Advertise
  <2>1. PICK manager \in {<<>>, <<[type |-> "manager"]>>},
             order \in [1..Cardinality(present) -> present] : Emit(Globals(manager, order))
    BY <1>1 DEF Advertise, Globals
  <2>2. /\ Globals(manager, order) \in Seq(Event)
        /\ \A e \in Range(Globals(manager, order)) : e.type \in {"manager", "global"}
    BY GlobalsTyped DEF TypeInv
  <2> QED BY <2>1, <2>2, EmitQuiet
<1>2. CASE ServeSync
  <2>1. Emit(<<[type |-> "done"]>>)
    BY <1>2 DEF ServeSync
  <2> QED BY <2>1, EventsMade, EmitOneQueued
<1>3. CASE ServeGetLockSurface
  <2> DEFINE o == Head(requests).output
  <2>1. Serve("get_lock_surface")
        /\ (Emit(<<[type |-> "configure", output |-> o]>>) \/ Emit(<<>>))
    BY <1>3 DEF ServeGetLockSurface
  <2>2. o \in Output
    BY <2>1, ServeFacts, RequestFields DEF TypeInv
  <2> HIDE DEF o
  <2>3. CASE Emit(<<[type |-> "configure", output |-> o]>>)
    <3>1. [type |-> "configure", output |-> o] \in Event
      BY <2>2, EventsMade
    <3> QED BY <2>3, <3>1, EmitOneQueued
  <2>4. CASE Emit(<<>>)
    <3>1. <<>> \in Seq(Event) /\ Range(<<>>) = {}
      BY SmallRange
    <3> QED BY <2>4, <3>1, EmitQuiet
  <2> QED BY <2>1, <2>3, <2>4
<1> QED BY <1>1, <1>2, <1>3

LEMMA LockRejected ==
    ASSUME TypeInv, LockInv, NEW type, NEW error, Reject(type, error), UNCHANGED clientVars
    PROVE  LockInv'
<1>1. /\ requests' = <<>> /\ UNCHANGED <<events, lock_state, revoked>>
      /\ conn = "dead" => conn' = "dead"
  BY DEF Reject
<1>2. /\ \A t \in {"locked", "finished"} : Queued(t)' => Queued(t)
      /\ Queued("key")' => locked
  BY <1>1 DEF Queued, LockInv, EventsTrue
<1> QED BY <1>1, <1>2, NoRequests, CompQuiet

\* The compositor reads lock: the session was open.
LEMMA LockServed ==
    ASSUME TypeInv, LockInv, ServeLock, UNCHANGED clientVars
    PROVE  LockInv' /\ lock_state = "none"
<1>1. /\ Serve("lock") /\ lock_state' = "pending" /\ UNCHANGED <<events, revoked, conn>>
      /\ UNCHANGED <<pc, g_should_exit, lock_object, session_locked, locked, closed,
                     lock_surfaces, counting_down, auth_result>>
  BY DEF ServeLock, Serve, clientVars, mainVars, lockVars, outputVars, authVars
<1>2. /\ NoLockRequest /\ LockComesFirst(requests') /\ Requested("lock") /\ ~Requested("lock")'
  BY <1>1, ServeQueue
<1>3. lock_state = "none" /\ pc # "connecting"
  BY <1>2 DEF LockInv, AskedOnce, NothingYet
<1>4. NothingYet' /\ AskedOnce' /\ LiveLock'
  BY <1>1, <1>2, <1>3
     DEF LockInv, NothingYet, AskedOnce, LiveLock, NoLockRequest, LockRequests
<1>5. EventsTrue' /\ ClientKnows' /\ PasswordCounts' /\ LeftForReason'
  BY <1>1, <1>3 DEF LockInv, EventsTrue, ClientKnows, PasswordCounts, LeftForReason, Queued
<1>6. UnlockPermitted'
  BY <1>1, <1>2, PermitsGiven DEF LockInv, UnlockPermitted, NoLockRequest, LockRequests
<1> QED BY <1>3, <1>4, <1>5, <1>6 DEF LockInv

\* The compositor answers the request.
LEMMA LockAnswered ==
    ASSUME TypeInv, LockInv, GrantLock \/ DenyLock \/ RevokeLock, UNCHANGED clientVars
    PROVE  LockInv'
<1>1. /\ UNCHANGED <<requests, conn>>
      /\ UNCHANGED <<pc, g_should_exit, lock_object, session_locked, locked, closed,
                     lock_surfaces, counting_down, auth_result>>
  BY DEF GrantLock, DenyLock, RevokeLock, clientVars, mainVars, lockVars, outputVars, authVars
<1>2. /\ lock_state \in {"pending", "locked"} /\ lock_state' \in {"denied", "locked"}
      /\ lock_state = "locked" => lock_state' = "locked"
      /\ revoked => revoked'
  BY DEF GrantLock, DenyLock, RevokeLock
<1>3. /\ Queued("locked")' => lock_state' = "locked"
      /\ Queued("finished")' => revoked' \/ lock_state' = "denied"
      /\ Queued("key")' => locked
  <2>1. CASE GrantLock
    <3>1. Emit(<<[type |-> "locked"]>>) /\ lock_state = "pending" /\ lock_state' = "locked"
          /\ revoked' = revoked
      BY <2>1 DEF GrantLock
    <3>2. \A type : Queued(type)' => Queued(type) \/ "locked" = type
      BY <3>1, EventsMade, EmitOneQueued
    <3> QED BY <3>1, <3>2 DEF LockInv, EventsTrue
  <2>2. CASE DenyLock
    <3>1. Emit(<<[type |-> "finished"]>>) /\ lock_state = "pending" /\ lock_state' = "denied"
      BY <2>2 DEF DenyLock
    <3>2. \A type : Queued(type)' => Queued(type) \/ "finished" = type
      BY <3>1, EventsMade, EmitOneQueued
    <3> QED BY <3>1, <3>2 DEF LockInv, EventsTrue
  <2>3. CASE RevokeLock
    <3>1. Emit(<<[type |-> "finished"]>>) /\ lock_state = "locked" /\ lock_state' = "locked"
          /\ revoked' = TRUE
      BY <2>3 DEF RevokeLock
    <3>2. \A type : Queued(type)' => Queued(type) \/ "finished" = type
      BY <3>1, EventsMade, EmitOneQueued
    <3> QED BY <3>1, <3>2 DEF LockInv, EventsTrue
  <2> QED BY <2>1, <2>2, <2>3
<1>4. NothingYet' /\ AskedOnce' /\ LiveLock'
  BY <1>1, <1>2 DEF LockInv, NothingYet, AskedOnce, LiveLock, Requested
<1>5. EventsTrue' /\ ClientKnows' /\ PasswordCounts' /\ LeftForReason'
  BY <1>1, <1>2, <1>3 DEF LockInv, EventsTrue, ClientKnows, PasswordCounts, LeftForReason
<1>6. UnlockPermitted'
  BY <1>1, <1>2, PermitsGiven DEF LockInv, UnlockPermitted, Requested
<1> QED BY <1>4, <1>5, <1>6 DEF LockInv

\* The compositor opens the session, for a reason.
LEMMA UnlockServed ==
    ASSUME TypeInv, LockInv, Serve("unlock_and_destroy"), lock_state = "locked",
           lock_state' = "unlocked", UNCHANGED <<clientVars, events, revoked>>
    PROVE  LockInv' /\ AbstractPermits # {}
<1>1. /\ UNCHANGED conn
      /\ UNCHANGED <<pc, g_should_exit, lock_object, session_locked, locked, closed,
                     lock_surfaces, counting_down, auth_result>>
  BY DEF Serve, clientVars, mainVars, lockVars, outputVars, authVars
<1>2. NoLockRequest /\ LockComesFirst(requests') /\ Requested("unlock_and_destroy")
  BY ServeQueue
<1>3. /\ AbstractPermits # {} /\ ~Requested("lock") /\ ~Requested("destroy")
      /\ ~(pc # "exited" /\ lock_object = "live") /\ pc # "connecting"
  BY <1>2 DEF LockInv, UnlockPermitted, AskedOnce, LiveLock, NothingYet
<1>4. NothingYet' /\ AskedOnce' /\ LiveLock'
  BY <1>1, <1>2, <1>3 DEF NothingYet, AskedOnce, LiveLock, NoLockRequest, LockRequests
<1>5. EventsTrue' /\ ClientKnows' /\ PasswordCounts' /\ LeftForReason'
  BY <1>1, <1>3 DEF LockInv, EventsTrue, ClientKnows, PasswordCounts, LeftForReason, Queued
<1>6. UnlockPermitted'
  BY <1>1, <1>2, <1>3, PermitsGiven DEF UnlockPermitted, NoLockRequest, LockRequests
<1> QED BY <1>3, <1>4, <1>5, <1>6 DEF LockInv

\* The compositor reads destroy for a lock it has not granted.
LEMMA DestroyServed ==
    ASSUME TypeInv, LockInv, Serve("destroy"), lock_state # "locked",
           lock_state' = "destroyed", UNCHANGED <<clientVars, events, revoked>>
    PROVE  LockInv' /\ lock_state # "unlocked"
<1>1. /\ UNCHANGED conn
      /\ UNCHANGED <<pc, g_should_exit, lock_object, session_locked, locked, closed,
                     lock_surfaces, counting_down, auth_result>>
  BY DEF Serve, clientVars, mainVars, lockVars, outputVars, authVars
<1>2. /\ NoLockRequest /\ LockComesFirst(requests') /\ Requested("destroy")
      /\ ~Requested("lock")'
  BY ServeQueue
<1>3. /\ lock_state # "unlocked" /\ ~Requested("unlock_and_destroy")
      /\ ~(pc # "exited" /\ lock_object = "live") /\ pc # "connecting"
      /\ ~(session_locked /\ pc # "exited")
  BY <1>2 DEF LockInv, UnlockPermitted, LiveLock, NothingYet, ClientKnows
<1>4. NothingYet' /\ AskedOnce' /\ LiveLock'
  BY <1>1, <1>2, <1>3 DEF NothingYet, AskedOnce, LiveLock
<1>5. EventsTrue' /\ ClientKnows' /\ PasswordCounts' /\ LeftForReason'
  BY <1>1, <1>3 DEF LockInv, EventsTrue, ClientKnows, PasswordCounts, LeftForReason, Queued
<1>6. UnlockPermitted'
  BY <1>1, <1>2, <1>3 DEF UnlockPermitted, NoLockRequest, LockRequests
<1> QED BY <1>3, <1>4, <1>5, <1>6 DEF LockInv

LEMMA LockCompNext ==
    ASSUME TypeInv, LockInv, CompNext, UNCHANGED clientVars
    PROVE  LockInv'
<1>0. LockInv => (Queued("key") => locked)
  BY DEF LockInv, EventsTrue
<1>1. CASE Advertise \/ ServeSync \/ ServeGetLockSurface \/ ServeAck \/ ServeCommit
  <2>1. CASE \E type, error : Reject(type, error)
    BY <2>1, LockRejected
  <2>2. CASE ~\E type, error : Reject(type, error)
    <3>1. PICK type : Serve(type)
      BY <1>1, <2>2 DEF Advertise, ServeSync, ServeGetLockSurface, ServeAck, ServeCommit
    <3>2. UNCHANGED <<conn, lock_state, revoked>>
      BY <1>1, <2>2, <3>1
         DEF Advertise, ServeSync, ServeGetLockSurface, ServeAck, ServeCommit, Serve, compVars
    <3>3. \A t \in {"locked", "finished", "key"} : Queued(t)' => Queued(t)
      <4>1. CASE ServeAck \/ ServeCommit
        BY <2>2, <4>1 DEF ServeAck, ServeCommit, Queued
      <4>2. CASE Advertise \/ ServeSync \/ ServeGetLockSurface
        BY <2>2, <4>2, EmittedQuiet
      <4> QED BY <1>1, <4>1, <4>2
    <3> QED BY <1>0, <3>1, <3>2, <3>3, ServeQueue, CompQuiet
  <2> QED BY <2>1, <2>2
<1>2. CASE ServeLock
  BY <1>2, LockServed
<1>3. CASE ServeUnlock
  <2>1. CASE Reject("unlock_and_destroy", "invalid_unlock")
    BY <2>1, LockRejected
  <2> QED BY <1>3, <2>1, UnlockServed DEF ServeUnlock
<1>4. CASE ServeDestroy
  <2>1. CASE Reject("destroy", "invalid_destroy")
    BY <2>1, LockRejected
  <2> QED BY <1>4, <2>1, DestroyServed DEF ServeDestroy
<1>5. CASE GrantLock \/ DenyLock \/ RevokeLock
  BY <1>5, LockAnswered
<1>6. CASE Resize \/ DrawFrame \/ Plug \/ Unplug \/ SendOther
  <2>1. UNCHANGED <<requests, conn, lock_state, revoked>>
    BY <1>6 DEF Resize, DrawFrame, Plug, Unplug, SendOther, compVars
  <2>2. PICK e \in Event : Emit(<<e>>) /\ e.type \notin {"locked", "finished", "key"}
    <3>1. CASE Resize
      <4>1. PICK o \in mapped : Emit(<<[type |-> "configure", output |-> o]>>)
        BY <3>1 DEF Resize
      <4> QED BY <4>1, EventsMade DEF TypeInv, CompTypeOK
    <3>2. CASE DrawFrame
      <4>1. PICK dt \in FrameTime : Emit(<<[type |-> "frame", dt |-> dt]>>)
        BY <3>2 DEF DrawFrame
      <4> QED BY <4>1, EventsMade, EnvironmentAssumption
    <3>3. CASE Plug
      <4>1. PICK o \in Pluggable : Emit(<<[type |-> "global", output |-> o]>>)
        BY <3>3 DEF Plug
      <4> QED BY <4>1, EventsMade, EnvironmentAssumption
    <3>4. CASE Unplug \/ SendOther
      BY <3>4, EventsMade DEF Unplug, SendOther
    <3> QED BY <1>6, <3>1, <3>2, <3>3, <3>4
  <2>3. \A type \in {"locked", "finished", "key"} : Queued(type)' => Queued(type)
    BY <2>2, EmitOneQueued
  <2> QED BY <1>0, <2>1, <2>3, SameRequests, CompQuiet
<1>7. CASE PressKey
  <2>1. UNCHANGED <<requests, conn, lock_state, revoked>> /\ mapped # {}
    BY <1>7 DEF PressKey, compVars
  <2>2. PICK sym \in Keys : Emit(<<[type |-> "key", sym |-> sym]>>)
    BY <1>7 DEF PressKey
  <2>3. \A type : Queued(type)' => Queued(type) \/ type = "key"
    BY <2>2, EventsMade, EmitOneQueued, EnvironmentAssumption
  <2>4. locked
    BY <2>1 DEF TypeInv, OutputsKnown, LockInv, ClientKnows
  <2> QED BY <2>1, <2>3, <2>4, SameRequests, CompQuiet
<1>8. CASE Die \/ (Hangup /\ UNCHANGED compVars)
  <2>1. /\ requests' = <<>> /\ UNCHANGED <<events, lock_state, revoked>>
        /\ conn = "dead" => conn' = "dead"
    BY <1>8 DEF Die, Hangup, compVars
  <2>2. \A type : Queued(type)' => Queued(type)
    BY <2>1 DEF Queued
  <2> QED BY <1>0, <2>1, <2>2, NoRequests, CompQuiet
<1> QED
  BY <1>1, <1>2, <1>3, <1>4, <1>5, <1>6, <1>7, <1>8 DEF CompNext, ServeRequest

LEMMA LockNext == TypeInv /\ LockInv /\ [Next]_vars => LockInv'
<1> SUFFICES ASSUME TypeInv, LockInv, [Next]_vars
             PROVE  LockInv'
  OBVIOUS
<1>1. CASE ClientStep
  BY <1>1, LockHandleEvent, LockRunMain DEF ClientStep, ClientNext
<1>2. CASE CompStep
  BY <1>2, LockCompNext DEF CompStep
<1>3. CASE UNCHANGED vars
  <2>1. UNCHANGED <<requests, events, conn, clientVars, lock_state, revoked>>
    BY <1>3 DEF vars, connVars, compVars
  <2>2. \A type : Queued(type)' => Queued(type)
    BY <2>1 DEF Queued
  <2> QED BY <2>1, <2>2, SameRequests, CompQuiet DEF LockInv, EventsTrue
<1> QED BY <1>1, <1>2, <1>3 DEF Next

\* What the program knows of the lock, the compositor's state and all that is
\* on its way between them fit together in every reachable state.
THEOREM LockInvariant == Spec => []LockInv
BY LockInit, LockNext, TypeInvariant, PTL DEF Spec

-----------------------------------------------------------------------------
(* The refinement *)

\* A permit is given by a signal, by a correct password or by a revocation;
\* no other step of the program gives or takes one.
LEMMA ClientPermits ==
    ASSUME TypeInv, LockInv, ClientStep
    PROVE  [Abstract!Next]_<<AbstractSession, AbstractPermits>>
<1>1. UNCHANGED <<lock_state, revoked>>
  BY DEF ClientStep, compVars
<1>2. AbstractSession' = AbstractSession
  BY <1>1 DEF AbstractSession
<1>3. ASSUME g_should_exit' = g_should_exit,
             counting_down' \/ auth_result' = 1 <=> counting_down \/ auth_result = 1
      PROVE  AbstractPermits' = AbstractPermits
  BY <1>1, <1>3 DEF AbstractPermits
<1>4. CASE Signal
  <2>1. /\ ~g_should_exit /\ g_should_exit' = TRUE /\ UNCHANGED <<counting_down, auth_result>>
    BY <1>4 DEF Signal, authVars
  <2>2. "signal" \notin AbstractPermits /\ AbstractPermits' = AbstractPermits \cup {"signal"}
    BY <1>1, <2>1 DEF AbstractPermits
  <2> QED BY <1>2, <2>2 DEF Abstract!Next, Abstract!Grant, Abstract!Permit
<1>5. CASE HandleKey
  <2>1. /\ g_should_exit' = g_should_exit /\ session_locked' = session_locked /\ pc # "exited"
    BY <1>5, DispatchQueued DEF HandleKey
  <2>2. PICK sym : KeyUnlocked(sym) \/ KeySubmit(sym) \/ KeyEdit(sym)
    BY <1>5 DEF HandleKey
  <2>3. CASE UNCHANGED <<counting_down, auth_result>>
    BY <1>2, <1>3, <2>1, <2>3
  <2>4. CASE counting_down' = TRUE /\ auth_result' = auth_result /\ session_locked
    <3>1. AbstractSession = "locked"
      BY <2>1, <2>4 DEF LockInv, ClientKnows, AbstractSession
    <3>2. AbstractPermits' = AbstractPermits \cup {"password"}
      BY <1>1, <2>1, <2>4 DEF AbstractPermits
    <3> QED BY <1>2, <3>1, <3>2 DEF Abstract!Next, Abstract!Grant, Abstract!Permit
  <2> QED
    BY <2>2, <2>3, <2>4 DEF KeyUnlocked, KeySubmit, KeyEdit, StartCountdown, authVars
<1>6. CASE HandleFrame
  <2>1. Dispatch("frame") /\ CountDown(Head(events).dt)
    BY <1>6 DEF HandleFrame
  <2>2. g_should_exit' = g_should_exit
    BY <2>1, DispatchQueued
  <2>3. counting_down \/ auth_result = 1 <=> counting_down' \/ auth_result' = 1
    BY <2>1, CountDownPermits
  <2> QED BY <1>2, <1>3, <2>2, <2>3
<1>7. CASE KeepRunning
  <2>1. /\ pc = "running" /\ auth_result' = 0 /\ ~(auth_result = 1 /\ session_locked)
        /\ UNCHANGED <<g_should_exit, counting_down>>
    BY <1>7 DEF KeepRunning, PassOver, Authenticated
  <2>2. auth_result # 1
    BY <2>1 DEF LockInv, PasswordCounts
  <2> QED BY <1>2, <1>3, <2>1, <2>2
<1>8. CASE RunMain /\ ~KeepRunning
  <2>1. UNCHANGED <<g_should_exit, counting_down, auth_result>>
    BY <1>8
       DEF RunMain, GiveUp, RequestLock, LockRefused, EnterLoop, LeaveLoop, UnlockSession,
           DispatchFails, UnlockRoundtripReturns, Teardown, authVars
  <2> QED BY <1>2, <1>3, <2>1
<1>9. CASE HandleEvent /\ ~HandleKey /\ ~HandleFrame
  <2>1. UNCHANGED <<counting_down, auth_result>>
    BY <1>9
       DEF HandleEvent, Synced, HandleOther, HandleManager, HandleGlobal, HandleLocked,
           HandleFinished, DropStaleEvent, HandleConfigure, authVars
  <2>2. \E type : Dispatch(type)
    BY <1>9
       DEF HandleEvent, Synced, HandleOther, HandleManager, HandleGlobal, HandleLocked,
           HandleFinished, DropStaleEvent, HandleConfigure
  <2>3. g_should_exit' = g_should_exit
    BY <2>2, DispatchQueued
  <2> QED BY <1>2, <1>3, <2>1, <2>3
<1> QED
  BY <1>4, <1>5, <1>6, <1>7, <1>8, <1>9 DEF ClientStep, ClientNext

\* The session is locked once, and released only with a permit.
LEMMA CompSession ==
    ASSUME TypeInv, LockInv, CompStep
    PROVE  [Abstract!Next]_<<AbstractSession, AbstractPermits>>
<1>0. UNCHANGED clientVars /\ CompNext
  BY DEF CompStep
<1>1. UNCHANGED <<g_should_exit, counting_down, auth_result>>
  BY <1>0 DEF clientVars, mainVars, authVars
<1>2. ASSUME revoked' = revoked
      PROVE  AbstractPermits' = AbstractPermits
  BY <1>1, <1>2 DEF AbstractPermits
<1>3. CASE UNCHANGED <<lock_state, revoked>>
  BY <1>2, <1>3 DEF AbstractSession
<1>4. CASE ServeLock
  <2>1. lock_state = "none" /\ lock_state' = "pending" /\ revoked' = revoked
    BY <1>0, <1>4, LockServed DEF ServeLock
  <2> QED BY <1>2, <2>1 DEF AbstractSession
<1>5. CASE GrantLock
  <2>1. lock_state = "pending" /\ lock_state' = "locked" /\ revoked' = revoked
    BY <1>5 DEF GrantLock
  <2>2. AbstractSession = "open" /\ AbstractSession' = "locked"
    BY <2>1 DEF AbstractSession
  <2> QED BY <1>2, <2>1, <2>2 DEF Abstract!Next, Abstract!LockSession
<1>6. CASE DenyLock
  <2>1. lock_state = "pending" /\ lock_state' = "denied" /\ revoked' = revoked
    BY <1>6 DEF DenyLock
  <2> QED BY <1>2, <2>1 DEF AbstractSession
<1>7. CASE RevokeLock
  <2>1. lock_state = "locked" /\ ~revoked /\ revoked' = TRUE /\ lock_state' = lock_state
    BY <1>7 DEF RevokeLock
  <2>2. AbstractSession = "locked" /\ AbstractSession' = AbstractSession
    BY <2>1 DEF AbstractSession
  <2>3. "compositor" \notin AbstractPermits /\ AbstractPermits' = AbstractPermits \cup {"compositor"}
    BY <1>1, <2>1 DEF AbstractPermits
  <2> QED BY <2>2, <2>3 DEF Abstract!Next, Abstract!Grant, Abstract!Permit
<1>8. CASE /\ Serve("unlock_and_destroy") /\ lock_state = "locked" /\ lock_state' = "unlocked"
           /\ UNCHANGED <<events, revoked>>
  <2>1. AbstractPermits # {}
    BY <1>0, <1>8, UnlockServed
  <2>2. AbstractSession = "locked" /\ AbstractSession' = "released"
    BY <1>8 DEF AbstractSession
  <2> QED BY <1>2, <1>8, <2>1, <2>2 DEF Abstract!Next, Abstract!ReleaseSession
<1>9. CASE /\ Serve("destroy") /\ lock_state # "locked" /\ lock_state' = "destroyed"
           /\ UNCHANGED <<events, revoked>>
  <2>1. lock_state # "unlocked"
    BY <1>0, <1>9, DestroyServed
  <2> QED BY <1>2, <1>9, <2>1 DEF AbstractSession
<1> QED
  <2>1. CASE ServeUnlock
    BY <1>3, <1>8, <2>1 DEF ServeUnlock, Reject
  <2>2. CASE ServeDestroy
    BY <1>3, <1>9, <2>2 DEF ServeDestroy, Reject
  <2>3. CASE Advertise \/ ServeSync \/ ServeGetLockSurface \/ ServeAck \/ ServeCommit
    BY <1>3, <2>3
       DEF Advertise, ServeSync, ServeGetLockSurface, ServeAck, ServeCommit, Reject, compVars
  <2>4. CASE Resize \/ DrawFrame \/ PressKey \/ Plug \/ Unplug \/ SendOther \/ Die
               \/ (Hangup /\ UNCHANGED compVars)
    BY <1>3, <2>4 DEF Resize, DrawFrame, PressKey, Plug, Unplug, SendOther, Die, compVars
  <2> QED
    BY <1>0, <1>4, <1>5, <1>6, <1>7, <2>1, <2>2, <2>3, <2>4 DEF CompNext, ServeRequest

\* Whatever is lost, delayed or revoked, for any monitors, timing and buffer:
\* the session is locked at most once, and opened only after a correct
\* password given under the lock, a revocation or a signal.
THEOREM ImplementsSessionLock == Spec => SessionLockSpec
<1>1. Init => Abstract!Init
  BY DEF Init, ClientInit, CompInit, Abstract!Init, AbstractSession, AbstractPermits
<1>2. TypeInv /\ LockInv /\ [Next]_vars => [Abstract!Next]_<<AbstractSession, AbstractPermits>>
  <2>1. CASE UNCHANGED vars
    BY <2>1
       DEF vars, compVars, clientVars, mainVars, authVars, AbstractSession, AbstractPermits
  <2> QED BY <2>1, ClientPermits, CompSession DEF Next
<1> QED
  BY <1>1, <1>2, TypeInvariant, LockInvariant, PTL DEF Spec, SessionLockSpec, Abstract!Spec

-----------------------------------------------------------------------------
(* Corollaries, and the green flash *)

\* An unlocked session has been unlocked for a reason.
THEOREM UnlockHasCause == Spec => []UnlockNeedsCause
<1>1. LockInv => UnlockNeedsCause
  BY DEF LockInv, UnlockPermitted, UnlockNeedsCause
<1> QED BY <1>1, LockInvariant, PTL

LEMMA GreenFlashNext == TypeInv /\ GreenFlashCountsDown /\ [Next]_vars => GreenFlashCountsDown'
<1> SUFFICES ASSUME TypeInv, GreenFlashCountsDown, [Next]_vars
             PROVE  GreenFlashCountsDown'
  OBVIOUS
<1>0. /\ countdown_timer \in 0..Countdown /\ flash_timer \in 0..Flash
      /\ counting_down \in BOOLEAN
  BY DEF TypeInv, AuthTypeOK
<1>1. CASE HandleFrame
  <2> DEFINE dt == Head(events).dt
  <2>1. /\ Dispatch("frame") /\ CountDown(dt) /\ flash_timer' = Decay(flash_timer, dt)
        /\ flash' = flash
    BY <1>1 DEF HandleFrame
  <2>2. dt \in 1..MaxDt
    BY <2>1, DispatchFacts, EventFields DEF TypeInv
  <2> HIDE DEF dt
  <2> SUFFICES ASSUME flash' = "green", flash_timer' > 0
               PROVE  counting_down' /\ countdown_timer' - flash_timer' = Countdown - Flash
    BY DEF GreenFlashCountsDown
  <2>3. flash = "green" /\ flash_timer > dt /\ flash_timer' = flash_timer - dt
    BY <1>0, <2>1, <2>2, TimeAssumption DEF Decay
  <2>4. counting_down /\ countdown_timer - flash_timer = Countdown - Flash
    BY <1>0, <2>2, <2>3, TimeAssumption DEF GreenFlashCountsDown
  <2>5. countdown_timer > dt
    BY <1>0, <2>2, <2>3, <2>4, TimeAssumption
  <2>6. counting_down' /\ countdown_timer' = countdown_timer - dt
    BY <2>1, <2>4, <2>5 DEF CountDown, Decay
  <2> QED BY <1>0, <2>2, <2>3, <2>4, <2>6, TimeAssumption
<1>2. CASE HandleKey
  <2>1. PICK sym : KeyUnlocked(sym) \/ KeySubmit(sym) \/ KeyEdit(sym)
    BY <1>2 DEF HandleKey
  <2>2. CASE KeySubmit(sym)
    BY <2>2 DEF KeySubmit, StartCountdown, StartFlash, GreenFlashCountsDown
  <2>3. CASE KeyUnlocked(sym) \/ KeyEdit(sym)
    BY <2>3 DEF KeyUnlocked, KeyEdit, authVars, GreenFlashCountsDown
  <2> QED BY <2>1, <2>2, <2>3
<1>3. CASE ~HandleFrame /\ ~HandleKey
  <2>1. UNCHANGED <<counting_down, countdown_timer, flash, flash_timer>>
    <3>1. CASE HandleEvent
      BY <1>3, <3>1
         DEF HandleEvent, Synced, HandleOther, HandleManager, HandleGlobal, HandleLocked,
             HandleFinished, DropStaleEvent, HandleConfigure, authVars
    <3>2. CASE RunMain \/ Signal
      BY <3>2
         DEF RunMain, Signal, GiveUp, RequestLock, LockRefused, EnterLoop, LeaveLoop,
             UnlockSession, KeepRunning, DispatchFails, UnlockRoundtripReturns, Teardown,
             authVars
    <3>3. CASE CompStep \/ UNCHANGED vars
      BY <3>3 DEF CompStep, vars, clientVars, authVars
    <3> QED BY <3>1, <3>2, <3>3 DEF Next, ClientStep, ClientNext
  <2> QED BY <2>1 DEF GreenFlashCountsDown
<1> QED BY <1>1, <1>2, <1>3

\* As long as the green flash shows, the countdown runs in step with it.
THEOREM GreenFlashCorrect == Spec => []GreenFlashCountsDown
<1>1. Init => GreenFlashCountsDown
  BY DEF Init, ClientInit, GreenFlashCountsDown
<1> QED BY <1>1, GreenFlashNext, TypeInvariant, PTL DEF Spec
=============================================================================
