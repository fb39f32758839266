---------------------------- MODULE SessionLock -----------------------------
(***************************************************************************)
(* What a session locker promises, seen from outside: a session is locked  *)
(* at most once, and it is opened again only after something that permits  *)
(* it.  A permit is a correct password given while the session was locked, *)
(* the compositor's own decision to end the lock, or a signal from the     *)
(* user's side.  A permit is never taken back.                             *)
(***************************************************************************)
VARIABLES
    session,    \* "open", "locked" or "released"
    permits     \* the permits given so far

Permit == {"password", "compositor", "signal"}

Init ==
    /\ session = "open"
    /\ permits = {}

LockSession ==
    /\ session = "open"
    /\ session' = "locked"
    /\ UNCHANGED permits

Grant(p) ==
    /\ p \notin permits
    /\ p # "signal" => session = "locked"
    /\ permits' = permits \cup {p}
    /\ UNCHANGED session

ReleaseSession ==
    /\ session = "locked"
    /\ permits # {}
    /\ session' = "released"
    /\ UNCHANGED permits

Next ==
    \/ LockSession
    \/ \E p \in Permit : Grant(p)
    \/ ReleaseSession

Spec == Init /\ [][Next]_<<session, permits>>
=============================================================================
