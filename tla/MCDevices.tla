----------------------------- MODULE MCDevices -----------------------------
(***************************************************************************)
(* What the compositor's devices make of the program's state, for TLC:     *)
(* the frames' time, the outputs, the seats and the pointer.  These parts  *)
(* share no state, so every behaviour is one of theirs, chosen at the      *)
(* start, while the other parts rest.                                      *)
(***************************************************************************)
EXTENDS FrameClock, LockOutputs, Seat, PointerCamera

VARIABLE part

deviceVars == <<part, clockVars, lockOutVars, allSeatVars, pointerVars>>

DevicesInit ==
    /\ part \in {"clock", "outputs", "seats", "pointer"}
    /\ part # "clock" => now = 0
    /\ part # "seats" => offered = [s \in Seats |-> {}]
    /\ ClockInit /\ LockOutInit /\ SeatInit /\ PointerInit

DevicesNext ==
    /\ \/ part = "clock" /\ ClockNext /\ UNCHANGED <<lockOutVars, allSeatVars, pointerVars>>
       \/ part = "outputs" /\ LockOutNext /\ UNCHANGED <<clockVars, allSeatVars, pointerVars>>
       \/ part = "seats" /\ SeatNext /\ UNCHANGED <<clockVars, lockOutVars, pointerVars>>
       \/ part = "pointer" /\ PointerNext /\ UNCHANGED <<clockVars, lockOutVars, allSeatVars>>
    /\ UNCHANGED part

DevicesSpec == DevicesInit /\ [][DevicesNext]_deviceVars
=============================================================================
