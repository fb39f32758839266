----------------------------- MODULE OrbitCamera ----------------------------
(***************************************************************************)
(* What the pointer does to the view: dragging it turns the view by as     *)
(* much as the pointer has moved, up to the limits, and any key takes the  *)
(* view back.  After that the next position is where dragging starts from, *)
(* and so it is at first.                                                  *)
(*                                                                         *)
(* A position is one whatever surface it is on: a pointer that leaves and  *)
(* comes back elsewhere, or on another monitor, turns the view by the      *)
(* difference.                                                             *)
(***************************************************************************)
EXTENDS Integers

CONSTANTS
    Position,               \* coordinates, in steps of the view
    YawDefault,             \* 0.4636, atan2(2, 4)
    YawRange, PitchRange,   \* 0.4 and 0.45: how far the view turns
    Stationary              \* --stationary: the pointer turns nothing

VARIABLES
    yaw, pitch,     \* where the view turns to
    anchor          \* the last position, or <<>>

view == <<yaw, pitch, anchor>>

Home == yaw = YawDefault /\ pitch = 0 /\ anchor = <<>>

Clamp(angle, low, high) ==
    IF angle < low THEN low ELSE IF angle > high THEN high ELSE angle

ClampYaw(angle) == Clamp(angle, YawDefault - YawRange, YawDefault + YawRange)

ClampPitch(angle) == Clamp(angle, -PitchRange, PitchRange)

Drag(x, y) ==
    /\ anchor' = <<x, y>>
    /\ IF anchor = <<>> \/ Stationary THEN UNCHANGED <<yaw, pitch>>
       ELSE /\ yaw' = ClampYaw(yaw + (x - anchor[1]))
            /\ pitch' = ClampPitch(pitch - (y - anchor[2]))

GoHome == Home'

OrbitNext == GoHome \/ \E x, y \in Position : Drag(x, y)

OrbitSpec == Home /\ [][OrbitNext]_view
=============================================================================
