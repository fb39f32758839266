---------------------------- MODULE PointerCamera ---------------------------
(***************************************************************************)
(* The pointer and the camera that it turns: the handlers of               *)
(* include/wayland/pointer.h, which collect events until the frame event   *)
(* that ends a group, the reset in wl_keyboard_key, and the smoothing in   *)
(* wl_surface_frame_done.  Other events may come between those of a group. *)
(*                                                                         *)
(* Angles and positions are integers, one position being one step of the   *)
(* view (0.003 in the code); buttons and scrolling, which are only logged, *)
(* are the mark "logged".                                                  *)
(***************************************************************************)
EXTENDS Integers

CONSTANTS
    Position,               \* surface coordinates
    YawDefault,             \* 0.4636, atan2(2, 4)
    YawRange, PitchRange,   \* CAM_MAX_YAW_OFFSET, CAM_MAX_PITCH
    Stationary              \* MODE_STATIONARY

ASSUME CameraAssumption ==
    /\ Position \subseteq Int
    /\ YawDefault \in Int /\ YawRange \in Nat /\ PitchRange \in Nat
    /\ Stationary \in BOOLEAN

VARIABLES
    event,              \* client_state.pointer_event
    last_pointer_x, last_pointer_y, pointer_valid,
    cam_yaw_target, cam_pitch_target,
    cam_yaw, cam_pitch,
    inside              \* the compositor: the pointer is over a surface

anchorVars == <<last_pointer_x, last_pointer_y, pointer_valid>>
targetVars == <<cam_yaw_target, cam_pitch_target>>
cameraVars == <<cam_yaw, cam_pitch>>
pointerVars == <<event, anchorVars, targetVars, cameraVars, inside>>

NoEvent == [mask |-> {}, x |-> 0, y |-> 0]

PointerInit ==
    /\ event = NoEvent
    /\ last_pointer_x = 0 /\ last_pointer_y = 0 /\ pointer_valid = FALSE
    /\ cam_yaw_target = YawDefault /\ cam_pitch_target = 0
    /\ cam_yaw = YawDefault /\ cam_pitch = 0
    /\ inside = FALSE

-----------------------------------------------------------------------------
(* The handlers that collect *)

Mark(kind) == event' = [event EXCEPT !.mask = @ \cup {kind}]

MarkAt(kind, px, py) ==
    event' = [mask |-> event.mask \cup {kind}, x |-> px, y |-> py]

Enter(x, y) ==
    /\ ~inside /\ inside' = TRUE
    /\ MarkAt("enter", x, y)
    /\ UNCHANGED <<anchorVars, targetVars, cameraVars>>

Leave ==
    /\ inside /\ inside' = FALSE
    /\ Mark("leave")
    /\ UNCHANGED <<anchorVars, targetVars, cameraVars>>

Motion(x, y) ==
    /\ inside
    /\ MarkAt("motion", x, y)
    /\ UNCHANGED <<anchorVars, targetVars, cameraVars, inside>>

\* Buttons, scrolling.
Logged ==
    /\ inside
    /\ Mark("logged")
    /\ UNCHANGED <<anchorVars, targetVars, cameraVars, inside>>

-----------------------------------------------------------------------------
\* Mutant: only the upper limit is looked at.
ClampAbove(angle, low, high) == IF angle > high THEN high ELSE angle

Clamp(angle, low, high) ==
    IF angle < low THEN low ELSE IF angle > high THEN high ELSE angle

Turn(x, y) ==
    IF pointer_valid /\ ~Stationary
    THEN /\ cam_yaw_target' = Clamp(cam_yaw_target + (x - last_pointer_x),
                                    YawDefault - YawRange, YawDefault + YawRange)
         /\ cam_pitch_target' = Clamp(cam_pitch_target - (y - last_pointer_y),
                                      -PitchRange, PitchRange)
    ELSE UNCHANGED targetVars

\* Mutant: the position of the first motion stays the anchor.
FrameAnchoredOnce ==
    /\ event.mask # {}
    /\ IF "motion" \in event.mask
       THEN /\ Turn(event.x, event.y)
            /\ last_pointer_x' = IF pointer_valid THEN last_pointer_x ELSE event.x
            /\ last_pointer_y' = IF pointer_valid THEN last_pointer_y ELSE event.y
            /\ pointer_valid' = TRUE
       ELSE UNCHANGED <<anchorVars, targetVars>>
    /\ event' = NoEvent
    /\ UNCHANGED <<cameraVars, inside>>

\* wl_pointer_frame: the group is complete.
Frame ==
    /\ event.mask # {}
    /\ IF "motion" \in event.mask
       THEN /\ Turn(event.x, event.y)
            /\ last_pointer_x' = event.x /\ last_pointer_y' = event.y
            /\ pointer_valid' = TRUE
       ELSE UNCHANGED <<anchorVars, targetVars>>
    /\ event' = NoEvent
    /\ UNCHANGED <<cameraVars, inside>>

\* Mutant: the pitch stays.
PressTakesYawBack ==
    /\ cam_yaw_target' = YawDefault
    /\ pointer_valid' = FALSE
    /\ UNCHANGED <<event, last_pointer_x, last_pointer_y, cam_pitch_target, cameraVars,
                   inside>>

\* wl_keyboard_key, on any press, also in the middle of a group.
PressAnyKey ==
    /\ cam_yaw_target' = YawDefault /\ cam_pitch_target' = 0
    /\ pointer_valid' = FALSE
    /\ UNCHANGED <<event, last_pointer_x, last_pointer_y, cameraVars, inside>>

\* lerp = 1 - exp(-8 dt) is at least 0 and at most 1: the camera gets some
\* of the way to its target, or all of it.
Towards(from, to) ==
    {a \in from..to : from <= to} \cup {a \in to..from : to <= from}

\* wl_surface_frame_done
Smooth ==
    /\ cam_yaw' \in Towards(cam_yaw, cam_yaw_target)
    /\ cam_pitch' \in Towards(cam_pitch, cam_pitch_target)
    /\ UNCHANGED <<event, anchorVars, targetVars, inside>>

PointerNext ==
    \/ \E x, y \in Position : Enter(x, y) \/ Motion(x, y)
    \/ Leave
    \/ Logged
    \/ Frame
    \/ PressAnyKey
    \/ Smooth

PointerSpec == PointerInit /\ [][PointerNext]_pointerVars

-----------------------------------------------------------------------------
Coordinate == Position \cup {0}

Kind == {"enter", "leave", "motion", "logged"}

PointerTypeOK ==
    /\ event \in [mask : SUBSET Kind, x : Coordinate, y : Coordinate]
    /\ last_pointer_x \in Coordinate /\ last_pointer_y \in Coordinate
    /\ pointer_valid \in BOOLEAN /\ inside \in BOOLEAN
    /\ cam_yaw_target \in Int /\ cam_pitch_target \in Int
    /\ cam_yaw \in Int /\ cam_pitch \in Int

\* What is drawn never turns further than the limits, whatever the pointer,
\* the keys and the length of the frames do (pointer.h 122-127,
\* wl_callback_listener.h 49-52).
ViewWithinLimits ==
    /\ cam_yaw \in (YawDefault - YawRange)..(YawDefault + YawRange)
    /\ cam_pitch \in (-PitchRange)..PitchRange

\* Without an anchor the view is at home, or going there: a key that comes
\* between a motion and the frame of its group is not undone by the frame
\* (keyboard.h 53-58, pointer.h 113-131).
UnanchoredAtHome ==
    ~pointer_valid \/ Stationary => cam_yaw_target = YawDefault /\ cam_pitch_target = 0

\* The handlers implement the view that is dragged: a group is one drag to
\* its last position, or nothing.
Orbit == INSTANCE OrbitCamera WITH
             yaw <- cam_yaw_target, pitch <- cam_pitch_target,
             anchor <- IF pointer_valid THEN <<last_pointer_x, last_pointer_y>> ELSE <<>>
OrbitCameraSpec == Orbit!OrbitSpec
=============================================================================
