# A verification of eva-lock

eva-lock is a clock for Wayland that can also lock the session (`--lock`).
These modules model the program: its main loop and event handlers with the
compositor at the other end of the connection, the password prompt, the clock
by which it unlocks, the outputs it draws on, its start, its devices, the
window it has without `--lock`, and the algorithms that text goes through on
the way to the screen. TLC checks the modules on small instances, and TLAPS
proves the most important results for every instance.

Paths are relative to the repository, with `W/` for `src/include/wayland/`.
Line numbers are those of the files as they are here.

- [The system](#the-system)
- [What can go wrong](#what-can-go-wrong)
- [The modules](#the-modules)
- [The runs](#the-runs)
- [Bounds](#bounds)
- [Fairness](#fairness)
- [Where the code and its texts disagree](#where-the-code-and-its-texts-disagree)
- [The proofs](#the-proofs)
- [What is not modelled](#what-is-not-modelled)
- [Plan](#plan)

## The system

One process, one thread. `main()` connects to the compositor, binds the
globals, asks for the lock, waits one roundtrip, and then dispatches events
until it is told to stop. Everything else is a callback that libwayland runs
from inside a roundtrip or a dispatch; a callback runs to its end before the
next one starts. The only thing that interrupts this is the signal handler,
which sets one flag. What makes the program concurrent is its peer: the
compositor answers when it likes, and between a request and the answer any
number of other events may arrive.

| Component | Where | State | Operations | What makes it correct |
|---|---|---|---|---|
| main program, lock mode | `src/src/main.c` 54-219 | where it is in `main()`, `g_should_exit`, exit code | connect, request the lock, roundtrip, loop, unlock, teardown; `handle_signal` | unlocks only with a reason; never a request the protocol forbids; ends when it should |
| session lock handlers | `W/lock_manager.h` | `ext_session_lock_v1`, `session_locked`, `locked`, `closed`, one lock surface and a `configured` flag per output | `handle_locked`, `handle_finished`, `lock_surface_configure` | every monitor shows a lock surface; the lock object is destroyed once, with the right request |
| frame loop | `W/wl_callback_listener.h` | the outstanding frame callback, `last_frame`, flash and countdown timers | `wl_surface_frame_done` | the callback is never lost; the countdown reaches zero |
| password prompt | `W/keyboard.h`, `src/include/client_state.h` 67-71 | `password[256]`, `password_len`, `indicator_visible` | `wl_keyboard_key`: Return, BackSpace, Escape, text | what is typed is what is submitted; nothing stays in memory |
| authentication | `src/src/pam_auth.c` | none | `eva_authenticate` blocks, answers yes or no | the answer decides, nothing else |
| registry | `W/registry_handler.h` | `lock_outputs`, the globals | `registry_handle_global`, `..._remove` (empty) | at most `MAX_OUTPUTS` outputs; none forgotten |
| connection | libwayland, the socket | two queues | roundtrip, dispatch, disconnect | external |
| compositor | the session-lock protocol, `src/include/ext-session-lock-v1-protocol.h` | the lock, lock surfaces, monitors | grant, deny, revoke, configure, frame, hotplug | external |
| seat | `W/wl_seat.h` | `wl_seat`, `wl_pointer`, `wl_keyboard` | `wl_seat_capabilities` | devices follow the capabilities; none is leaked, released twice or asked for in vain |
| pointer and camera | `W/pointer.h`, `src/src/camera.c` | the group of events under way, the anchor of the drag, the camera and its target | enter, leave, motion, button, axis, frame; reset by any key; smoothing | a group is applied once and whole; the camera stays in its limits; a key takes it home |
| clock window | `W/xdg_surface.h`, `W/xdg_toplevel.h`, `W/wm_base.h`, `W/wl_buffer.h` | size, EGL window, `closed` | configure, resize, close, ping, frame | no picture before the first ack; it comes to fit; it answers pings and can be closed |
| glyph table | `src/src/map.c` | `count`, `capacity`, `entries` | `table_set`, `table_get` | a map; every probe ends |
| text | `src/src/text.c` | font atlas | UTF-8 decoding, drawing | decoding is exact |
| clock face | `src/src/eva.c` | none | digits, gradients | the digits are those of the timer |
| rendering | `src/src/graphics.c`, `entity.c`, `shader.c` | EGL surfaces, framebuffers and their size | `render`, `recreate_framebuffers`, swap | every picture fits its output; EGL surfaces are neither leaked nor used after their end |
| paths | `src/src/files.c` | none | build paths | paths fit their buffers |

Shaders, logging, the generated protocol code, the vendored libraries and the
scripts complete the list in `PROJECT.json`.

The components interact in three ways: callbacks write fields of the one
`client_state`, which the loop reads after a dispatch (`closed`,
`auth_result`, `session_locked`); requests are queued for the compositor in
the order they are made; and a commit both shows a surface and carries the
frame callback that was asked for on it.

## What can go wrong

`PROJECT.json` lists the hazards line by line. They come from nine facts.

1. A roundtrip waits for a sync, not for an answer to the lock. `locked`,
   `finished` and `configure` may come before, in or after it.
2. The loop looks at its flags only after a dispatch, which may have handled
   several events: the end of the countdown, a revocation and a signal may
   meet in one pass.
3. The countdown runs on frame callbacks of one surface. Whatever stops that
   surface from being drawn stops the unlock.
4. Disconnecting neither flushes the last requests nor waits for them.
5. Monitors come and go, and the program ignores that they go.
6. Time comes as differences of a 32-bit clock that wraps around, over gaps of
   any length, and 0 stands for no frame at all.
7. All outputs share one GL context, one set of framebuffers and one
   `state.egl_surface`, and are resized one by one.
8. `eglSwapBuffers` waits for the compositor, for each output in turn, inside
   a handler.
9. Devices, seats and globals appear, disappear and come in other versions
   than the program binds.

## The modules

| Module | What it is |
|---|---|
| `LineEditor` | abstract: a line that grows and shrinks at its end and is submitted whole |
| `PasswordEntry` | the password array and the keys that edit it, implements `LineEditor` |
| `WlConnection` | external: two FIFO queues, disconnection, hangup |
| `LockClient` | `main()` and the handlers |
| `Compositor` | external: what the protocol lets a compositor do |
| `SessionLock` | abstract: locked at most once, opened only with a permit |
| `EvaLock` | `LockClient` and `Compositor` composed; all properties of the lock; implements `SessionLock` |
| `FrameClock` | the clock of the frame events and the timers it drives |
| `FrameLoop` | the frame loop on several monitors, where every swap waits |
| `LockOutputs` | sizes, EGL surfaces and framebuffers of the outputs |
| `Startup` | from `main()` to the loop, with every failure on the way |
| `Seat` | seats and their devices |
| `OrbitCamera` | abstract: a view that is dragged within limits and taken back |
| `PointerCamera` | the pointer handlers and the camera, implements `OrbitCamera` |
| `ClockWindow` | the program without `--lock`, with the compositor |
| `GlyphMap` | abstract: a map from characters to glyphs |
| `GlyphTable`, `Fnv1a` | the hash table, implements `GlyphMap`, and `hash_int` |
| `Utf8` | the UTF-8 decoder, against the definition of UTF-8 |
| `FileExtension` | the scan by which a shader's kind is told |
| `ClockFace` | the digits |
| `MCEvaLock`, `MCStartup` | bounds and symmetry for TLC |
| `MCDevices`, `MCText` | parts that share no state side by side, for TLC: `FrameClock`, `LockOutputs`, `Seat` and `PointerCamera` in the first; `GlyphTable`, `Fnv1a`, `Utf8`, `FileExtension` and `ClockFace` in the second |
| `PasswordEntryProofs` | proofs about `PasswordEntry` |
| `EvaLockProofs`, `EvaLockOrder` | proofs about `EvaLock`: types and refinement; what rests on the order of the queues |
| `FrameProofs` | proofs about `FrameClock` and `LockOutputs` |
| `StartupProofs`, `SeatProofs` | proofs about `Startup` and `Seat` |
| `WindowProofs` | proofs about `ClockWindow` and `PointerCamera` |
| `TextProofs` | proofs about `Utf8`, `FileExtension`, `ClockFace` and `GlyphTable` |

### PasswordEntry

`password` is a function on `0..Capacity-1`; `Capacity` is 256 in the code.
`ClearPassword` is Return and KP_Enter, `EraseByte` is BackSpace, `InsertByte`
is a key whose first byte is at least 0x20. Bytes are signed (`char` on x86),
so the first byte of a non-ASCII character is negative and refused
(`RefuseByte`). `Terminated` and `StrLen` read the array the way PAM does, as
a C string, right after the handler has written the terminator.

### LockClient

A handler is one action. `main()` is cut where it calls libwayland, because
only there can an event be handled. `pc` is

| `pc` | `main.c` |
|---|---|
| `connecting` | the first roundtrip, which delivers the globals |
| `locking` | the roundtrip after the lock request, 135 |
| `running` | the loop, 172-185; `dispatched` says that the dispatch has handled an event, so that it may return |
| `unlocking` | the roundtrip after `unlock_and_destroy`, 181 |
| `teardown` | 187-218 |
| `exited` | returned, by any of its returns |

`Dispatch(type)` takes one event. In `running` it may be taken again before
`main()` looks at its flags (`LeaveLoop`, `UnlockSession`, `KeepRunning`), as
`wl_display_dispatch` handles all events that have been read. A roundtrip ends
with its sync or with the connection (`RoundtripOver`), and the program does
not look at which. `DropStaleEvent` is libwayland dropping an event for an
object that has been destroyed.

`lock_outputs`, `lock_surfaces` and `configured` are the array
`client_state.lock_outputs`: its outputs in order, those with a surface, those
with the flag. A `commit` request stands for the swaps of a whole render: it
names the surfaces that were swapped and the surface the frame callback was
asked on. `frame_cb` is `Window` when that surface is `state.wl_surface`, which
lock mode never shows: the callback is then never due. PAM is the
nondeterministic choice in `KeySubmit`. Time is in ticks; a frame event
carries the ticks since the frame before.

The two queues have no capacity; what is in them is bounded by what the program
and the compositor do.

### Compositor

Each `Serve...` action takes the oldest request. `Reject` is a protocol error:
it is recorded in `perror`, and the client is disconnected. `GrantLock`,
`DenyLock` and `RevokeLock` happen when the compositor likes. A configure is
sent for each lock surface on a monitor that is there. `ServeCommit` maps the
surfaces and arms the frame callback if its surface is among those committed;
`DrawFrame` fires it if the surface's monitor is there. The constant `Whims`
says what else it may do in a run: `"deny"`, `"revoke"`, `"resize"`,
`"other"` (any event the program does not use), `"die"`.

### SessionLock and EvaLock

`SessionLock` has two variables: the session (`open`, `locked`, `released`)
and the permits given so far. A permit is a correct password given while the
session is locked, the compositor's revocation, or a signal. The session may be
released only with a permit, and a permit is never taken back. `EvaLock` maps
its state to these two: the session is the compositor's, the permits are
`counting_down` or `auth_result`, `revoked`, and `g_should_exit`. A signal is a
permit because the code unlocks on SIGTERM and SIGINT, by `main.c` 203-205.

### GlyphTable

A slot is free if its key is 0. `FindEntry` is the probe: the first slot, from
the key's home on and around the end, that is free or holds the key.
`table_set` is one action, unless it grows the table: then it is `BeginGrow`,
one `MoveEntry` for each slot of the old array and `FinishGrow`, with nothing
in between. `Stored` and `Get` are the two answers of `table_get`. A glyph set
for key 0 is counted, every time, and its slot stays free: `count` runs ahead
of the slots in use, which is why `ProbesEnd` is an inequality.
The hash is a constant function of the table; `MCText` gives it the
values of `HashInt` and has TLC verify them. `HashInt` keeps 16 bits, which
the low 16 bits of a product and of an exclusive or depend on alone.

### FrameClock

`wl_surface_frame_done` as far as time goes, in milliseconds (the code keeps
seconds in floats). `Step` is the subtraction modulo 2^32 of
`W/wl_callback_listener.h` 39; `Modulus` is 2^32 in the code and 7 in the run.
While `asking`, `eva_authenticate` blocks and nothing is handled, for any time.
`now`, `frame_at`, `started` and `answered` are the truth that the properties
compare with: the compositor's clock without its wrap-around, and what it showed
at the last frame, at the last one before the password, and when PAM answered.
The code sets the countdown at `answered` but takes the time since `started` off
it; `EarlyByTheWaitOnly` says that this is all it is early by. `LockClient` has the same
handler with ticks that are handed to it; `FrameClock` is where they come from.

### LockOutputs

A size stands for a width and a height. `surfaces` is every EGL surface ever
created, `egl` the one of each output, `state_egl` and `current` the two other
places where one is kept. `Render` is the end of `render()`: the swap works if
the surface is alive and current, and shows a picture with three sizes that
must agree: the buffer's, the framebuffers' and the viewport's. A pass over
the outputs (`EnterLoop` or `FrameDone`, then `DrawOutput` or `SkipOutput` for
each) is cut output by output; nothing comes in between.

### FrameLoop

What the loop waits for: a swap of an output waits until that output has been
drawn since its last one (`throttle`), and no event is handled meanwhile.
`lit` are the monitors that are drawn at all. No file of the repository calls
`eglSwapInterval`, so the default interval of 1 holds.

### Startup

`bound` are the globals that are not NULL. What a compositor has is what it
tells of before the roundtrip ends (`ToldOf`, `RegistryRead`); later only seats
and outputs are told of. A ninth output is not bound. A bind of a version that
the compositor does not have is a protocol error, which kills the program when
the bind is read; which versions those are is chosen there. `wayland_init`
crashes on a missing `wl_compositor` (and `xdg_wm_base` without `--lock`); what
may fail in EGL and GL is one choice. `late_bind` remembers a global that was
bound in the loop.

The listeners of a bound seat belong to the start too. The compositor tells of
its capabilities when it reads the bind, and the program handles that in the
roundtrip at `main.c` 135, after the lock request: `HandleCapabilities` asks
`state->wl_seat` for what it does not have, whatever seat the event is for, and
a keyboard comes with a keymap, which `HandleKeymap` may not survive
(`W/keyboard.h` 18, 21, and a keymap that does not compile). `loop` stands for
that roundtrip and the loop.

### Seat

`Follow` is one of the two halves of `wl_seat_capabilities`: the request and
the device that there is after it. The handler uses `state->wl_seat`, the seat
announced last, whatever seat the event is for. The compositor refuses a device
of a kind that the seat has never had, as `wl_seat`'s protocol says. `live` is a
set, so it would not count a second device of one kind on one seat;
`OneDeviceOfAKind` says that none is ever asked for.

### PointerCamera and OrbitCamera

A pointer event is a group that ends with a frame event; keys and the smoothing
may come in between. Angles are integers, one per pixel. `Towards` is one step
of the smoothing: some of the way or all of it, since the factor
`1 - exp(-8 dt)` is between 0 and 1. `OrbitCamera` knows an angle for each axis
and an anchor: a drag moves both by the difference to the anchor, within
limits, and a reset takes the view home and the anchor away.

### ClockWindow

The window's surface, its one frame callback and EGL's own, which the swap
waits for. EGL may take a new size of the window for the next picture or for
the one after it (`buffer'` in `ToplevelConfigure`). A hidden window
(`visible`) is not drawn: a swap then blocks, and with it pings, the close
button and signals.

### Utf8, FileExtension, ClockFace

Loops that are taken step by step. `Utf8` decodes two kinds of input: the
encoding of any text of `Alphabet`, which it must give back, and any bytes,
which it must not run away with. `FileExtension` has the two scans of
`get_file_name_extension`. `ClockFace` compares the digits with the time.

## The runs

Every property of a passing run has a mutant: a definition of a module changed
the way a bug would change it, with which TLC finds that property violated.

| Run | Instance | Properties | What it shows |
|---|---|---|---|
| `password` | one monitor; deny, revoke, signals; all keys, five first bytes: control, none, printable, DEL, lead byte of a multi-byte character; array of 3; countdown 3, flash 2, frames of 1 or 2 ticks | `UnlockConfirmed`, `AbandonedOnlyOnSignalOrRevoke`, `GreenFlashCountsDown`, `SubmitsWholeLine`, `NothingLeftBehind`, `SessionLockSpec`, `EditorSpec`, `SuccessUnlocks` | the lock opens only with a permit, and the roundtrip after the unlock makes sure of it; a green flash tells the truth; what PAM reads is the line that was typed, and erased and submitted bytes are wiped; a correct password unlocks |
| `endings` | one monitor; deny, revoke, die, signals; Return and Escape | `RefusalExits`, `StopExits` | a refusal, a revocation, a broken connection and a signal each lead to the exit |
| `monitors` | three monitors for two places, one plugged in late, one unplugged; resizes, deny, revoke, die, other events, signals | `TypeOK`, `OnlyDestroyRace`, `SettledSurfacesShown`, `OneFrameCallback` | the program breaks the protocol in one case only, a signal before `locked` is read; no monitor is stored behind the last place; every one that got a surface shows it; there is exactly one frame callback |
| `devices` | time: a clock of period 7 that starts before and at its wrap-around, gaps of 1 and 3, countdown 4; three outputs, two sizes and 0, seven EGL surfaces for them; two seats, two capabilities; three pointer positions, limits within reach of one and of two drags | `CountdownKeepsTime`, `EarlyByTheWaitOnly`, `PicturesFit`, `SurfacesSound`, `FailedSwapNeedsZero`, `DevicesFollowTheSeat`, `ErrorNeedsTwoSeats`, `OneDeviceOfAKind`, `DevicesKnown`, `ViewWithinLimits`, `UnanchoredAtHome`, `OrbitCameraSpec` | the countdown keeps the compositor's time from the frame before the key press: it ends early by the time PAM took, and by no more; every picture fits its output, no EGL surface is leaked or used after its end, only a size 0 loses a picture; with one seat the devices are the seat's, an error needs a second one, none is asked for twice or leaked; groups and resets implement the dragged view |
| `frame_loop` | three monitors, a countdown of two frames | `ServesWhileLit` | with swaps that wait for each monitor, the password is handled and the countdown ends while all are on again and again |
| `startup` | compositor, shell, lock manager, `wl_shm`, two seats and two outputs, of which one has a place; any of them missing, in either version but for the shell and the manager; seats and outputs also late; two capabilities; both modes | `LockedByLivingLocker` | what fails before the lock request leaves the session open; what may kill the program in a locked session is named |
| `clock_window` | two sizes, two unread events, hidden at will | `NoPictureBeforeAck`, `OneCallback`, `CloseExits`, `PingsAnswered`, `WindowFits` | no picture before the first ack; one callback; liveness of a window that is seen again and again |
| `text` | table: key 0 and four colliding characters, two glyphs, 7 counted; decoder: texts of 3 of 9 code points, 4 of 7 bytes; paths of 5 characters between the first slash and the last letter; a countdown of 125 s | `ProbesEnd`, `GlyphMapSpec`, `WithinBounds`, `DecodesTexts`, `ScansWithinPath`, `OneDotFound`, `CountdownReadable` | the table is a map through collisions, wrap-around and growth from 0 to 16 slots; the loops stay within their arrays and compute what they should |
| four runs that find a violation | smallest instance that has it | one each | see below |

`SettledSurfacesShown` speaks of states where everything sent has been
delivered; in between, client and compositor naturally disagree.
`OneFrameCallback` counts the carriers of the callback (a queued commit, an
armed surface, a queued event) and wants exactly one while the program runs.
`UnlockConfirmed` is about line 181: once that roundtrip is over and the
connection stands, the session is unlocked. `AbandonedOnlyOnSignalOrRevoke`
has two exceptions because the code has them: see below.

## Bounds

- Time in the lock is in ticks: the code's countdown is 2.0 s and its flash
  1.0 s, so the instances keep the countdown longer than the flash and a frame
  may be longer than one tick. `MaxDt` only types the event.
- `MaxTime` of the frame clock lets it wrap around once from every start, with
  a countdown across it.
- `MaxRequests` of `Startup`: the compositor tells of nothing new while two
  requests are unread. A seat's bind and the lock request fit, in either order,
  and so do the binds of two seats; what the program sends on its own is not
  bounded. Seats are symmetric there, and outputs. The proof has no bound.
- `MaxBacklog` bounds nothing but resizes: the compositor resizes nothing
  while that many requests are unread. `MaxEvents` of `Seat` and `ClockWindow`
  does the same for what their compositors begin by themselves; two suffice
  for events that overtake requests.
- At most one key press, one resize and one "other" event is on its way. A
  further one would be handled in the next dispatch, in a state that is
  reachable without it.
- A monitor that is plugged back in is a new output with a new name, as it is
  in Wayland; `Pluggable` and `Unpluggable` are therefore disjoint.
- Two places for monitors (`MaxOutputs`) and three monitors reach the full
  array; the code has 8.
- Three bytes of password reach the empty, partly filled and full array; the
  proofs are for every size.
- Three outputs have one before and one after another that changes its size.
  `MaxSurfaces` allows one surface for each and four replacements: two
  outputs may change to and fro. The proofs are for any number.
- `MaxCount` stops the glyph table at 7 counted entries, after its growth to
  16 slots. `InitialCap` of the decoder's array is 1 instead of 16, so that it
  grows twice.
- `CHECK_DEADLOCK FALSE` in all runs: the program exits, a loop ends, or a
  bound ends the behaviour.

## Fairness

`FairSpec` assumes weak fairness of the program (`HandleEvent`, `RunMain`) and
of the compositor reading requests (`ServeRequest`), deciding about the lock
(grant or deny, whichever), and drawing frames (`DrawFrame`). The program is a
loop around `poll` with nothing that blocks but PAM, which answers. Nothing is
assumed of users, signals, monitors, revocations or failures.

`SuccessUnlocks` needs two hypotheses. The keys cease: every further correct
password starts the countdown again (`W/keyboard.h` 78-79), so a user who
types it for ever delays the unlock for ever. And the frame callback is on a
monitor: without that the code does not unlock, as the first two findings show.
`StopExits` makes no claim for a signal without frames, for the same reason:
the handler sets a flag, and `poll` is entered again after EINTR, so the loop
must be woken by an event.

`ClockWindow` assumes weak fairness of the program and of the compositor
reading requests, and strong fairness of the loop's look at its flags (`Stop`):
`wl_display_dispatch` returns after the events it has read, even if more keep
coming. `DrawFrame` is strongly fair: a window that is visible again and again
is drawn again and again; the properties have that visibility as their
hypothesis, `Seen`, since a swap for a hidden window waits. `FrameLoop` assumes
weak fairness of the handler and of a swap that need not wait, strong fairness
of the key handler, as events are handled in the order they come, and of
drawing each output that is lit again and again; `AllLit` is the hypothesis.

## Where the code and its texts disagree

Four of the disagreements are runs that TLC ends with a counterexample.

1. `roundtrip_renders`: the comment at `main.c` 133-134 has the roundtrip wait
   for `locked`, `configure` and the first frame. It waits for a sync.
   `get_lock_surface` is sent while its events are handled, so `configure`
   comes later, and the loop may start with its frame callback on
   `state.wl_surface`, which lock mode never commits. From there the countdown
   does not move, whatever `W/keyboard.h` 77 says: hence the hypothesis
   `frame_cb \in Output` of `SuccessUnlocks`.
2. `countdown_unplugged`: the frame loop stays on the first configured
   output; unplugged, it draws no frame, and a correct password does not
   unlock although another monitor is there.
3. `countdown_early`: `client_state.h` 73 has a "countdown after successful
   auth", and `W/keyboard.h` 77-79 sets it to 2 s when `eva_authenticate` has
   returned. But `last_frame` is still the frame before the key press, and
   `W/wl_callback_listener.h` 39, 54 takes all the time since then off the
   countdown with the next frame. PAM's time counts: if it took 2 s, the session
   unlocks with the first frame after the answer, and the green flash is over
   too. `EarlyByTheWaitOnly` and `CountdownKeepsTime` say what does hold. A red
   flash, set in the same place, loses the same time.
4. `indicator`: `client_state.h` 71 says that `indicator_visible` toggles on
   each keypress. It toggles with each byte added to or taken off the line: not
   for a key without text, a byte outside ASCII, a full line, or BackSpace on an
   empty one (`W/keyboard.h` 87-98). What holds is proved
   (`PwIndicatorInStep`): the box is lit when the length of the line is odd.

Others are hypotheses or exceptions of the properties that hold, where they
show how far the code goes:

- `OnlyDestroyRace`: a signal that ends the loop before `locked` has been read
  makes the teardown send `destroy` for a granted lock, a protocol error.
- `AbandonedOnlyOnSignalOrRevoke`, by a signal: the teardown sends
  `unlock_and_destroy` and disconnects (`main.c` 203-217) without the sync
  that the protocol asks for, and the compositor may never read it. By a
  revocation: `main.c` 136 takes any `finished` in the roundtrip for a refusal,
  also one that follows `locked`.
- `SettledSurfacesShown` speaks of outputs that got a surface: only
  `handle_locked` creates them, once, while the protocol expects them for new
  outputs too.
- `CountdownKeepsTime` and `EarlyByTheWaitOnly` leave out frames at time 0
  (`measured`): `last_frame = 0` stands for no frame, so the step after one is
  16 ms whatever has passed.
- `ServesWhileLit` needs all monitors lit: the swap of a dark one holds up the
  handler, the countdown and all input.
- `ErrorNeedsTwoSeats`: with two seats the program may ask one for the device
  of the other, and be killed for it.
- `FailedSwapNeedsZero`: a configure with a zero dimension is rendered without
  its surface being current.
- `LockedByLivingLocker` names three ways in which a locked session loses its
  locker. A seat or a monitor of an old version that appears after the lock
  request. Two seats: also if both are there from the start, since their
  capabilities are handled only after the request (`main.c` 135), one of them
  may be answered with a request to the other (`W/wl_seat.h` 18, 27), which is
  a protocol error if that one never had the device. And a keymap in another
  format, or that cannot be mapped or compiled (`W/keyboard.h` 18-27).
- `OneDotFound`: the extension is what follows the first dot of the whole path,
  a directory's too.

## The proofs

Eight modules hold the theorems, checked by TLAPS for every value of the
constants that satisfies the assumptions named where they are declared. Every
invariant and every action or refinement property that a run checks is stated
by a theorem; what is left to TLC alone is liveness. The assumptions are:

- `CapacityAssumption` and `KeyByteAssumption`: the array has at least one
  byte, bytes are signed chars;
- `OutputAssumption`: the two names that are not outputs; `TimeAssumption`: a
  positive countdown, a flash no longer than it; `HotplugAssumption`: finitely
  many outputs at the start, none plugged in twice; `EnvironmentAssumption`:
  the environment's inputs are of their types;
- `ClockAssumption`, `CameraAssumption`, `SizeAssumption` and the
  `OutputAssumption` of `LockOutputs`: positive sizes, durations and limits;
- `SeatAssumption`: `NoSeat` is no seat; `GlobalAssumption`: the globals that
  `Startup` names are globals, and `None` is none of them;
- `Utf8Assumption`: code points are from 1 to 0x10FFFF, other input is bytes
  without a zero, which ends it; `PathAssumption`: the NUL and the dot are no
  other character; `FaceAssumption`: a step of the countdown is positive;
- of `GlyphTable`: codes and hashes are naturals.

**`PasswordEntryProofs`.** `PwTypeCorrect`, `PwSubmitsWholeLine`,
`PwNothingLeftBehind`, `PwIndicatorInStep` and `PwImplementsEditor`, for every
array size. The
inductive invariant, `PwInv`, adds that the bytes below `password_len` are
printable: without it a zero byte inside the line would cut the string that PAM
reads.

**`EvaLockProofs`, the types.** `TypeCorrect`: the type invariant of the composition. The
invariant needs that every output named in a queue is in the client's list
(`OutputsKnown`), because `configured` must stay inside `lock_surfaces`, and
that `present` is finite, because globals are announced in an order.
`ImplementsPasswordEntry`: every step of the whole is a step of `PwSpec`, or
leaves the password alone; the theorems of the password entry hold in the
locker.

**`EvaLockProofs`, the refinement.** `LockInvariant` proves `LockInv`, a conjunction that says
how what the program believes, what the compositor has done and what is queued
between them fit together: nothing happens before the request
(`NothingYet`); the lock is asked for once and before anything that ends it
(`AskedOnce`, with the order of the queue); while the object is live no
request to end it is under way (`LiveLock`); a `locked` or `finished` in the
queue is true (`EventsTrue`); `session_locked` means that the compositor has
locked (`ClientKnows`); a countdown or a success means that the session was
locked (`PasswordCounts`); a program that left has a reason (`LeftForReason`);
and an unlock request, queued or served, has a permit (`UnlockPermitted`).

The last one is the heart of it: the loop decides to unlock for a reason that
it sees at one moment, while the compositor unlocks later. The reason is
carried through the queue: after the decision, `counting_down`, `auth_result`,
`revoked` and `g_should_exit` can no longer lose it. From it follow

- `ImplementsSessionLock`: `Spec => SessionLockSpec`, the refinement. Each step
  of the program and of the compositor is an abstract step or a stutter.
- `UnlockHasCause`: an unlocked session has a permit that still stands.
- `GreenFlashCorrect`: while the green flash shows, the countdown runs and is
  as far as the flash says.

**`EvaLockOrder`.** What rests on the order of the two queues; with it every
safety property of the composition is proved for any number of monitors, any
timing and any failures.

- `UnlockIsConfirmed`: `EndInv` adds that a roundtrip has one sync or one done
  on its way and none once it is over (`OneRoundtrip`), and that an unlock that
  is not served yet is ahead of the sync that `main()` waits for
  (`UnlockOnItsWay`). `synced` alone would not do: it would also be set by the
  `done` of an earlier roundtrip, if one could be left over.
- `AbandonedForCause`: the reason for `closed`, a left loop and an exit is
  carried along (`EndedForCause`), as the permits are in `LockInv`.
- `ProtocolKept`: of the four protocol errors, `invalid_unlock` needs that
  unlock is sent once, for a lock that is held (`UnlockOnce`);
  `invalid_destroy` that a destroy was excused by a refusal, or follows a
  signal (`DestroyExcused`), and that `locked` is heard before a revocation
  (`LockedHeard`); `duplicate_output` that `locked` comes once and no monitor
  is in the list twice (`HeardOnce`, `OutputsOnce`, `SurfacesOnce`), which goes
  back to the globals: they name each output once, and an output that is
  plugged in has a new name; `commit_before_first_ack` that each commit is
  covered by acknowledgements ahead of it in the queue (`AckFirst`).
- `SurfacesGetShown`: an output with a lock surface is at each moment in the
  queue, waiting for its configure, rendered, or on the screen (`ShownInv`).
- `CallbackCarried`: the callback is in one place at most (`Alone`), and
  somewhere, if there was an output to ask it on (`FrameInv`).

**`FrameProofs`, time.** `ClockTypeCorrect`, `CountdownInTime` and
`CountdownShortByTheWait`, for every period of the clock, every length of the
countdown and every wait for PAM. `ClockInv` adds that `last_frame` is the last frame's time modulo
the period, that frames come in order, and that a running countdown is above 0. The arithmetic is one lemma: the
difference of two remainders, taken modulo the period again, is the gap, if
that is shorter than the period.

**`FrameProofs`, surfaces.** `LockOutTypeCorrect`, `EveryPictureFits`,
`SurfacesReplaced` and `SwapsWork`, for any number of outputs, any sizes and
any number of replacements. `LockOutInv` adds that the framebuffers have the
size `SRC_WIDTH` says, that a surface belongs to one output and has its size,
and that a configured output has one. `PicturesFit` needs all of them: what is
drawn next depends on the size that the output before it has left behind.

**`SeatProofs`.** `NoDeviceIsLost`, `DevicesAreAskedForOnce`,
`OneSeatIsSafe` and `DevicesAreThoseOfTheSeat`, for any number of seats. The program sets a device
when it makes the request, and the compositor when it reads it, so in between
they disagree. What is invariant is a chain (`Chained`): the requests about one
kind of device alternate between `get` and `release`, each begins with the
device that the one before it leaves, the first with what the compositor keeps,
and the last leaves what the program has. When no request is left, the ends
meet; and the first one asks for a device of which the compositor keeps none,
or releases the one that it keeps. `wl_seat_capabilities` may lengthen two chains with one event, in order
(`ChainFollows`, for one half of the handler and the other). `SomeSeatHadIt`:
whatever is asked for, some seat has had; with one seat it is the right one.
`LastToldIsCurrent`: the last capabilities on their way are those of the seat,
and if there are none, the program has followed them already.

**`StartupProofs`.** `LockedSessionHasLocker`, for any globals, seats and
outputs. The invariant has two halves. `OrderInv`: a session can be locked only
by a request that is made on entering the loop (`LockIsAskedInLoop`). A bind
that would kill the program in a locked session must be read after the lock
request. The requests are read in order, so it was made after it
(`BoundBehindLock`, `BoundInLockedSession`), and then it came from a global that
appeared in the loop. `DeviceInv`: the capabilities in a queue were told of by a
bound seat (`EventsSound`), and what is asked for was told of by the seat that
is asked, unless there are several (`RequestsSound`, with `OneSeatKept`); so one
seat never leads to a protocol error.

**`WindowProofs`, the window.** `PicturesAreAcknowledged` and
`OneCallbackAtATime`, for any sizes and delays. `AckIsFirst`: each picture in
the queue has an `ack_configure` ahead of it, or one has been read
(`AckedBefore`), since the program draws only on a configure event, right after
its acknowledgement, and on a frame event, which comes after a picture. So the
commit of `xdg_toplevel_configure` does no harm, because it has no picture.
`CallbackInv` counts the callbacks in both queues, by the cardinality of the
places that hold one, and the two flags of the compositor: the sum is 1 from
the first request on. `CountAppend` and `CountTail` say what a queue's two
operations do to such a count; the second needs the bijection that moves every
place down by one.

**`WindowProofs`, the pointer.** `PointerTypeCorrect`, `ViewLimited`,
`KeyTakesViewBack` and `ImplementsOrbitCamera`, for all positions and limits,
with or without `--stationary`. `PointerInv` adds the limits of the targets:
the camera is between the target and where it was.

**`TextProofs`, the decoder.** `DecoderStaysWithinBounds` and
`DecoderInvertsEncoding`, for texts of any length and any other bytes. What one
code point's encoding tells the decoder is arithmetic on groups of six bits
(`EncodedBytes`, by the four lengths). A text's encoding is a recursive
function; what it computes is shown by induction on its length, carried out
over a set of numbers (`UpTo`: a set that holds 0 and with each number the next,
up to a bound, has them all, or it had a least exception), since theorems with
an operator for a parameter cannot be used here. It follows that every code
point begins somewhere in the bytes, one after the other (`Laid`). The invariant
`Decoding` says that the decoder, when it has given k code points, stands at
the start of the next or within it, and then holds the bits above those to
come. So it never sees a byte that it refuses.

**`TextProofs`, a path's extension and the countdown.** `LoopsStayWithinPath`
and `ExtensionFound`, for paths of any length: the first loop has passed no dot
(`NoDotUpTo`) and stops at the first one, or behind the NUL, and then the
second does not begin. `CountdownIsShown`: the digits read
back as the countdown, by division with remainder (`DigitsReadBack`).

**`TextProofs`, the glyph table.** `GlyphTypeCorrect`, `GlyphProbesEnd` and
`GlyphTableIsMap`, for every set of keys and every hash. `GlyphProbesEnd` does
not need to know where `find_entry` stops: wherever a glyph is stored, at most
one more slot is in use, and then `count` goes up. `GlyphInv` says that `count`
is below the capacity (or there is no array yet), that no more slots are in use
than `count` says, and that the new array of a growing table holds no more than
what was moved to it; by cardinality, a slot is always free and the probe ends.

`GlyphTableIsMap` is the refinement, `GlyphSpec => GlyphMapSpec`. In an array
with a free slot a probe ends, at the nearest of the slots where it may
(`FindEntryEnds`, from the smallest element of a set of numbers), and it ends
in one place only, since of two slots one is passed on the way to the other
(`EndsOnce`). The invariant `ProbeInv` says that every key is in the slot where
its probe ends (`Placed`), in the old and in the new array, and that the new
array holds exactly the entries that `adjust_capacity` has passed. So a key is
never stored twice, the entry that is moved takes a free slot, and at the end
the new array stands for the map that the old one was (`SameContent`, which
does not look at slots). The end of `table_set` is then a `Set` of the map, or
nothing for key 0 (`StoreContent`), and every other step is a stutter.

**Only model-checked.** The seven liveness properties: `SuccessUnlocks`,
`RefusalExits` and `StopExits` of `EvaLock`, `CloseExits`, `PingsAnswered` and
`WindowFits` of `ClockWindow`, and `ServesWhileLit`, the one property of
`FrameLoop`. They rest on fairness, that is on when an action is enabled, which
TLAPS does not reason about here. Nor is anything proved of `HashInt`: the
glyph table is proved for every hash instead, and `MCText` has TLC compare the
one it is given with `HashInt`.

## What is not modelled

- Most of the repository's lines are not the program's: `glad.c`, `glad.h`,
  KHR, cglm, `stb_image.h` and the output of wayland-scanner are vendored or
  generated, and stand in the model only as the environment that the program
  uses them for. Of what is left, much is OpenGL.
- The OpenGL calls of `graphics.c`, `entity.c`, `eva.c` and `text.c`, the
  shaders, fonts and FreeType, and the matrices of `camera.c`: values on their
  way to the GPU, with no control of their own.
- `intense_time`, which only feeds a shader. It is advanced in `render()`
  (`graphics.c` 407), once for every output, so that it runs faster with more.
- The options, and the demo modes that choose colours.
- Modifiers, key releases and key repeat, and what a keymap says: they feed
  xkbcommon. That a keymap may not be usable is in `Startup`.
- The float that `eva.c` cuts its digits from, and its hours modulo 10:
  `ClockFace` has integer milliseconds.
- PAM beyond its answer and the time it takes.
- `files.c`: it reads the environment and the file system, and formats paths
  with `snprintf` into arrays of 300 bytes; it keeps no state.
- Logging, the installation script and the colour mapper.
- Running out of memory, but for `realloc` in the decoder. `render_font` never
  frees the array that the decoder returns (`text.c` 225).
- Floating point: times, angles and sizes are integers. What depends on
  rounding is not checked.

## Plan

What is left, in the order of what it would add:

1. `LockClient` with `FrameLoop`: the unlock under swaps that wait, on several
   monitors, in one model.
2. Safety properties of that model, with proofs: one frame callback while
   swaps wait, and no key lost.
3. Outputs announced after `handle_locked`: what the compositor shows on them
   is the protocol's business, and would be part of `Compositor`.
