--------------------------- MODULE TouchpadDevice ---------------------------
(***************************************************************************)
(* The hardware side: one touchpad, its evdev queue, and the passing of    *)
(* time.  None of this is code of the repository; it is modelled from what *)
(* run_listener reads (BTN_TOUCH, ABS_X / ABS_Y, BTN_LEFT.., BTN_TOOL_     *)
(* DOUBLETAP.., the event timestamp) and from what a finger can do.        *)
(*                                                                         *)
(* Events carry the time at which they happened; the listener may read     *)
(* them any amount of time later, some or all of those queued at a time.   *)
(***************************************************************************)
EXTENDS Naturals, Sequences

CONSTANTS
  Gestures,   \* which of "move", "click" and "multi" the user performs
  MaxInputs,  \* bound: number of touchpad events in a behaviour
  MaxClock,   \* bound: time after which the user does nothing
  MayUnplug   \* whether the hardware may disappear

ASSUME DeviceAssumption ==
  /\ Gestures \subseteq {"move", "click", "multi"}
  /\ MaxInputs \in Nat
  /\ MaxClock \in Nat
  /\ MayUnplug \in BOOLEAN

VARIABLES
  clock,      \* current time, in units no event of interest subdivides
  finger,     \* a finger is on the pad
  downAt,     \* when the current (or last) touch began
  gesture,    \* the pad's own button was pressed, or another finger joined,
              \* during the current (or last) touch
  clicked,    \* the same for a button that the pad's mouse node reports
  pending,    \* events the kernel has queued for the daemon
  inputs,     \* touchpad events produced so far
  unplugged   \* the device nodes are gone

deviceVars == <<clock, finger, downAt, gesture, clicked, pending, inputs,
                unplugged>>

EventKind == {"down", "up", "move", "click", "multi"}
Event     == [kind : EventKind, ts : Nat]

DeviceTypeOK ==
  /\ clock \in Nat
  /\ finger \in BOOLEAN
  /\ downAt \in Nat
  /\ gesture \in BOOLEAN
  /\ clicked \in BOOLEAN
  /\ pending \in Seq(Event)
  /\ inputs \in Nat
  /\ unplugged \in BOOLEAN

DeviceInit ==
  /\ clock = 0
  /\ finger = FALSE
  /\ downAt = 0
  /\ gesture = FALSE
  /\ clicked = FALSE
  /\ pending = <<>>
  /\ inputs = 0
  /\ unplugged = FALSE

\* The kernel queues an event of the given kind, stamped with the time.
Emit(kind) ==
  /\ ~unplugged
  /\ inputs < MaxInputs
  /\ clock <= MaxClock
  /\ inputs' = inputs + 1
  /\ pending' = Append(pending, [kind |-> kind, ts |-> clock])
  /\ UNCHANGED <<clock, unplugged>>

\* BTN_TOUCH 1
FingerDown ==
  /\ ~finger
  /\ Emit("down")
  /\ finger' = TRUE
  /\ downAt' = clock
  /\ gesture' = FALSE
  /\ clicked' = FALSE

\* BTN_TOUCH 0
FingerUp ==
  /\ finger
  /\ Emit("up")
  /\ finger' = FALSE
  /\ UNCHANGED <<downAt, gesture, clicked>>

\* ABS_X / ABS_Y with a changed value, a press of the pad's own button, or
\* another finger joining the first.
FingerGesture(kind) ==
  /\ finger
  /\ Emit(kind)
  /\ gesture' = (gesture \/ kind # "move")
  /\ UNCHANGED <<finger, downAt, clicked>>

\* The pad goes away: reads fail from now on, and what was queued is lost.
Unplug ==
  /\ MayUnplug
  /\ ~unplugged
  /\ unplugged' = TRUE
  /\ pending' = <<>>
  /\ UNCHANGED <<clock, finger, downAt, gesture, clicked, inputs>>

UserStep ==
  \/ FingerDown
  \/ FingerUp
  \/ \E kind \in Gestures : FingerGesture(kind)

AdvanceClock ==
  /\ clock' = clock + 1
  /\ UNCHANGED <<finger, downAt, gesture, clicked, pending, inputs, unplugged>>

=============================================================================
