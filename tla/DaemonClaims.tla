---------------------------- MODULE DaemonClaims ----------------------------
(***************************************************************************)
(* What the repository's README says of the daemon, where the code does    *)
(* something else.  Each claim is checked by a run that finds a behaviour  *)
(* of Daemon violating it.                                                 *)
(***************************************************************************)
EXTENDS Daemon

\* README.md:18, "Stops inertia on a real click, multitouch gesture, or
\* confirmed retouch", README.md:148, "Required touch duration to stop active
\* inertia": a finger that has rested on the pad for longer than that has
\* stopped inertia.  The code forgets a touch that lands within
\* RETOUCH_ARM_DELAY_US of the lift (touchpad.rs:467-477), however long it
\* then rests.
HeldTouchStops ==
  CaughtUp /\ finger /\ clock > downAt + StopTouch + ArmDelay
    => mode # "PointerMomentum"

\* README.md:52, "While inertia is active, rinertia temporarily grabs the real
\* touchpad".  A PointerIdle that answers the Stop of the touch itself, but is
\* read after its lift, gives the grab up (touchpad.rs:364-374).
GlideIsGrabbed ==
  CaughtUp /\ mode = "PointerMomentum" /\ ioctlFailures = 0 => grabbed

\* README.md:185, "suppresses inertia after a click".  The listener resets
\* click_inhibit when it handles the touch (touchpad.rs:507), also when the
\* button thread has already reported a click of that same touch.
ClickSuppresses == CaughtUp /\ clicked /\ ~finger => mode # "PointerMomentum"

=============================================================================
