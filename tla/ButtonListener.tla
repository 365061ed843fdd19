--------------------------- MODULE ButtonListener ---------------------------
(***************************************************************************)
(* run_button_listener (src/touchpad.rs): the thread that reads the mouse  *)
(* node of the same hardware, on which some touchpads report their         *)
(* buttons.  A press sets click_inhibit and then stops inertia; the two    *)
(* are separate steps.                                                     *)
(***************************************************************************)
EXTENDS Channels, TouchpadDevice

CONSTANTS
  HasButton,    \* main() found such a node and started the thread
  MaxPresses    \* bound: number of presses in a behaviour

ASSUME ButtonAssumption ==
  /\ HasButton \in BOOLEAN
  /\ MaxPresses \in Nat

VARIABLES
  clickInhibit,  \* AtomicBool shared with the listener
  buttonPc,      \* "fetch", "stop" (before tx.send) or "exit"
  presses,       \* presses that happened and are not yet handled
  pressed        \* presses produced so far

buttonVars == <<clickInhibit, buttonPc, presses, pressed>>

ButtonTypeOK ==
  /\ clickInhibit \in BOOLEAN
  /\ buttonPc \in {"fetch", "stop", "exit"}
  /\ presses \in Nat
  /\ pressed \in Nat

ButtonInit ==
  /\ clickInhibit = FALSE
  /\ buttonPc = IF HasButton THEN "fetch" ELSE "exit"
  /\ presses = 0
  /\ pressed = 0

\* The user presses a button that this node reports.
PressButton ==
  /\ HasButton
  /\ ~unplugged
  /\ pressed < MaxPresses
  /\ clock <= MaxClock
  /\ presses' = presses + 1
  /\ pressed' = pressed + 1
  /\ clicked' = (clicked \/ finger)
  /\ UNCHANGED <<clickInhibit, buttonPc, channelVars, clock, finger, downAt,
                 gesture, pending, inputs, unplugged>>

\* Also when the node is gone: fetch_events may have returned this press, with
\* others, before that.
TakePress ==
  /\ buttonPc = "fetch"
  /\ presses > 0
  /\ presses' = presses - 1
  /\ clickInhibit' = TRUE
  /\ buttonPc' = "stop"
  /\ UNCHANGED <<pressed, channelVars>>

PressSendStop ==
  /\ buttonPc = "stop"
  /\ Send("Stop")
  /\ buttonPc' = "fetch"
  /\ UNCHANGED <<clickInhibit, presses, pressed, status, senders, statusOpen>>

\* fetch_events fails: presses still queued are lost, the loop ends, and the
\* thread drops its Sender.
ButtonStreamEnds ==
  /\ buttonPc = "fetch"
  /\ unplugged
  /\ buttonPc' = "exit"
  /\ senders' = senders - 1
  /\ UNCHANGED <<clickInhibit, presses, pressed, chan, status, statusOpen>>

ButtonStep ==
  /\ TakePress \/ PressSendStop \/ ButtonStreamEnds
  /\ UNCHANGED deviceVars

=============================================================================
