---------------------------- MODULE ConfirmTimer ----------------------------
(***************************************************************************)
(* The detached threads that arm_retouch_confirm_timer spawns, one for     *)
(* each touch that lands while inertia runs (src/touchpad.rs).  A timer    *)
(* sleeps, compares the shared active token with its own, and if the touch *)
(* is still the current one sends Stop and then publishes its token in the *)
(* shared stopped token.  Check, send and publication are separate steps:  *)
(* every other thread may run between them.                                *)
(***************************************************************************)
EXTENDS Channels, TouchpadDevice

CONSTANT StopTouch    \* stop_touch_us: how long a touch must last to stop

ASSUME StopTouchAssumption == StopTouch \in Nat

VARIABLES
  activeToken,   \* retouch_active_token, bumped on every retouch and release
  stoppedToken,  \* retouch_stopped_token, the touch known to have stopped
  timers         \* the timer threads that have not finished

timerVars == <<activeToken, stoppedToken, timers>>

TimerPhase == {"asleep", "confirmed", "sent"}
Timer == [token : Nat, due : Nat, phase : TimerPhase]

TimerTypeOK ==
  /\ activeToken \in Nat
  /\ stoppedToken \in Nat
  /\ timers \subseteq Timer

TimerInit ==
  /\ activeToken = 0
  /\ stoppedToken = 0
  /\ timers = {}

Moved(tm, phase) == (timers \ {tm}) \cup {[tm EXCEPT !.phase = phase]}

\* The new thread owns a clone of the Sender until it returns.
ArmTimer(token) ==
  /\ timers' = timers \cup {[token |-> token, due |-> clock + StopTouch,
                             phase |-> "asleep"]}
  /\ senders' = senders + 1

\* The touch ended (or became a gesture) before the sleep did.
TimerStale(tm) ==
  /\ tm.phase = "asleep"
  /\ clock >= tm.due
  /\ activeToken # tm.token
  /\ timers' = timers \ {tm}
  /\ senders' = senders - 1
  /\ UNCHANGED <<activeToken, stoppedToken, chan, status, statusOpen>>

\* Mutant of TimerConfirm: the token is published before Stop is sent.
TimerConfirmPublishing(tm) ==
  /\ tm.phase = "asleep"
  /\ clock >= tm.due
  /\ activeToken = tm.token
  /\ stoppedToken' = tm.token
  /\ timers' = Moved(tm, "confirmed")
  /\ UNCHANGED <<activeToken, channelVars>>

\* Mutant of TimerConfirm: the thread stops inertia without a look at the token.
TimerConfirmBlindly(tm) ==
  /\ tm.phase = "asleep"
  /\ clock >= tm.due
  /\ timers' = Moved(tm, "confirmed")
  /\ UNCHANGED <<activeToken, stoppedToken, channelVars>>

TimerConfirm(tm) ==
  /\ tm.phase = "asleep"
  /\ clock >= tm.due
  /\ activeToken = tm.token
  /\ timers' = Moved(tm, "confirmed")
  /\ UNCHANGED <<activeToken, stoppedToken, channelVars>>

\* Mutant of TimerSendStop: the timer leaves the Stop to the listener.
TimerSendNothing(tm) ==
  /\ tm.phase = "confirmed"
  /\ timers' = Moved(tm, "sent")
  /\ UNCHANGED <<activeToken, stoppedToken, channelVars>>

TimerSendStop(tm) ==
  /\ tm.phase = "confirmed"
  /\ Send("Stop")
  /\ timers' = Moved(tm, "sent")
  /\ UNCHANGED <<activeToken, stoppedToken, status, senders, statusOpen>>

TimerPublish(tm) ==
  /\ tm.phase = "sent"
  /\ stoppedToken' = tm.token
  /\ timers' = timers \ {tm}
  /\ senders' = senders - 1
  /\ UNCHANGED <<activeToken, chan, status, statusOpen>>

TimerStep(tm) ==
  /\ \/ TimerStale(tm)
     \/ TimerConfirm(tm)
     \/ TimerSendStop(tm)
     \/ TimerPublish(tm)
  /\ UNCHANGED deviceVars

\* A timer whose sleep is over, or that is past it.
Due(tm) == tm.phase # "asleep" \/ clock >= tm.due

=============================================================================
