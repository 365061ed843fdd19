------------------------------- MODULE Daemon -------------------------------
(***************************************************************************)
(* The whole daemon as main() (src/main.rs) puts it together: the listener *)
(* thread, the optional button thread, the confirm timers the listener     *)
(* spawns, and the engine on the main thread, with the touchpad and the    *)
(* user as their environment.                                              *)
(***************************************************************************)
EXTENDS Listener, Engine, FiniteSets

vars == <<channelVars, deviceVars, timerVars, buttonVars, listenerVars,
          engineVars>>

Init ==
  /\ ChannelsInit(IF HasButton THEN 2 ELSE 1)
  /\ DeviceInit
  /\ TimerInit
  /\ ButtonInit
  /\ ListenerInit
  /\ EngineInit

User ==
  /\ UserStep \/ Unplug
  /\ UNCHANGED <<channelVars, timerVars, buttonVars, listenerVars, engineVars>>

UserButton == PressButton /\ UNCHANGED <<timerVars, listenerVars, engineVars>>

\* Time goes on until the bound, and beyond it while a timer sleeps.
Tick ==
  /\ clock < MaxClock \/ \E tm \in timers : clock < tm.due
  /\ AdvanceClock
  /\ UNCHANGED <<channelVars, timerVars, buttonVars, listenerVars, engineVars>>

ListenerThread == ListenerStep /\ UNCHANGED engineVars

ButtonThread == ButtonStep /\ UNCHANGED <<timerVars, listenerVars, engineVars>>

TimerThread(tm) ==
  TimerStep(tm) /\ UNCHANGED <<buttonVars, listenerVars, engineVars>>

EngineThread ==
  EngineStep /\ UNCHANGED <<deviceVars, timerVars, buttonVars, listenerVars>>

\* main() has joined the threads and returned.
Exited ==
  /\ mode = "Exited"
  /\ lpc = "exit"
  /\ buttonPc = "exit"
  /\ UNCHANGED vars

Next ==
  \/ User
  \/ UserButton
  \/ Tick
  \/ ListenerThread
  \/ ButtonThread
  \/ \E tm \in timers : TimerThread(tm)
  \/ EngineThread
  \/ Exited

Spec == Init /\ [][Next]_vars

\* The scheduler runs every thread that can run, sleeps end, and time goes on.
\* The user and the hardware owe nothing.
FairSpec ==
  /\ Spec
  /\ WF_vars(ListenerThread)
  /\ WF_vars(ButtonThread)
  /\ WF_vars(\E tm \in timers : TimerThread(tm))
  /\ WF_vars(EngineThread)
  /\ WF_vars(Tick)

-----------------------------------------------------------------------------
\* Every variable keeps to its type; in particular the engine's remaining
\* ticks never run below zero.
TypeOK ==
  /\ ChannelsTypeOK
  /\ DeviceTypeOK
  /\ TimerTypeOK
  /\ ButtonTypeOK
  /\ ListenerTypeOK
  /\ EngineTypeOK

\* Every message, status and event sent so far has been dealt with, and the
\* listener is about to ask for more.
CaughtUp ==
  /\ lpc = "fetch"
  /\ chan = <<>> /\ status = <<>>
  /\ pending = <<>> /\ presses = 0
  /\ buttonPc # "stop"
  /\ \A tm \in timers : ~Due(tm)

\* When the engine takes a ContinuePointer (a finger resting on the pad moved
\* after its touch had stopped inertia), the Stop of that touch has already
\* ended the glide: whichever of listener and timer publishes the stopped
\* token, it sends Stop first, so finger and glide never move the pointer
\* together (touchpad.rs:415-424, 585-587, 890-891).
ContinueFollowsStop ==
  chan # <<>> /\ Head(chan) = "ContinuePointer" => mode # "PointerMomentum"

\* With nothing in flight between them, the listener and the engine agree on
\* whether inertia runs, although the listener sets momentum_active itself in
\* three places and the engine reports it through a channel that the listener
\* reads late (touchpad.rs:359-377, 526, 580, 597; momentum.rs send_status).
\* The listener has to be there to be told: statusOpen.
StatusAgrees ==
  chan = <<>> /\ status = <<>> /\ statusOpen
    => momentumActive = (mode = "PointerMomentum")

\* The listener waits for a touch that stops inertia only while it believes
\* that inertia runs: the three places that clear momentum_active outside a
\* retouch also disarm (touchpad.rs:363-367, 566-567, 580-581, 597-598).
ArmedOnlyWhileActive == awaiting => momentumActive

\* The state of the grab once the actions already collected are carried out.
WillBeGrabbed ==
  IF grabActions = <<>> THEN grabbed
  ELSE grabActions[Len(grabActions)] = "Grab"

\* While a touch may come, or has come, to be judged as one that stops
\* inertia, the touchpad is grabbed or about to be: no report of an ended
\* glide takes the grab away under a resting finger, so the driver does not
\* see half of the touch (touchpad.rs:366, 387, 530, 928).  Holds as long as
\* the kernel refuses no EVIOCGRAB.
StopTouchUnderGrab ==
  ioctlFailures = 0 /\ (awaiting \/ lstate = "MomentumRetouch")
    => WillBeGrabbed \/ lpc = "exit"

\* Once everything in flight has been dealt with, the touchpad is grabbed only
\* while the pointer glides or the touch that stops it rests on the pad: a
\* grab is never left behind to cut the user off from the driver
\* (touchpad.rs:368, 582, 599, 654, 921-934).
GrabOnlyDuringInertia ==
  CaughtUp /\ grabbed /\ ioctlFailures = 0
    => mode = "PointerMomentum" \/ lstate = "MomentumRetouch"

\* An ordinary one-finger movement and a glide never go on together, also when
\* the listener took the touch for an ordinary one because it believed, on a
\* stale report, that inertia was over (touchpad.rs:459, 503).
MoveStopsInertia ==
  CaughtUp /\ lstate = "OneFingerMove" => mode # "PointerMomentum"

\* A touch that the listener accepted as a stop touch and whose confirm timer
\* has finished has stopped inertia, if the finger is still down
\* (touchpad.rs:478-500, 884-891).
RetouchStops ==
  /\ CaughtUp
  /\ lstate = "MomentumRetouch"
  /\ \A tm \in timers : tm.token # curToken
  => mode # "PointerMomentum"

\* From a click of the pad or a second finger on it until the next touch,
\* nothing glides: the gesture stopped the inertia it met, and the lift of its
\* touch starts none, although a lift handled before it may have
\* (touchpad.rs:513-516, 611-618, 619-632).  What the kernel had queued when
\* the pad is unplugged is lost, a gesture too.
NoInertiaAfterGesture ==
  CaughtUp /\ gesture /\ ~unplugged => mode # "PointerMomentum"

\* The user gets the touchpad back: with no finger on it a grab ends, also
\* when the kernel refused an earlier attempt to give it up
\* (touchpad.rs:316, 379, 654, 665).
GrabReleased == (grabbed /\ ~finger) ~> (~grabbed \/ finger)

\* When the hardware goes away the engine returns, which it does only after
\* every thread that holds a Sender has let it go, so that main() can join its
\* threads and the process ends (main.rs:170-225, touchpad.rs:395-398,
\* momentum.rs:45-50, 155-158).
ProcessEnds == unplugged ~> (mode = "Exited" /\ lpc = "exit" /\ buttonPc = "exit")

=============================================================================
