------------------------------ MODULE Listener ------------------------------
(***************************************************************************)
(* run_listener (src/touchpad.rs): the thread that follows the touchpad,   *)
(* decides when inertia starts and which later touch stops it, and holds   *)
(* the exclusive grab of the device meanwhile.                             *)
(*                                                                         *)
(* One iteration of its loop is                                            *)
(*                                                                         *)
(*   "top"     drain the status channel, then release a stale grab;        *)
(*   "fetch"   read queued events (or sleep and start over);               *)
(*   "events"  handle the batch, event by event;                           *)
(*   "lifted"  in the handler of a lift, between click_inhibit.swap and    *)
(*             the decision to start;                                      *)
(*   "released" in the handler of a lift, between the load of the stopped  *)
(*             token and the rest;                                         *)
(*   "grabs"   carry out the grab actions collected while handling;        *)
(*   "exit"    the loop has ended.                                         *)
(*                                                                         *)
(* A handler is split where another thread's step in the middle of it can  *)
(* change what it does; elsewhere it is one step.                          *)
(***************************************************************************)
EXTENDS ConfirmTimer, ButtonListener

CONSTANTS
  ArmDelay,          \* RETOUCH_ARM_DELAY_US
  MinTouch,          \* MIN_TOUCH_US
  MaxIoctlFailures   \* bound: EVIOCGRAB calls that fail while the pad is there

ASSUME ListenerAssumption ==
  /\ ArmDelay \in Nat
  /\ MinTouch \in Nat
  /\ MaxIoctlFailures \in Nat

VARIABLES
  lpc,             \* where the thread is, see above
  batch,           \* events fetched and not yet handled
  lstate,          \* ListenerState
  touchStart,      \* touch_start_us
  samples,         \* motion.count(), saturating at the 2 a velocity needs
  clickSeen,       \* click_seen
  awaiting,        \* awaiting_momentum_stop_touch
  armedAfter,      \* momentum_stop_armed_after_us
  retouchStart,    \* retouch_start_us
  curToken,        \* current_retouch_token
  alreadyStopped,  \* already_stopped, a local of the lift handler
  momentumActive,  \* momentum_active
  grabbed,         \* touchpad_grabbed, and the kernel's view of the grab
  ioctlFailures,   \* EVIOCGRAB calls that failed
  grabActions      \* grab_actions of the current batch

listenerVars == <<lpc, batch, lstate, touchStart, samples, clickSeen, awaiting,
                  armedAfter, retouchStart, curToken, alreadyStopped,
                  momentumActive, grabbed, ioctlFailures, grabActions>>

ListenerState == {"Idle", "OneFingerMove", "MomentumRetouch"}
GrabAction    == {"Grab", "Ungrab"}

ListenerTypeOK ==
  /\ lpc \in {"top", "fetch", "events", "lifted", "released", "grabs", "exit"}
  /\ batch \in Seq(Event)
  /\ lstate \in ListenerState
  /\ touchStart \in Nat
  /\ samples \in 0..2
  /\ clickSeen \in BOOLEAN
  /\ awaiting \in BOOLEAN
  /\ armedAfter \in Nat
  /\ retouchStart \in Nat
  /\ curToken \in Nat
  /\ alreadyStopped \in BOOLEAN
  /\ momentumActive \in BOOLEAN
  /\ grabbed \in BOOLEAN
  /\ ioctlFailures \in Nat
  /\ grabActions \in Seq(GrabAction)

ListenerInit ==
  /\ lpc = "top"
  /\ batch = <<>>
  /\ lstate = "Idle"
  /\ touchStart = 0
  /\ samples = 0
  /\ clickSeen = FALSE
  /\ awaiting = FALSE
  /\ armedAfter = 0
  /\ retouchStart = 0
  /\ curToken = 0
  /\ alreadyStopped = FALSE
  /\ momentumActive = FALSE
  /\ grabbed = FALSE
  /\ ioctlFailures = 0
  /\ grabActions = <<>>

\* u64::saturating_sub
SaturatingSub(a, b) == IF a >= b THEN a - b ELSE 0

\* The EVIOCGRAB ioctl that would make `grabbed` equal to `wanted`.  It fails
\* always when the device is gone.
Ioctl(wanted) ==
  \/ ~unplugged /\ grabbed' = wanted /\ UNCHANGED ioctlFailures
  \/ /\ unplugged \/ ioctlFailures < MaxIoctlFailures
     /\ ioctlFailures' = ioctlFailures + 1
     /\ UNCHANGED grabbed

GrabTouchpad ==
  IF grabbed THEN UNCHANGED <<grabbed, ioctlFailures>> ELSE Ioctl(TRUE)

UngrabTouchpad ==
  IF grabbed THEN Ioctl(FALSE) ELSE UNCHANGED <<grabbed, ioctlFailures>>

\* Mutant of ReleaseStaleGrab: the safety net is not there.
ReleaseNoStaleGrab == UNCHANGED <<grabbed, ioctlFailures, awaiting>>

\* release_stale_grab, and what its two callers do when it returns true.
ReleaseStaleGrab ==
  IF grabbed /\ ~momentumActive /\ lstate # "MomentumRetouch"
  THEN UngrabTouchpad /\ awaiting' = FALSE
  ELSE UNCHANGED <<grabbed, ioctlFailures, awaiting>>

\* retouch_is_stopped
RetouchIsStopped == curToken # 0 /\ stoppedToken = curToken

(***************************************************************************)
(* The top of the loop.                                                    *)
(***************************************************************************)
\* Mutant of EngineActive: a glide that the listener had given up is grabbed
\* again when the engine reports it.
EngineActiveGrabs ==
  /\ lpc = "top"
  /\ status # <<>>
  /\ Head(status) = "PointerActive"
  /\ status' = Tail(status)
  /\ momentumActive' = TRUE
  /\ GrabTouchpad
  /\ UNCHANGED <<lpc, batch, lstate, touchStart, samples, clickSeen, awaiting,
                 armedAfter, retouchStart, curToken, alreadyStopped,
                 grabActions, chan, senders, statusOpen, timerVars,
                 buttonVars, deviceVars>>

EngineActive ==
  /\ lpc = "top"
  /\ status # <<>>
  /\ Head(status) = "PointerActive"
  /\ status' = Tail(status)
  /\ momentumActive' = TRUE
  /\ UNCHANGED <<lpc, batch, lstate, touchStart, samples, clickSeen, awaiting,
                 armedAfter, retouchStart, curToken, alreadyStopped, grabbed,
                 ioctlFailures, grabActions, chan, senders, statusOpen,
                 timerVars, buttonVars, deviceVars>>

\* Mutant of GiveUpTouchpad: also while a stop touch is in progress.
GiveUpTouchpadAlways == awaiting' = FALSE /\ UngrabTouchpad

\* A stop touch in progress keeps the touchpad grabbed until it is released.
GiveUpTouchpad ==
  IF lstate # "MomentumRetouch"
  THEN awaiting' = FALSE /\ UngrabTouchpad
  ELSE UNCHANGED <<awaiting, grabbed, ioctlFailures>>

EngineIdle ==
  /\ lpc = "top"
  /\ status # <<>>
  /\ Head(status) = "PointerIdle"
  /\ status' = Tail(status)
  /\ momentumActive' = FALSE
  /\ GiveUpTouchpad
  /\ UNCHANGED <<lpc, batch, lstate, touchStart, samples, clickSeen,
                 armedAfter, retouchStart, curToken, alreadyStopped,
                 grabActions, chan, senders, statusOpen, timerVars,
                 buttonVars, deviceVars>>

\* Nothing more in the status channel.
StatusDrained ==
  /\ lpc = "top"
  /\ status = <<>>
  /\ ReleaseStaleGrab
  /\ lpc' = "fetch"
  /\ UNCHANGED <<batch, lstate, touchStart, samples, clickSeen, armedAfter,
                 retouchStart, curToken, alreadyStopped, momentumActive,
                 grabActions, channelVars, timerVars, buttonVars, deviceVars>>

\* WouldBlock: sleep 2 ms and start over.
FetchNothing ==
  /\ lpc = "fetch"
  /\ ~unplugged
  /\ pending = <<>>
  /\ lpc' = "top"
  /\ UNCHANGED <<batch, lstate, touchStart, samples, clickSeen, awaiting,
                 armedAfter, retouchStart, curToken, alreadyStopped,
                 momentumActive, grabbed, ioctlFailures, grabActions,
                 channelVars, timerVars, buttonVars, deviceVars>>

\* fetch_events returns what one read of the device has room for: the oldest
\* of the queued events, or all of them.
FetchEvents ==
  /\ lpc = "fetch"
  /\ ~unplugged
  /\ \E n \in 1 .. Len(pending) :
       /\ batch' = SubSeq(pending, 1, n)
       /\ pending' = SubSeq(pending, n + 1, Len(pending))
  /\ lpc' = "events"
  /\ UNCHANGED <<lstate, touchStart, samples, clickSeen, awaiting, armedAfter,
                 retouchStart, curToken, alreadyStopped, momentumActive,
                 grabbed, ioctlFailures, grabActions, channelVars, timerVars,
                 buttonVars, clock, finger, downAt, gesture, clicked, inputs,
                 unplugged>>

\* The stream ended: leave the loop.  Whatever the last ungrab_touchpad
\* returns, returning closes the device and drops both channel ends.
StreamEnds ==
  /\ lpc = "fetch"
  /\ unplugged
  /\ lpc' = "exit"
  /\ grabbed' = FALSE
  /\ senders' = senders - 1
  /\ statusOpen' = FALSE
  /\ UNCHANGED <<batch, lstate, touchStart, samples, clickSeen, awaiting,
                 armedAfter, retouchStart, curToken, alreadyStopped,
                 momentumActive, ioctlFailures, grabActions, chan, status,
                 timerVars, buttonVars, deviceVars>>

(***************************************************************************)
(* Event handlers.                                                         *)
(***************************************************************************)

\* The next event of the batch is of this kind, and `now` is its time stamp.
Handles(kind) == lpc = "events" /\ batch # <<>> /\ Head(batch).kind = kind
now == Head(batch).ts

\* ABS_X / ABS_Y
PointerMoves ==
  /\ Handles("move")
  /\ batch' = Tail(batch)
  /\ IF lstate = "MomentumRetouch" /\ RetouchIsStopped
     THEN Send("ContinuePointer")
     ELSE UNCHANGED chan
  /\ samples' = IF lstate = "OneFingerMove" /\ samples < 2
                THEN samples + 1 ELSE samples
  /\ UNCHANGED <<lpc, lstate, touchStart, clickSeen, awaiting, armedAfter,
                 retouchStart, curToken, alreadyStopped, momentumActive,
                 grabbed, ioctlFailures, grabActions, status, senders,
                 statusOpen, timerVars, buttonVars, deviceVars>>

\* The touch that has just begun is to be judged as one that stops inertia.
IsRetouch    == awaiting \/ (grabbed /\ momentumActive)
RetouchArmed == IF awaiting THEN armedAfter ELSE now

\* BTN_TOUCH 1 too soon after the lift that started inertia
IgnoreEarlyRetouch ==
  /\ Handles("down")
  /\ IsRetouch
  /\ now < RetouchArmed
  /\ batch' = Tail(batch)
  /\ UNCHANGED <<lpc, lstate, touchStart, samples, clickSeen, awaiting,
                 armedAfter, retouchStart, curToken, alreadyStopped,
                 momentumActive, grabbed, ioctlFailures, grabActions,
                 channelVars, timerVars, buttonVars, deviceVars>>

\* BTN_TOUCH 1 while inertia runs
BeginRetouch ==
  /\ Handles("down")
  /\ IsRetouch
  /\ now >= RetouchArmed
  /\ batch' = Tail(batch)
  /\ retouchStart' = now
  /\ activeToken' = activeToken + 1
  /\ curToken' = activeToken + 1
  /\ ArmTimer(activeToken + 1)
  /\ awaiting' = FALSE
  /\ lstate' = "MomentumRetouch"
  /\ UNCHANGED <<lpc, touchStart, samples, clickSeen, armedAfter,
                 alreadyStopped, momentumActive, grabbed, ioctlFailures,
                 grabActions, chan, status, statusOpen, stoppedToken,
                 buttonVars, deviceVars>>

\* BTN_TOUCH 1 otherwise: an ordinary touch, which also stops inertia
BeginMove ==
  /\ Handles("down")
  /\ ~IsRetouch
  /\ batch' = Tail(batch)
  /\ Send("Stop")
  /\ lstate' = "OneFingerMove"
  /\ touchStart' = now
  /\ clickSeen' = FALSE
  /\ clickInhibit' = FALSE
  /\ samples' = 1
  /\ UNCHANGED <<lpc, awaiting, armedAfter, retouchStart, curToken,
                 alreadyStopped, momentumActive, grabbed, ioctlFailures,
                 grabActions, status, senders, statusOpen, timerVars,
                 buttonPc, presses, pressed, deviceVars>>

\* BTN_TOUCH 0 with nothing in progress
IgnoreLift ==
  /\ Handles("up")
  /\ lstate = "Idle"
  /\ batch' = Tail(batch)
  /\ UNCHANGED <<lpc, lstate, touchStart, samples, clickSeen, awaiting,
                 armedAfter, retouchStart, curToken, alreadyStopped,
                 momentumActive, grabbed, ioctlFailures, grabActions,
                 channelVars, timerVars, buttonVars, deviceVars>>

\* Mutant of ClickedMeanwhile: a lift no longer asks for clicks.
ClickForgotten == FALSE

\* A click seen on this node or reported by the button thread
ClickedMeanwhile == clickSeen \/ clickInhibit

\* BTN_TOUCH 0 after a movement: consume click_inhibit; a click on either
\* node rules inertia out.
EndMove ==
  /\ Handles("up")
  /\ lstate = "OneFingerMove"
  /\ clickInhibit' = FALSE
  /\ IF ClickedMeanwhile
     THEN batch' = Tail(batch) /\ lstate' = "Idle" /\ UNCHANGED lpc
     ELSE lpc' = "lifted" /\ UNCHANGED <<batch, lstate>>
  /\ UNCHANGED <<touchStart, samples, clickSeen, awaiting, armedAfter,
                 retouchStart, curToken, alreadyStopped, momentumActive,
                 grabbed, ioctlFailures, grabActions, channelVars, timerVars,
                 buttonPc, presses, pressed, deviceVars>>

\* maybe_start_pointer returns true.  Distance and speed are not modelled
\* here: a touch that lasted long enough and left two samples may qualify.
StartMomentum ==
  /\ lpc = "lifted"
  /\ SaturatingSub(now, touchStart) >= MinTouch
  /\ samples = 2
  /\ Send("StartPointer")
  /\ momentumActive' = TRUE
  /\ awaiting' = TRUE
  /\ armedAfter' = now + ArmDelay
  /\ grabActions' = Append(grabActions, "Grab")
  /\ lstate' = "Idle"
  /\ batch' = Tail(batch)
  /\ lpc' = "events"
  /\ UNCHANGED <<touchStart, samples, clickSeen, retouchStart, curToken,
                 alreadyStopped, grabbed, ioctlFailures, status, senders,
                 statusOpen, timerVars, buttonVars, deviceVars>>

\* maybe_start_pointer returns false, for one of its reasons.
RejectMomentum ==
  /\ lpc = "lifted"
  /\ lstate' = "Idle"
  /\ batch' = Tail(batch)
  /\ lpc' = "events"
  /\ UNCHANGED <<touchStart, samples, clickSeen, awaiting, armedAfter,
                 retouchStart, curToken, alreadyStopped, momentumActive,
                 grabbed, ioctlFailures, grabActions, channelVars, timerVars,
                 buttonVars, deviceVars>>

\* BTN_TOUCH 0 of a retouch: load the stopped token ...
EndRetouch ==
  /\ Handles("up")
  /\ lstate = "MomentumRetouch"
  /\ alreadyStopped' = RetouchIsStopped
  /\ lpc' = "released"
  /\ UNCHANGED <<batch, lstate, touchStart, samples, clickSeen, awaiting,
                 armedAfter, retouchStart, curToken, momentumActive, grabbed,
                 ioctlFailures, grabActions, channelVars, timerVars,
                 buttonVars, deviceVars>>

\* ... then retire the token and finish in one of three ways.
ReleaseRetouch ==
  /\ lpc = "released"
  /\ activeToken' = activeToken + 1
  /\ curToken' = 0
  /\ alreadyStopped' = FALSE
  /\ lstate' = "Idle"
  /\ batch' = Tail(batch)
  /\ lpc' = "events"
  /\ UNCHANGED <<touchStart, samples, clickSeen, retouchStart, grabbed,
                 ioctlFailures, status, senders, statusOpen, timers,
                 buttonVars, deviceVars>>

ShortRetouch == SaturatingSub(now, retouchStart) < StopTouch

\* Mutant of ReleaseShort: rearms whether or not inertia still runs.
ReleaseShortRearming ==
  /\ ReleaseRetouch
  /\ ShortRetouch /\ ~alreadyStopped
  /\ awaiting' = TRUE
  /\ armedAfter' = now
  /\ UNCHANGED <<momentumActive, grabActions, chan, stoppedToken>>

\* too short: inertia goes on, and the next touch counts at once
ReleaseShort ==
  /\ ReleaseRetouch
  /\ ShortRetouch /\ ~alreadyStopped
  /\ awaiting' = (awaiting \/ momentumActive)
  /\ armedAfter' = IF momentumActive THEN now ELSE armedAfter
  /\ UNCHANGED <<momentumActive, grabActions, chan, stoppedToken>>

\* the confirm timer has already stopped inertia
ReleaseAfterStop ==
  /\ ReleaseRetouch
  /\ alreadyStopped
  /\ momentumActive' = FALSE
  /\ awaiting' = FALSE
  /\ grabActions' = Append(grabActions, "Ungrab")
  /\ UNCHANGED <<armedAfter, chan, stoppedToken>>

\* long enough, and the timer has not said so yet
ReleaseConfirmed ==
  /\ ReleaseRetouch
  /\ ~ShortRetouch /\ ~alreadyStopped
  /\ Send("Stop")
  /\ stoppedToken' = curToken
  /\ momentumActive' = FALSE
  /\ awaiting' = FALSE
  /\ grabActions' = Append(grabActions, "Ungrab")
  /\ UNCHANGED armedAfter

\* BTN_LEFT, BTN_RIGHT or BTN_MIDDLE pressed on the touchpad node itself
PadClick ==
  /\ Handles("click")
  /\ batch' = Tail(batch)
  /\ clickSeen' = TRUE
  /\ clickInhibit' = TRUE
  /\ Send("Stop")
  /\ UNCHANGED <<lpc, lstate, touchStart, samples, awaiting, armedAfter,
                 retouchStart, curToken, alreadyStopped, momentumActive,
                 grabbed, ioctlFailures, grabActions, status, senders,
                 statusOpen, timerVars, buttonPc, presses, pressed,
                 deviceVars>>

\* BTN_TOOL_DOUBLETAP (or more fingers): the touch is a gesture
Multitouch ==
  /\ Handles("multi")
  /\ batch' = Tail(batch)
  /\ clickSeen' = TRUE
  /\ activeToken' = activeToken + 1
  /\ curToken' = 0
  /\ lstate' = "Idle"
  /\ Send("Stop")
  /\ UNCHANGED <<lpc, touchStart, samples, awaiting, armedAfter, retouchStart,
                 alreadyStopped, momentumActive, grabbed, ioctlFailures,
                 grabActions, status, senders, statusOpen, stoppedToken,
                 timers, buttonVars, deviceVars>>

(***************************************************************************)
(* The end of the loop.                                                    *)
(***************************************************************************)
BatchDone ==
  /\ lpc = "events"
  /\ batch = <<>>
  /\ clickSeen' = (clickSeen \/ lstate = "MomentumRetouch")
  /\ lpc' = "grabs"
  /\ UNCHANGED <<batch, lstate, touchStart, samples, awaiting, armedAfter,
                 retouchStart, curToken, alreadyStopped, momentumActive,
                 grabbed, ioctlFailures, grabActions, channelVars, timerVars,
                 buttonVars, deviceVars>>

ApplyGrabAction ==
  /\ lpc = "grabs"
  /\ grabActions # <<>>
  /\ IF Head(grabActions) = "Grab" THEN GrabTouchpad ELSE UngrabTouchpad
  /\ grabActions' = Tail(grabActions)
  /\ UNCHANGED <<lpc, batch, lstate, touchStart, samples, clickSeen, awaiting,
                 armedAfter, retouchStart, curToken, alreadyStopped,
                 momentumActive, channelVars, timerVars, buttonVars,
                 deviceVars>>

LoopAgain ==
  /\ lpc = "grabs"
  /\ grabActions = <<>>
  /\ ReleaseStaleGrab
  /\ lpc' = "top"
  /\ UNCHANGED <<batch, lstate, touchStart, samples, clickSeen, armedAfter,
                 retouchStart, curToken, alreadyStopped, momentumActive,
                 grabActions, channelVars, timerVars, buttonVars, deviceVars>>

ListenerStep ==
  \/ EngineActive \/ EngineIdle \/ StatusDrained
  \/ FetchNothing \/ FetchEvents \/ StreamEnds
  \/ PointerMoves \/ IgnoreEarlyRetouch \/ BeginRetouch \/ BeginMove
  \/ IgnoreLift \/ EndMove \/ StartMomentum \/ RejectMomentum
  \/ EndRetouch \/ ReleaseShort \/ ReleaseAfterStop \/ ReleaseConfirmed
  \/ PadClick \/ Multitouch
  \/ BatchDone \/ ApplyGrabAction \/ LoopAgain

=============================================================================
