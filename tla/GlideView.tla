----------------------------- MODULE GlideView ------------------------------
(***************************************************************************)
(* The daemon with a record of what may have stopped the last glide.  Four *)
(* kinds of step send Stop, and two of them some time after they decided   *)
(* to (a confirm timer past its check, the button thread past its flag);   *)
(* the message does not say which touch it is about.  The variables below  *)
(* are read by no step of the daemon.                                      *)
(***************************************************************************)
EXTENDS Daemon

VARIABLES
  stands,    \* since the last StartPointer nothing happened that is to stop a
             \* glide, and no older Stop was still to be sent then
  landedAt,  \* time stamp of the landing of the stop touch in progress
  takenAt    \* when the listener took that landing up

glideVars == <<stands, landedAt, takenAt>>

GlideInit == Init /\ stands = FALSE /\ landedAt = 0 /\ takenAt = 0

StopTouchStep ==
  IF lstate' # "MomentumRetouch" THEN landedAt' = 0 /\ takenAt' = 0
  ELSE IF lstate = "MomentumRetouch" THEN UNCHANGED <<landedAt, takenAt>>
  ELSE landedAt' = now /\ takenAt' = clock

\* Somebody has decided to send Stop and has yet to do it.
StopUnderWay == buttonPc = "stop" \/ \E tm \in timers : tm.phase = "confirmed"

\* The stop touch in progress has been there for as long as it takes to stop a
\* glide, counted from when the listener learnt of it.
Rests == lstate = "MomentumRetouch" /\ clock >= takenAt + StopTouch

Handled(kind) == Handles(kind) /\ (lpc' # lpc \/ batch' # batch)

\* A step that tells the daemon, or by which it can tell, that no glide is
\* wanted: an ordinary touch, a click, a further finger, a stop touch that
\* rests, or the lift of one that had lasted by its time stamps.
CallsForStop ==
  \/ Handled("down") /\ lstate' = "OneFingerMove"
  \/ Handled("click") \/ Handled("multi")
  \/ presses' < presses
  \/ Handled("up") /\ lstate = "MomentumRetouch" /\ now >= landedAt + StopTouch
  \/ Rests'

GlideStep ==
  /\ StopTouchStep
  /\ stands' = IF chan' = Append(chan, "StartPointer")
               THEN ~StopUnderWay
               ELSE stands /\ ~CallsForStop

GlideNext == Next /\ GlideStep

GlideSpec == GlideInit /\ [][GlideNext]_<<vars, glideVars>>

-----------------------------------------------------------------------------
\* Nothing stops a glide that nobody meant to stop: as long as there has been
\* no touch but stop touches that were lifted in time, and no click or further
\* finger, nothing follows the last StartPointer to the engine.  The timer of
\* a touch that was lifted, or became a gesture, before its sleep was over
\* finds another token, also when a later touch is down by then, and no report
\* or token that is late makes a lift send Stop or forward motion
\* (touchpad.rs:415-424, 487-500, 555, 584-588, 622-626, 884-890).
GlideIsLeftAlone ==
  stands => chan = <<>> \/ chan[Len(chan)] = "StartPointer"

=============================================================================
