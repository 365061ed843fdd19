----------------------------- MODULE DriverView -----------------------------
(***************************************************************************)
(* The daemon together with the other reader of the touchpad: the desktop's *)
(* own driver, from which the daemon hides touches with EVIOCGRAB.  The    *)
(* kernel gives an event to the driver if the pad is not grabbed when the  *)
(* event happens, whatever the daemon makes of it later.                   *)
(***************************************************************************)
EXTENDS Daemon

VARIABLES
  landing,   \* the driver has seen the landing of the last touch
  rest,      \* the driver has seen a later event of that touch
  prompt     \* the listener was done with all earlier touches when it began

driverVars == <<landing, rest, prompt>>

DriverInit == Init /\ landing = FALSE /\ rest = FALSE /\ prompt = FALSE

\* Nothing is left to read, to handle or to carry out of the touches so far.
NoBacklog == pending = <<>> /\ batch = <<>> /\ grabActions = <<>>

\* The kernel gives the event of the user's step to the driver, or does not.
Delivers ==
  IF finger' /\ ~finger
  THEN landing' = ~grabbed /\ rest' = FALSE /\ prompt' = NoBacklog
  ELSE /\ rest' = (rest \/ (inputs' > inputs /\ ~grabbed))
       /\ UNCHANGED <<landing, prompt>>

DriverNext ==
  \/ User /\ Delivers
  \/ /\ \/ UserButton \/ Tick \/ ListenerThread \/ ButtonThread
        \/ (\E tm \in timers : TimerThread(tm)) \/ EngineThread \/ Exited
     /\ UNCHANGED driverVars

DriverSpec == DriverInit /\ [][DriverNext]_<<vars, driverVars>>

-----------------------------------------------------------------------------
\* A touch that the daemon has accepted as a stop touch and whose landing the
\* driver did not see stays hidden for as long as it lasts: neither a report
\* that the glide has ended, however late it is read, nor the safety net shows
\* the driver a finger in the middle of a touch (README.md:52-55;
\* touchpad.rs:366, 387, 459, 643-663, 928).  A listener that still had a
\* touch before it to deal with promises nothing: it may let go of the grab
\* on a report about that touch.
StopTouchHidden ==
  /\ ioctlFailures = 0 /\ prompt /\ lpc # "exit"
  /\ lstate = "MomentumRetouch" /\ ~landing
  => ~rest

\* The other way round: a touch whose landing the driver has seen is not taken
\* from it before the lift, whatever the listener comes to believe meanwhile,
\* so the driver is not left with a finger that never lifts
\* (touchpad.rs:459, 503-512, 530, 928).
SeenTouchStaysSeen ==
  ioctlFailures = 0 /\ prompt /\ landing /\ finger => ~grabbed

=============================================================================
