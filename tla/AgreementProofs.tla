--------------------------- MODULE AgreementProofs ---------------------------
(***************************************************************************)
(* Listener and engine come to agree, for every value of the constants:    *)
(* StatusAgrees, GrabOnlyDuringInertia, MoveStopsInertia, RetouchStops and *)
(* NoInertiaAfterGesture.                                                  *)
(*                                                                         *)
(* What the listener believes counts only once it has read every report,   *)
(* and what the engine does only once it has taken every message; so the   *)
(* invariants speak of the belief after the reports in the queue, and of   *)
(* the engine after the messages in the queue.                             *)
(***************************************************************************)
EXTENDS TokenProofs

\* Touches that have stopped inertia, or will by a timer that is not done
RestInv ==
  /\ lpc = "released" /\ alreadyStopped => EndQuiet
  /\ lstate = "OneFingerMove" => EndQuiet
  /\ Retouching =>
       /\ curToken = activeToken /\ curToken # 0
       /\ \/ EndQuiet
          \/ \E tm \in timers : tm.token = curToken /\ tm.phase # "sent"

\* No message in the queue calls for a report.
OnlyMotion == \A i \in 1..Len(chan) : chan[i] = "ContinuePointer"

\* What the listener believes once it has read the reports in the queue
Belief ==
  IF status = <<>> THEN momentumActive
                   ELSE status[Len(status)] = "PointerActive"

ReportInv ==
  /\ statusOpen <=> lpc # "exit"
  /\ statusOpen /\ OnlyMotion => (Belief <=> mode = "PointerMomentum")

\* Before it reads events the listener has let go of a stale grab.
FetchInv ==
  lpc = "fetch" /\ grabbed /\ ioctlFailures = 0
    => momentumActive \/ lstate = "MomentumRetouch"

-----------------------------------------------------------------------------
\* Only a lift that starts inertia takes the engine's rest away.
LEMMA QuietKept ==
  ASSUME Typed, TokenInv, [Next]_vars, EndQuiet
  PROVE  EndQuiet' \/ (ListenerThread /\ StartMomentum)
  <1>1. ASSUME NEW m \in MomentumMessage \ {"StartPointer"}, Send(m), mode' = mode
        PROVE  EndQuiet'
    BY <1>1, SendKeeps DEF TokenInv
  <1>2. ASSUME chan' = chan, mode' = "PointerMomentum" => mode = "PointerMomentum"
        PROVE  EndQuiet'
    BY <1>2, QueueKept
  <1>3. CASE ListenerThread
    <2>1. mode' = mode
      BY <1>3 DEF ListenerThread, engineVars
    <2>2. CASE \/ EngineActive \/ EngineIdle \/ StatusDrained \/ FetchNothing
               \/ FetchEvents \/ StreamEnds \/ BatchDone \/ ApplyGrabAction
               \/ LoopAgain \/ IgnoreEarlyRetouch \/ IgnoreLift \/ EndRetouch
               \/ EndMove \/ RejectMomentum \/ BeginRetouch \/ ReleaseShort
               \/ ReleaseAfterStop
      <3>1. chan' = chan
        BY <2>2 DEF EngineActive, EngineIdle, StatusDrained, FetchNothing,
                    FetchEvents, StreamEnds, BatchDone, ApplyGrabAction,
                    LoopAgain, IgnoreEarlyRetouch, IgnoreLift, EndRetouch,
                    EndMove, RejectMomentum, BeginRetouch, ReleaseShort,
                    ReleaseAfterStop, channelVars
      <3> QED
        BY <1>2, <2>1, <3>1
    <2>3. CASE PointerMoves \/ BeginMove \/ ReleaseConfirmed \/ PadClick
               \/ Multitouch
      <3>1. chan' = chan \/ Send("Stop") \/ Send("ContinuePointer")
        BY <2>3 DEF PointerMoves, BeginMove, ReleaseConfirmed, PadClick,
                    Multitouch
      <3> QED
        BY <1>1, <1>2, <2>1, <3>1 DEF MomentumMessage
    <2> QED
      BY <1>3, <2>2, <2>3 DEF ListenerThread, ListenerStep
  <1>4. CASE ButtonThread
    <2>1. mode' = mode /\ (chan' = chan \/ Send("Stop"))
      BY <1>4 DEF ButtonThread, ButtonStep, TakePress, PressSendStop,
                  ButtonStreamEnds, channelVars, engineVars
    <2> QED
      BY <1>1, <1>2, <2>1 DEF MomentumMessage
  <1>5. CASE \E tm \in timers : TimerThread(tm)
    <2>1. mode' = mode /\ (chan' = chan \/ Send("Stop"))
      BY <1>5 DEF TimerThread, TimerStep, TimerStale, TimerConfirm,
                  TimerSendStop, TimerPublish, channelVars, engineVars
    <2> QED
      BY <1>1, <1>2, <2>1 DEF MomentumMessage
  <1>6. CASE EngineThread
    <2>1. ASSUME NEW m \in MomentumMessage, Receives(m),
                 mode' = "PointerMomentum" <=> m = "StartPointer"
          PROVE  EndQuiet'
      BY <2>1, ReceiveKeeps DEF TokenInv, Receives
    <2>2. CASE ReceiveStart \/ ReceiveStop \/ ReceiveContinue
      BY <2>1, <2>2 DEF ReceiveStart, ReceiveStop, ReceiveContinue, Settle,
                        MomentumMessage, engineVars
    <2>3. CASE Timeout \/ GlideOn \/ GlideEnds \/ Disconnected
      BY <1>2, <2>3 DEF Timeout, GlideOn, GlideEnds, Disconnected, Settle,
                        channelVars
    <2> QED
      BY <1>6, <2>2, <2>3 DEF EngineThread, EngineStep
  <1>7. CASE User \/ UserButton \/ Tick \/ Exited \/ UNCHANGED vars
    <2>1. UNCHANGED <<chan, mode>>
      BY <1>7 DEF User, UserButton, PressButton, Tick, Exited, vars,
                  channelVars, engineVars
    <2> QED
      BY <1>2, <2>1
  <1> QED
    BY <1>3, <1>4, <1>5, <1>6, <1>7 DEF Next

-----------------------------------------------------------------------------
\* A stop touch that goes on keeps its token; its timer keeps it, too, until
\* it has sent its Stop.
LEMMA TimerKept ==
  ASSUME Typed, TimersDistinct, TokenInv, RestInv, Retouching,
         NEW tm \in timers, TimerThread(tm), EndQuiet => EndQuiet'
  PROVE  \/ EndQuiet'
         \/ \E t \in timers' : t.token = curToken /\ t.phase # "sent"
  <1>1. CASE EndQuiet
    BY <1>1
  <1>2. ASSUME NEW t \in timers, t.token = curToken, t.phase # "sent"
        PROVE  \/ EndQuiet'
               \/ \E u \in timers' : u.token = curToken /\ u.phase # "sent"
    <2>1. curToken = activeToken /\ tm \in Timer
      BY DEF RestInv, Typed, TimerTypeOK
    <2>2. CASE tm # t
      <3>1. t \in timers'
        BY <2>2 DEF TimerThread, TimerStep, TimerStale, TimerConfirm,
                    TimerSendStop, TimerPublish, Moved
      <3> QED
        BY <1>2, <3>1
    <2>3. CASE tm = t
      <3>1. CASE TimerConfirm(tm)
        <4> DEFINE u == [tm EXCEPT !.phase = "confirmed"]
        <4>1. u.token = tm.token /\ u.phase = "confirmed"
          BY <2>1 DEF Timer
        <4>2. u \in timers'
          BY <3>1 DEF TimerConfirm, Moved
        <4> HIDE DEF u
        <4> QED
          BY <1>2, <2>3, <4>1, <4>2
      <3>2. CASE TimerSendStop(tm)
        <4>1. Send("Stop") /\ mode' = mode
          BY <3>2 DEF TimerSendStop, TimerThread, engineVars
        <4> QED
          BY <4>1, SendKeeps DEF TokenInv, MomentumMessage
      <3>3. ~TimerStale(tm) /\ ~TimerPublish(tm)
        BY <1>2, <2>1, <2>3 DEF TimerStale, TimerPublish
      <3> QED
        BY <3>1, <3>2, <3>3 DEF TimerThread, TimerStep
    <2> QED
      BY <2>2, <2>3
  <1> QED
    BY <1>1, <1>2 DEF RestInv

LEMMA RestListener ==
  ASSUME Typed, TouchInv, TokenInv, RestInv, LoopInv, ListenerThread,
         EndQuiet => EndQuiet' \/ StartMomentum
  PROVE  RestInv'
  <1> USE DEF RestInv, Retouching
  <1>1. CASE EngineActive \/ EngineIdle \/ StatusDrained \/ FetchNothing
             \/ FetchEvents \/ StreamEnds \/ BatchDone \/ ApplyGrabAction
             \/ LoopAgain \/ IgnoreEarlyRetouch \/ IgnoreLift \/ PointerMoves
             \/ PadClick
    <2>1. /\ UNCHANGED <<lstate, curToken, activeToken, timers>>
          /\ lpc' # "released"
          /\ ~StartMomentum
      BY <1>1 DEF EngineActive, EngineIdle, StatusDrained, FetchNothing,
                  FetchEvents, StreamEnds, BatchDone, ApplyGrabAction,
                  LoopAgain, IgnoreEarlyRetouch, IgnoreLift, PointerMoves,
                  PadClick, Handles, StartMomentum, timerVars
    <2> QED
      BY <2>1
  <1>2. CASE EndMove \/ RejectMomentum
    <2>1. /\ lpc' # "released" /\ lstate' # "MomentumRetouch"
          /\ lstate' = "OneFingerMove" => lstate = "OneFingerMove" /\ lpc # "lifted"
      BY <1>2 DEF EndMove, RejectMomentum, Handles
    <2> QED
      BY <2>1 DEF StartMomentum
  <1>3. CASE BeginMove
    <2>1. /\ Send("Stop") /\ mode' = mode
          /\ lpc' # "released" /\ lstate' = "OneFingerMove"
      BY <1>3 DEF BeginMove, Handles, ListenerThread, engineVars
    <2>2. EndQuiet'
      BY <2>1, SendKeeps DEF TokenInv, MomentumMessage
    <2> QED
      BY <2>1, <2>2
  <1>4. CASE BeginRetouch
    <2>1. /\ lpc' # "released" /\ lstate' = "MomentumRetouch"
          /\ curToken' = activeToken + 1 /\ activeToken' = activeToken + 1
          /\ ArmTimer(activeToken + 1)
          /\ activeToken \in Nat
      BY <1>4 DEF BeginRetouch, Handles, Typed, TimerTypeOK
    <2> DEFINE new == [token |-> activeToken + 1, due |-> clock + StopTouch,
                       phase |-> "asleep"]
    <2>2. new \in timers'
      BY <2>1 DEF ArmTimer
    <2>3. new.token = curToken' /\ new.phase # "sent"
      BY <2>1
    <2> HIDE DEF new
    <2> QED
      BY <2>1, <2>2, <2>3
  <1>5. CASE EndRetouch
    <2>1. /\ UNCHANGED <<lstate, curToken, activeToken, timers>>
          /\ alreadyStopped' = RetouchIsStopped
          /\ ~StartMomentum
      BY <1>5 DEF EndRetouch, Handles, StartMomentum, timerVars
    <2> QED
      BY <2>1 DEF TokenInv
  <1>6. CASE StartMomentum \/ ReleaseShort \/ ReleaseAfterStop
             \/ ReleaseConfirmed \/ Multitouch
    <2>1. lpc' # "released" /\ lstate' = "Idle"
      BY <1>6 DEF StartMomentum, ReleaseShort, ReleaseAfterStop,
                  ReleaseConfirmed, ReleaseRetouch, Multitouch, Handles
    <2> QED
      BY <2>1
  <1> QED
    BY <1>1, <1>2, <1>3, <1>4, <1>5, <1>6 DEF ListenerThread, ListenerStep

LEMMA RestStep ==
  ASSUME Typed, TimersDistinct, LoopInv, TouchInv, TokenInv, RestInv,
         [Next]_vars
  PROVE  RestInv'
  <1>1. CASE ListenerThread
    BY <1>1, QuietKept, RestListener
  <1>2. CASE \E tm \in timers : TimerThread(tm)
    <2>1. PICK tm \in timers : TimerThread(tm)
      BY <1>2
    <2>2. UNCHANGED <<lpc, alreadyStopped, lstate, curToken, activeToken>>
      BY <2>1 DEF TimerThread, TimerStep, TimerStale, TimerConfirm,
                  TimerSendStop, TimerPublish, listenerVars
    <2>3. EndQuiet => EndQuiet'
      BY <2>2, QuietKept DEF StartMomentum, Typed, ListenerTypeOK, LoopInv
    <2>4. Retouching => \/ EndQuiet'
                        \/ \E t \in timers' : t.token = curToken /\ t.phase # "sent"
      BY <2>1, <2>3, TimerKept
    <2> QED
      BY <2>2, <2>3, <2>4 DEF RestInv, Retouching
  <1>3. CASE UNCHANGED <<listenerVars, activeToken, timers>>
    <2>1. UNCHANGED <<lpc, alreadyStopped, lstate, curToken, activeToken, timers>>
      BY <1>3 DEF listenerVars
    <2>2. EndQuiet => EndQuiet'
      BY <2>1, QuietKept DEF StartMomentum
    <2> QED
      BY <2>1, <2>2 DEF RestInv, Retouching
  <1>4. User \/ UserButton \/ Tick \/ ButtonThread \/ EngineThread \/ Exited
            \/ UNCHANGED vars
          => UNCHANGED <<listenerVars, activeToken, timers>>
    BY DEF User, UserButton, Tick, ButtonThread, EngineThread, Exited, vars,
           timerVars
  <1> QED
    BY <1>1, <1>2, <1>3, <1>4 DEF Next

-----------------------------------------------------------------------------
\* Reports join the queue, and are read from it.
LEMMA BeliefSent ==
  ASSUME Typed, NEW s \in EngineStatus, status' = Append(status, s)
  PROVE  Belief' <=> s = "PointerActive"
  <1>1. status' # <<>> /\ status'[Len(status')] = s
    BY DEF Typed
  <1> QED
    BY <1>1 DEF Belief

LEMMA BeliefRead ==
  ASSUME Typed, status # <<>>, status' = Tail(status),
         momentumActive' <=> Head(status) = "PointerActive"
  PROVE  Belief' <=> Belief
  <1>1. status \in Seq(EngineStatus)
    BY DEF Typed
  <1>2. CASE Tail(status) = <<>>
    <2>0. Len(Tail(status)) = 0
      <3>1. Len(Tail(status)) = Len(<<>>)
        BY <1>2, Zenon
      <3> QED
        BY <3>1, SMT
    <2>1. /\ Len(status) \in Nat /\ Len(Tail(status)) = Len(status) - 1
          /\ Len(Tail(status)) = 0 /\ Head(status) = status[1]
      BY <1>1, <2>0, LenProperties, HeadTailProperties
    <2>2. Head(status) = status[Len(status)]
      BY <2>1
    <2> QED
      BY <1>2, <2>2 DEF Belief
  <1>3. CASE Tail(status) # <<>>
    <2>1. Tail(status)[Len(Tail(status))] = status[Len(status)]
      BY <1>1, <1>3
    <2> QED
      BY <1>3, <2>1 DEF Belief
  <1> QED
    BY <1>2, <1>3

\* A message that calls for a report stays in the queue until it is taken.
LEMMA OnlyMotionSent ==
  ASSUME Typed, NEW m \in MomentumMessage, Send(m), OnlyMotion'
  PROVE  OnlyMotion /\ m = "ContinuePointer"
  <1>1. /\ Len(chan) \in Nat /\ Len(chan') = Len(chan) + 1
        /\ chan'[Len(chan) + 1] = m
        /\ \A i \in 1..Len(chan) : chan'[i] = chan[i]
    BY AppendProperties, LenProperties DEF Typed, Send
  <1> QED
    BY <1>1 DEF OnlyMotion

LEMMA OnlyMotionTaken ==
  ASSUME Typed, Receives("ContinuePointer"), OnlyMotion'
  PROVE  OnlyMotion
  <1>0. PICK n \in Nat : n = Len(chan)
    BY LenProperties DEF Typed
  <1>1. /\ n >= 1 /\ Len(chan') = n - 1
        /\ chan[1] = "ContinuePointer"
        /\ \A i \in 1..(n - 1) : chan'[i] = chan[i + 1]
    BY <1>0, HeadTailProperties, LenProperties, EmptySeq DEF Typed, Receives
  <1>2. ASSUME NEW i \in 1..n
        PROVE  chan[i] = "ContinuePointer"
    <2>1. CASE i = 1
      BY <1>1, <2>1
    <2>2. CASE i # 1
      <3>1. i - 1 \in 1..(n - 1) /\ (i - 1) + 1 = i
        BY <2>2
      <3>2. chan'[i - 1] = "ContinuePointer"
        BY <1>1, <3>1 DEF OnlyMotion
      <3> QED
        BY <1>1, <3>1, <3>2
    <2> QED
      BY <2>1, <2>2
  <1> QED
    BY <1>0, <1>2 DEF OnlyMotion

\* Motion alone does not make a resting engine glide, or the other way round.
LEMMA OnlyMotionRests ==
  ASSUME Typed, QueueInv, OnlyMotion, EndQuiet
  PROVE  mode # "PointerMomentum"
  <1>1. Len(chan) \in Nat
    BY LenProperties DEF Typed
  <1>2. CASE Len(chan) = 0
    BY <1>2 DEF EndQuiet, QuietAfter
  <1>3. CASE Len(chan) > 0
    <2>1. 1 \in 1..Len(chan) /\ 1 - 1 = 0
      BY <1>1, <1>3
    <2>2. QuietAfter(0)
      BY <2>1 DEF QueueInv, OnlyMotion
    <2> QED
      BY <2>2 DEF QuietAfter
  <1> QED
    BY <1>1, <1>2, <1>3

-----------------------------------------------------------------------------
\* Steps that tell the engine or the listener nothing
LEMMA ReportKept ==
  ASSUME ReportInv, UNCHANGED <<chan, status, statusOpen, momentumActive>>,
         lpc' = "exit" <=> lpc = "exit",
         mode' = "PointerMomentum" <=> mode = "PointerMomentum"
  PROVE  ReportInv'
  BY DEF ReportInv, OnlyMotion, Belief

\* Steps that send a message
LEMMA ReportSent ==
  ASSUME Typed, ReportInv, NEW m \in MomentumMessage, Send(m),
         UNCHANGED <<status, statusOpen, mode>>,
         lpc' = "exit" <=> lpc = "exit",
         m = "ContinuePointer" => UNCHANGED momentumActive
  PROVE  ReportInv'
  <1>1. CASE OnlyMotion'
    <2>1. OnlyMotion /\ UNCHANGED momentumActive
      BY <1>1, OnlyMotionSent
    <2> QED
      BY <2>1 DEF ReportInv, Belief
  <1>2. CASE ~OnlyMotion'
    BY <1>2 DEF ReportInv
  <1> QED
    BY <1>1, <1>2

LEMMA ReportListener ==
  ASSUME Typed, TokenInv, LoopInv, RestInv, ReportInv, ListenerThread
  PROVE  ReportInv'
  <1>0. mode' = mode
    BY DEF ListenerThread, engineVars
  <1>1. CASE EngineActive \/ EngineIdle
    <2>1. /\ status # <<>> /\ status' = Tail(status)
          /\ momentumActive' <=> Head(status) = "PointerActive"
          /\ UNCHANGED <<chan, statusOpen, lpc>>
      BY <1>1 DEF EngineActive, EngineIdle
    <2>2. Belief' <=> Belief
      BY <2>1, BeliefRead
    <2> QED
      BY <1>0, <2>1, <2>2 DEF ReportInv, OnlyMotion
  <1>2. CASE StatusDrained \/ FetchNothing \/ FetchEvents \/ BatchDone
             \/ ApplyGrabAction \/ LoopAgain \/ IgnoreEarlyRetouch
             \/ BeginRetouch \/ IgnoreLift \/ EndMove \/ RejectMomentum
             \/ EndRetouch \/ ReleaseShort
    <2>1. /\ UNCHANGED <<chan, status, statusOpen, momentumActive>>
          /\ lpc # "exit" /\ lpc' # "exit"
      BY <1>2 DEF StatusDrained, FetchNothing, FetchEvents, BatchDone,
                  ApplyGrabAction, LoopAgain, IgnoreEarlyRetouch, BeginRetouch,
                  IgnoreLift, EndMove, RejectMomentum, EndRetouch,
                  ReleaseShort, ReleaseRetouch, Handles, channelVars
    <2> QED
      BY <1>0, <2>1, ReportKept
  <1>3. CASE StreamEnds
    BY <1>3 DEF StreamEnds, ReportInv
  <1>4. CASE PointerMoves
    <2>1. /\ chan' = chan \/ Send("ContinuePointer")
          /\ UNCHANGED <<status, statusOpen, momentumActive>>
          /\ lpc # "exit" /\ lpc' # "exit"
      BY <1>4 DEF PointerMoves, Handles
    <2> QED
      BY <1>0, <2>1, ReportKept, ReportSent DEF MomentumMessage
  <1>5. CASE BeginMove \/ PadClick \/ Multitouch \/ ReleaseConfirmed
    <2>1. /\ Send("Stop")
          /\ UNCHANGED <<status, statusOpen>>
          /\ lpc # "exit" /\ lpc' # "exit"
      BY <1>5 DEF BeginMove, PadClick, Multitouch, ReleaseConfirmed,
                  ReleaseRetouch, Handles
    <2> QED
      BY <1>0, <2>1, ReportSent DEF MomentumMessage
  <1>6. CASE StartMomentum
    <2>1. /\ Send("StartPointer")
          /\ UNCHANGED <<status, statusOpen>>
          /\ lpc # "exit" /\ lpc' # "exit"
      BY <1>6 DEF StartMomentum
    <2> QED
      BY <1>0, <2>1, ReportSent DEF MomentumMessage
  <1>7. CASE ReleaseAfterStop
    <2>1. /\ UNCHANGED <<chan, status, statusOpen>>
          /\ momentumActive' = FALSE
          /\ lpc # "exit" /\ lpc' # "exit"
          /\ EndQuiet
      BY <1>7 DEF ReleaseAfterStop, ReleaseRetouch, RestInv
    <2>2. ASSUME OnlyMotion', statusOpen'
          PROVE  ~Belief' /\ mode # "PointerMomentum"
      <3>1. OnlyMotion
        BY <2>1, <2>2 DEF OnlyMotion
      <3>2. mode # "PointerMomentum"
        BY <2>1, <3>1, OnlyMotionRests DEF TokenInv
      <3>3. ~Belief
        BY <2>1, <2>2, <3>1, <3>2 DEF ReportInv
      <3> QED
        BY <2>1, <3>2, <3>3 DEF Belief
    <2> QED
      BY <1>0, <2>1, <2>2 DEF ReportInv
  <1> QED
    BY <1>1, <1>2, <1>3, <1>4, <1>5, <1>6, <1>7 DEF ListenerThread, ListenerStep

LEMMA ReportEngine ==
  ASSUME Typed, SendersCounted, TimersDistinct, TokenInv, ReportInv,
         EngineThread
  PROVE  ReportInv'
  <1>0. UNCHANGED <<lpc, momentumActive>>
    BY DEF EngineThread, listenerVars
  <1>1. CASE ReceiveStart
    <2>1. UNCHANGED statusOpen /\ SendStatus("PointerActive")
          /\ mode' = "PointerMomentum"
      BY <1>1 DEF ReceiveStart, Receives
    <2> QED
      BY <1>0, <2>1, BeliefSent DEF SendStatus, EngineStatus, ReportInv
  <1>2. ASSUME Settle, UNCHANGED statusOpen
        PROVE  ReportInv'
    BY <1>0, <1>2, BeliefSent DEF Settle, SendStatus, EngineStatus, ReportInv
  <1>3. CASE ReceiveStop \/ GlideEnds
    BY <1>2, <1>3 DEF ReceiveStop, Receives, GlideEnds
  <1>4. CASE ReceiveContinue
    <2>1. CASE mode = "PointerMomentum"
      BY <1>2, <1>4, <2>1 DEF ReceiveContinue, Receives
    <2>2. CASE mode # "PointerMomentum"
      <3>1. /\ Receives("ContinuePointer")
            /\ UNCHANGED <<status, statusOpen, mode>>
        BY <1>4, <2>2 DEF ReceiveContinue, Receives, engineVars
      <3> QED
        BY <1>0, <3>1, OnlyMotionTaken DEF ReportInv, Belief
    <2> QED
      BY <2>1, <2>2
  <1>5. CASE Timeout \/ GlideOn
    <2>1. UNCHANGED <<chan, status, statusOpen, mode>>
      BY <1>5 DEF Timeout, GlideOn, channelVars
    <2> QED
      BY <1>0, <2>1, ReportKept
  <1>6. CASE Disconnected
    <2>1. UNCHANGED statusOpen /\ senders = 0
      BY <1>6 DEF Disconnected, channelVars
    <2>2. Cardinality(timers) \in Nat
      BY FS_CardinalityType DEF TimersDistinct
    <2>3. lpc = "exit"
      BY <2>1, <2>2 DEF SendersCounted, Alive
    <2> QED
      BY <1>0, <2>1, <2>3 DEF ReportInv
  <1> QED
    BY <1>1, <1>3, <1>4, <1>5, <1>6 DEF EngineThread, EngineStep

LEMMA ReportStep ==
  ASSUME TypeInv, LoopInv, TokenInv, RestInv, ReportInv, [Next]_vars
  PROVE  ReportInv'
  <1> USE DEF TypeInv
  <1>1. CASE ListenerThread
    BY <1>1, ReportListener
  <1>2. CASE EngineThread
    BY <1>2, ReportEngine
  <1>3. CASE ButtonThread \/ \E tm \in timers : TimerThread(tm)
    <2>1. /\ chan' = chan \/ Send("Stop")
          /\ UNCHANGED <<status, statusOpen, mode, lpc, momentumActive>>
      BY <1>3 DEF ButtonThread, ButtonStep, TakePress, PressSendStop,
                  ButtonStreamEnds, TimerThread, TimerStep, TimerStale,
                  TimerConfirm, TimerSendStop, TimerPublish, channelVars,
                  listenerVars, engineVars
    <2> QED
      BY <2>1, ReportKept, ReportSent DEF MomentumMessage
  <1>4. CASE User \/ UserButton \/ Tick \/ Exited \/ UNCHANGED vars
    <2>1. UNCHANGED <<chan, status, statusOpen, mode, lpc, momentumActive>>
      BY <1>4 DEF User, UserButton, PressButton, Tick, Exited, vars,
                  channelVars, listenerVars, engineVars
    <2> QED
      BY <2>1, ReportKept
  <1> QED
    BY <1>1, <1>2, <1>3, <1>4 DEF Next

-----------------------------------------------------------------------------
LEMMA FetchStep ==
  ASSUME TypeInv, FetchInv, [Next]_vars
  PROVE  FetchInv'
  <1>1. ASSUME lpc' = "fetch", ListenerThread
        PROVE  StatusDrained
    BY <1>1 DEF ListenerThread, ListenerStep, EngineActive, EngineIdle,
                FetchNothing, FetchEvents, StreamEnds, PointerMoves,
                IgnoreEarlyRetouch, BeginRetouch, BeginMove, IgnoreLift,
                EndMove, StartMomentum, RejectMomentum, EndRetouch,
                ReleaseShort, ReleaseAfterStop, ReleaseConfirmed,
                ReleaseRetouch, PadClick, Multitouch, BatchDone,
                ApplyGrabAction, LoopAgain, Handles
  <1>2. CASE StatusDrained
    <2>1. /\ grabbed' /\ ioctlFailures' = 0 /\ ~momentumActive
            => lstate = "MomentumRetouch"
      BY <1>2 DEF StatusDrained, ReleaseStaleGrab, UngrabTouchpad, Ioctl,
                  TypeInv, Typed, ListenerTypeOK
    <2> QED
      BY <1>2, <2>1 DEF StatusDrained, FetchInv
  <1>3. CASE UNCHANGED listenerVars
    BY <1>3 DEF listenerVars, FetchInv
  <1>4. ListenerThread \/ UNCHANGED listenerVars
    BY DEF Next, User, UserButton, Tick, ButtonThread, TimerThread,
           EngineThread, Exited, vars
  <1> QED
    BY <1>1, <1>2, <1>3, <1>4 DEF FetchInv

AgreementInv == RestInv /\ ReportInv /\ FetchInv

LEMMA AgreementInit == Init => AgreementInv
  BY DEF Init, ChannelsInit, TimerInit, ListenerInit, EngineInit,
         AgreementInv, RestInv, Retouching, ReportInv, Belief, FetchInv

LEMMA AgreementInvariant == Spec => []AgreementInv
  <1>1. /\ TypeInv /\ GrabInv /\ TouchInv /\ TokenInv /\ AgreementInv
        /\ [Next]_vars
        => AgreementInv'
    BY RestStep, ReportStep, FetchStep DEF TypeInv, GrabInv, AgreementInv
  <1> QED
    BY AgreementInit, TypeInvariant, GrabInvariant, TouchInvariant,
       TokenInvariant, <1>1, PTL DEF Spec

\* With nothing in flight, momentum_active is whether the engine glides
\* (touchpad.rs:359-377, 526, 580, 597; momentum.rs:66, 88, 107, 130, 143,
\* 176, 201, 224).
THEOREM ListenerAgreesWithEngine == Spec => []StatusAgrees
  <1>1. ASSUME TypeInv, ReportInv, chan = <<>>, status = <<>>, statusOpen
        PROVE  momentumActive = (mode = "PointerMomentum")
    <2>1. OnlyMotion /\ (Belief <=> momentumActive)
      BY <1>1 DEF OnlyMotion, Belief
    <2>2. momentumActive <=> mode = "PointerMomentum"
      BY <1>1, <2>1 DEF ReportInv
    <2>3. momentumActive \in BOOLEAN
      BY <1>1 DEF TypeInv, Typed, ListenerTypeOK
    <2> QED
      BY <2>2, <2>3, Zenon
  <1>2. TypeInv /\ AgreementInv => StatusAgrees
    BY <1>1 DEF AgreementInv, StatusAgrees
  <1> QED
    BY <1>2, TypeInvariant, AgreementInvariant, PTL

\* Once everything has been dealt with, the touchpad is grabbed only during a
\* glide or a stop touch, unless the kernel refused to give it up
\* (touchpad.rs:379-387, 654-662, 921-934).
THEOREM GrabMeansInertia == Spec => []GrabOnlyDuringInertia
  <1>1. ASSUME ReportInv, FetchInv, StatusAgrees
        PROVE  GrabOnlyDuringInertia
    BY <1>1 DEF ReportInv, FetchInv, StatusAgrees, GrabOnlyDuringInertia,
                CaughtUp
  <1>2. AgreementInv /\ StatusAgrees => GrabOnlyDuringInertia
    BY <1>1 DEF AgreementInv
  <1> QED
    BY <1>2, AgreementInvariant, ListenerAgreesWithEngine, PTL

LEMMA QuietWhenEmpty ==
  ASSUME EndQuiet, chan = <<>>
  PROVE  mode # "PointerMomentum"
  BY DEF EndQuiet, QuietAfter

\* An ordinary touch has ended the glide, also one that the listener did not
\* know of (touchpad.rs:459, 503).
THEOREM MoveMeansRest == Spec => []MoveStopsInertia
  <1>1. AgreementInv => MoveStopsInertia
    BY QuietWhenEmpty DEF AgreementInv, RestInv, MoveStopsInertia, CaughtUp
  <1> QED
    BY <1>1, AgreementInvariant, PTL

\* A stop touch whose timer is done has ended the glide (touchpad.rs:478-500,
\* 884-891).
THEOREM RetouchMeansRest == Spec => []RetouchStops
  <1>1. AgreementInv => RetouchStops
    BY QuietWhenEmpty DEF AgreementInv, RestInv, Retouching, RetouchStops,
                          CaughtUp
  <1> QED
    BY <1>1, AgreementInvariant, PTL

-----------------------------------------------------------------------------
(***************************************************************************)
(* A gesture leaves the engine at rest.  As long as the listener has yet   *)
(* to read the gesture, no landing is queued behind it; once it has, the   *)
(* engine is to rest, and the lift that is to come cannot start a glide.   *)
(***************************************************************************)
Marks(e) == e.kind \in {"click", "multi"}

NoDown(s) == \A j \in 1..Len(s) : ~IsDown(s, j)

\* A gesture is queued, and no landing behind it.
MarkedLast(s) ==
  \E i \in 1..Len(s) :
    Marks(s[i]) /\ \A j \in 1..Len(s) : i < j => ~IsDown(s, j)

\* The listener has read the gesture.
Settled ==
  /\ NoDown(Queued)
  /\ EndQuiet
  /\ lpc # "lifted"
  /\ lstate = "OneFingerMove" => clickSeen

GestureInv == gesture /\ ~unplugged => MarkedLast(Queued) \/ Settled

LEMMA AppendMarked ==
  ASSUME NEW s \in Seq(Event), NEW e \in Event, e.kind # "down"
  PROVE  /\ Marks(e) => MarkedLast(Append(s, e))
         /\ MarkedLast(s) => MarkedLast(Append(s, e))
         /\ NoDown(s) => NoDown(Append(s, e))
  <1> DEFINE t == Append(s, e)
  <1>1. /\ Len(s) \in Nat /\ Len(t) = Len(s) + 1
        /\ t[Len(s) + 1] = e
        /\ \A i \in 1..Len(s) : t[i] = s[i]
    BY AppendProperties, LenProperties
  <1> HIDE DEF t
  <1>2. ASSUME Marks(e)
        PROVE  MarkedLast(t)
    BY <1>1, <1>2 DEF MarkedLast
  <1>3. ASSUME MarkedLast(s)
        PROVE  MarkedLast(t)
    BY <1>1, <1>3 DEF MarkedLast, IsDown
  <1>4. ASSUME NoDown(s)
        PROVE  NoDown(t)
    BY <1>1, <1>4 DEF NoDown, IsDown
  <1> QED
    BY <1>2, <1>3, <1>4 DEF t

LEMMA TailMarked ==
  ASSUME NEW s \in Seq(Event), s # <<>>
  PROVE  /\ MarkedLast(s) =>
              MarkedLast(Tail(s)) \/ (Marks(s[1]) /\ NoDown(Tail(s)))
         /\ NoDown(s) => NoDown(Tail(s)) /\ ~IsDown(s, 1)
  <1> DEFINE t == Tail(s)
  <1>1. /\ Len(s) \in Nat /\ Len(s) >= 1 /\ Len(t) = Len(s) - 1
        /\ \A i \in 1..Len(t) : t[i] = s[i + 1]
    BY HeadTailProperties, LenProperties, EmptySeq
  <1> HIDE DEF t
  <1>2. ASSUME NoDown(s)
        PROVE  NoDown(t) /\ ~IsDown(s, 1)
    BY <1>1, <1>2 DEF NoDown, IsDown
  <1>3. ASSUME MarkedLast(s)
        PROVE  MarkedLast(t) \/ (Marks(s[1]) /\ NoDown(t))
    <2>1. PICK i \in 1..Len(s) :
            Marks(s[i]) /\ \A j \in 1..Len(s) : i < j => ~IsDown(s, j)
      BY <1>3 DEF MarkedLast
    <2>2. CASE i = 1
      <3>1. NoDown(t)
        BY <1>1, <2>1, <2>2 DEF NoDown, IsDown
      <3> QED
        BY <2>1, <2>2, <3>1
    <2>3. CASE i > 1
      <3>1. i - 1 \in 1..Len(t) /\ t[i - 1] = s[i]
        BY <1>1, <2>3
      <3>2. \A j \in 1..Len(t) : i - 1 < j => ~IsDown(t, j)
        BY <1>1, <2>1 DEF IsDown
      <3> QED
        BY <2>1, <3>1, <3>2 DEF MarkedLast
    <2> QED
      BY <1>1, <2>2, <2>3
  <1> QED
    BY <1>2, <1>3 DEF t

\* The listener keeps the queue as it is, or finishes with its head.
LEMMA QueueConsumed ==
  ASSUME Typed, TouchInv, ListenerThread
  PROVE  /\ UNCHANGED <<gesture, unplugged>>
         /\ \/ Queued' = Queued /\ (lpc' = "lifted" => EndMove)
               /\ UNCHANGED lstate
            \/ /\ batch # <<>> /\ Queued' = Tail(Queued)
               /\ Queued[1] = Head(batch)
               /\ lpc' = "events"
               /\ \/ lpc \in {"lifted", "released"} /\ Head(batch).kind = "up"
                  \/ \E kind \in EventKind : Handles(kind)
  <1> USE DEF EventKind
  <1>1. ASSUME batch # <<>>, batch' = Tail(batch), UNCHANGED pending
        PROVE  Queued' = Tail(Queued) /\ Queued[1] = Head(batch)
    BY <1>1, QueuedHead DEF Queued
  <1>2. CASE EngineActive \/ EngineIdle \/ StatusDrained \/ FetchNothing
             \/ StreamEnds \/ BatchDone \/ ApplyGrabAction \/ LoopAgain
             \/ EndRetouch
    BY <1>2 DEF EngineActive, EngineIdle, StatusDrained, FetchNothing,
                StreamEnds, BatchDone, ApplyGrabAction, LoopAgain, EndRetouch,
                deviceVars, Queued
  <1>3. CASE FetchEvents
    <2>1. batch = <<>>
      BY <1>3 DEF FetchEvents, TouchInv
    <2>2. Queued' = Queued
      BY <1>3, <2>1, Fetched, QueuedTyped DEF Queued
    <2> QED
      BY <1>3, <2>2 DEF FetchEvents
  <1>4. CASE PointerMoves \/ IgnoreEarlyRetouch \/ BeginRetouch \/ BeginMove
             \/ IgnoreLift \/ PadClick \/ Multitouch
    <2>1. /\ \E kind \in EventKind : Handles(kind)
          /\ batch # <<>> /\ batch' = Tail(batch) /\ lpc' = "events"
          /\ UNCHANGED <<pending, gesture, unplugged>>
      BY <1>4 DEF PointerMoves, IgnoreEarlyRetouch, BeginRetouch, BeginMove,
                  IgnoreLift, PadClick, Multitouch, Handles, deviceVars
    <2> QED
      BY <1>1, <2>1
  <1>5. CASE EndMove
    <2>1. /\ Handles("up") /\ batch # <<>> /\ lpc = "events"
          /\ UNCHANGED <<pending, gesture, unplugged>>
          /\ \/ batch' = Tail(batch) /\ lpc' = "events"
             \/ UNCHANGED <<batch, lstate>>
      BY <1>5 DEF EndMove, Handles, deviceVars
    <2>2. CASE batch' = Tail(batch) /\ lpc' = "events"
      BY <1>1, <2>1, <2>2
    <2>3. CASE UNCHANGED <<batch, lstate>>
      BY <1>5, <2>1, <2>3 DEF Queued
    <2> QED
      BY <2>1, <2>2, <2>3
  <1>6. CASE StartMomentum \/ RejectMomentum \/ ReleaseShort
             \/ ReleaseAfterStop \/ ReleaseConfirmed
    <2>1. /\ lpc \in {"lifted", "released"} /\ lpc' = "events"
          /\ batch' = Tail(batch)
          /\ UNCHANGED <<pending, gesture, unplugged>>
      BY <1>6 DEF StartMomentum, RejectMomentum, ReleaseShort,
                  ReleaseAfterStop, ReleaseConfirmed, ReleaseRetouch,
                  deviceVars
    <2>2. batch # <<>> /\ Head(batch).kind = "up"
      BY <2>1 DEF TouchInv
    <2> QED
      BY <1>1, <2>1, <2>2
  <1> QED
    BY <1>2, <1>3, <1>4, <1>5, <1>6 DEF ListenerThread, ListenerStep

\* Only a landing unsettles what a gesture has settled.
LEMMA SettledKept ==
  ASSUME Typed, TouchInv, TokenInv, Settled, ListenerThread
  PROVE  Settled'
  <1>1. EndQuiet' \/ StartMomentum
    BY QuietKept DEF Settled, Next
  <1>2. EndQuiet'
    BY <1>1 DEF StartMomentum, Settled
  <1>3. Queued \in Seq(Event)
    BY QueuedTyped
  <1>4. NoDown(Queued) /\ NoDown(Queued)' /\ ~Handles("down")
    <2>1. CASE Queued' = Queued
      <3>1. ~Handles("down")
        <4>1. ASSUME Handles("down")
              PROVE  Queued # <<>> /\ IsDown(Queued, 1)
          BY <4>1, QueuedHead DEF Handles, IsDown
        <4> QED
          BY <1>3, <4>1, TailMarked DEF Settled
      <3> QED
        BY <2>1, <3>1 DEF Settled, NoDown, IsDown
    <2>2. CASE batch # <<>> /\ Queued' = Tail(Queued) /\ Queued[1] = Head(batch)
      <3>1. Queued # <<>>
        BY <2>2, QueuedHead
      <3>2. NoDown(Tail(Queued)) /\ ~IsDown(Queued, 1)
        BY <1>3, <3>1, TailMarked DEF Settled
      <3> QED
        BY <2>2, <3>2 DEF Settled, NoDown, IsDown, Handles
    <2> QED
      BY <2>1, <2>2, QueueConsumed
  <1>5. /\ lpc' # "lifted"
        /\ lstate' = "OneFingerMove" => clickSeen'
    <2>1. CASE EndMove
      BY <2>1 DEF EndMove, ClickedMeanwhile, Settled, Handles
    <2>2. CASE BeginMove
      BY <1>4, <2>2 DEF BeginMove
    <2>3. CASE EngineActive \/ EngineIdle \/ StatusDrained \/ FetchNothing
               \/ FetchEvents \/ StreamEnds \/ BatchDone \/ ApplyGrabAction
               \/ LoopAgain \/ EndRetouch \/ PointerMoves
               \/ IgnoreEarlyRetouch \/ IgnoreLift \/ PadClick
      BY <2>3
      DEF EngineActive, EngineIdle, StatusDrained, FetchNothing, FetchEvents,
          StreamEnds, BatchDone, ApplyGrabAction, LoopAgain, EndRetouch,
          PointerMoves, IgnoreEarlyRetouch, IgnoreLift, PadClick, Handles,
          Settled
    <2>4. CASE BeginRetouch \/ StartMomentum \/ RejectMomentum \/ ReleaseShort
               \/ ReleaseAfterStop \/ ReleaseConfirmed \/ Multitouch
      BY <2>4
      DEF BeginRetouch, StartMomentum, RejectMomentum, ReleaseShort,
          ReleaseAfterStop, ReleaseConfirmed, ReleaseRetouch, Multitouch,
          Handles
    <2> QED
      BY <2>1, <2>2, <2>3, <2>4 DEF ListenerThread, ListenerStep
  <1> QED
    BY <1>2, <1>4, <1>5 DEF Settled

LEMMA GestureListener ==
  ASSUME Typed, TouchInv, TokenInv, GestureInv, ListenerThread
  PROVE  GestureInv'
  <1>1. CASE Settled
    BY <1>1, SettledKept DEF GestureInv
  <1>2. ASSUME MarkedLast(Queued)
        PROVE  MarkedLast(Queued)' \/ Settled'
    <2>1. CASE Queued' = Queued
      BY <1>2, <2>1 DEF MarkedLast, IsDown, Marks
    <2>2. CASE /\ batch # <<>> /\ Queued' = Tail(Queued)
               /\ Queued[1] = Head(batch)
               /\ lpc' = "events"
               /\ \/ lpc \in {"lifted", "released"} /\ Head(batch).kind = "up"
                  \/ \E kind \in EventKind : Handles(kind)
      <3>1. Queued \in Seq(Event) /\ Queued # <<>>
        BY <2>2, QueuedTyped, QueuedHead
      <3>2. MarkedLast(Tail(Queued))
              \/ (Marks(Queued[1]) /\ NoDown(Tail(Queued)))
        BY <1>2, <3>1, TailMarked
      <3>3. CASE MarkedLast(Tail(Queued))
        BY <2>2, <3>3 DEF MarkedLast, IsDown, Marks
      <3>4. CASE Marks(Queued[1]) /\ NoDown(Tail(Queued))
        <4>1. Handles("click") \/ Handles("multi")
          BY <2>2, <3>4 DEF Marks, Handles
        <4>2. PadClick \/ Multitouch
          BY <2>2, <4>1
          DEF ListenerThread, ListenerStep, Handles, EngineActive, EngineIdle,
              StatusDrained, FetchNothing, FetchEvents, StreamEnds,
              PointerMoves, IgnoreEarlyRetouch, BeginRetouch, BeginMove,
              IgnoreLift, EndMove, StartMomentum, RejectMomentum, EndRetouch,
              ReleaseShort, ReleaseAfterStop, ReleaseConfirmed,
              ReleaseRetouch, BatchDone, ApplyGrabAction, LoopAgain
        <4>3. /\ Send("Stop") /\ mode' = mode
              /\ lpc' = "events" /\ clickSeen' = TRUE
          BY <2>2, <4>2 DEF PadClick, Multitouch, ListenerThread, engineVars
        <4>4. EndQuiet'
          BY <4>3, SendKeeps DEF TokenInv, MomentumMessage
        <4>5. NoDown(Queued)'
          BY <2>2, <3>4 DEF NoDown, IsDown
        <4> QED
          BY <4>3, <4>4, <4>5 DEF Settled
      <3> QED
        BY <3>2, <3>3, <3>4
    <2> QED
      BY <2>1, <2>2, QueueConsumed
  <1>3. UNCHANGED <<gesture, unplugged>>
    BY QueueConsumed
  <1> QED
    BY <1>1, <1>2, <1>3 DEF GestureInv

LEMMA GestureUser ==
  ASSUME Typed, TokenInv, GestureInv, User
  PROVE  GestureInv'
  <1>1. UNCHANGED <<batch, lpc, lstate, clickSeen, chan, mode>>
    BY DEF User, listenerVars, channelVars, engineVars
  <1>2. EndQuiet => EndQuiet'
    BY <1>1, QueueKept
  <1>3. ASSUME NEW kind \in EventKind \ {"down"}, Emit(kind),
               gesture' => gesture \/ kind \in {"click", "multi"}
        PROVE  GestureInv'
    <2>1. PICK e \in Event : e.kind = kind /\ Queued' = Append(Queued, e)
      BY <1>1, <1>3, EmitQueues
    <2> DEFINE s == Queued
               t == Append(Queued, e)
    <2>2. /\ Marks(e) => MarkedLast(t)
          /\ MarkedLast(s) => MarkedLast(t)
          /\ NoDown(s) => NoDown(t)
      BY <1>3, <2>1, AppendMarked, QueuedTyped
    <2>3. /\ MarkedLast(Queued)' <=> MarkedLast(t)
          /\ NoDown(Queued)' <=> NoDown(t)
      BY <2>1 DEF MarkedLast, NoDown, IsDown, Marks
    <2>4. UNCHANGED unplugged
      BY <1>3 DEF Emit
    <2> HIDE DEF s, t
    <2> QED
      BY <1>1, <1>2, <1>3, <2>1, <2>2, <2>3, <2>4
      DEF GestureInv, Settled, Marks, s
  <1>4. CASE FingerDown
    BY <1>4 DEF FingerDown, GestureInv
  <1>5. CASE FingerUp
    BY <1>3, <1>5 DEF FingerUp, EventKind
  <1>6. ASSUME NEW kind \in Gestures, FingerGesture(kind)
        PROVE  GestureInv'
    <2>1. kind \in {"move", "click", "multi"}
      BY DeviceAssumption DEF DeviceAssumption
    <2> QED
      BY <1>3, <1>6, <2>1 DEF FingerGesture, EventKind
  <1>7. CASE Unplug
    BY <1>7 DEF Unplug, GestureInv
  <1> QED
    BY <1>4, <1>5, <1>6, <1>7 DEF User, UserStep

LEMMA GestureStep ==
  ASSUME Typed, LoopInv, TouchInv, TokenInv, GestureInv, [Next]_vars
  PROVE  GestureInv'
  <1>1. CASE UNCHANGED <<batch, pending, lpc, lstate, clickSeen, gesture,
                         unplugged>>
    <2>1. EndQuiet /\ lpc # "lifted" => EndQuiet'
      BY QuietKept DEF StartMomentum
    <2>2. Queued' = Queued
      BY <1>1 DEF Queued
    <2>3. /\ MarkedLast(Queued)' <=> MarkedLast(Queued)
          /\ NoDown(Queued)' <=> NoDown(Queued)
      BY <2>2 DEF MarkedLast, NoDown, IsDown, Marks
    <2> QED
      BY <1>1, <2>1, <2>3 DEF GestureInv, Settled
  <1>2. \/ User \/ ListenerThread
        \/ UNCHANGED <<batch, pending, lpc, lstate, clickSeen, gesture,
                       unplugged>>
    BY DEF Next, UserButton, PressButton, Tick, AdvanceClock, ButtonThread,
           ButtonStep, TimerThread, TimerStep, EngineThread, Exited, vars,
           listenerVars, deviceVars
  <1> QED
    BY <1>1, <1>2, GestureUser, GestureListener

LEMMA GestureInvariant == Spec => []GestureInv
  <1>1. Init => GestureInv
    BY DEF Init, DeviceInit, GestureInv
  <1>2. TypeInv /\ GrabInv /\ TouchInv /\ TokenInv /\ GestureInv /\ [Next]_vars
          => GestureInv'
    BY GestureStep DEF TypeInv, GrabInv
  <1> QED
    BY <1>1, <1>2, TypeInvariant, GrabInvariant, TouchInvariant,
       TokenInvariant, PTL DEF Spec

\* From a click of the pad or a second finger on it until the next touch,
\* nothing glides once all is dealt with (touchpad.rs:513-516, 611-632).
THEOREM GestureMeansRest == Spec => []NoInertiaAfterGesture
  <1>1. TypeInv /\ TouchInv /\ GestureInv => NoInertiaAfterGesture
    <2> SUFFICES ASSUME TypeInv, TouchInv, GestureInv,
                        CaughtUp, gesture, ~unplugged
                 PROVE  mode # "PointerMomentum"
      BY DEF NoInertiaAfterGesture
    <2>1. Queued = <<>> /\ chan = <<>>
      BY DEF CaughtUp, TouchInv, Queued
    <2>2. ~MarkedLast(Queued)
      BY <2>1 DEF MarkedLast
    <2> QED
      BY <2>1, <2>2, QuietWhenEmpty DEF GestureInv, Settled
  <1> QED
    BY <1>1, TypeInvariant, TouchInvariant, GestureInvariant, PTL

=============================================================================
