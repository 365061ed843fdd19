---------------------------- MODULE DaemonProofs ----------------------------
(***************************************************************************)
(* Type correctness of Daemon for every value of its constants, and the    *)
(* two facts it rests on: a handler that has begun still holds its event,  *)
(* and every Sender is owned by a live thread.                             *)
(***************************************************************************)
EXTENDS Daemon, FiniteSetTheorems, SequenceTheorems, TLAPS

\* TypeOK but for `senders`, whose type follows from SendersCounted.
Typed ==
  /\ chan \in Seq(MomentumMessage)
  /\ status \in Seq(EngineStatus)
  /\ statusOpen \in BOOLEAN
  /\ DeviceTypeOK
  /\ TimerTypeOK
  /\ ButtonTypeOK
  /\ ListenerTypeOK
  /\ EngineTypeOK

\* A handler that is under way has its event at the head of the batch.
BatchHeld == lpc \in {"lifted", "released"} => batch # <<>>

\* Every confirm timer has a token of its own, handed out in the past.
TimersDistinct ==
  /\ IsFiniteSet(timers)
  /\ \A tm \in timers : tm.token <= activeToken
  /\ \A t1, t2 \in timers : t1.token = t2.token => t1 = t2

Alive(running) == IF running THEN 1 ELSE 0

\* The message channel is kept open by the threads that may still send.
SendersCounted ==
  senders = Alive(lpc # "exit") + Alive(buttonPc # "exit") + Cardinality(timers)

TypeInv == Typed /\ BatchHeld /\ TimersDistinct /\ SendersCounted

-----------------------------------------------------------------------------
\* A read takes events from the front of the queue and loses none.
LEMMA Fetched ==
  ASSUME Typed, FetchEvents
  PROVE  /\ batch' \in Seq(Event) /\ batch' # <<>>
         /\ pending' \in Seq(Event)
         /\ batch' \o pending' = pending
  <1>1. pending \in Seq(Event) /\ Len(pending) \in Nat
    BY LenProperties DEF Typed, DeviceTypeOK
  <1>2. PICK n \in 1 .. Len(pending) :
          /\ batch' = SubSeq(pending, 1, n)
          /\ pending' = SubSeq(pending, n + 1, Len(pending))
    BY DEF FetchEvents
  <1>3. SubSeq(pending, 1, n) \in Seq(Event) /\ Len(SubSeq(pending, 1, n)) = n
    <2>1. \A i \in 1 .. n : pending[i] \in Event
      BY <1>1
    <2> QED
      BY <2>1, SubSeqProperties
  <1>4. SubSeq(pending, n + 1, Len(pending)) \in Seq(Event)
    <2>1. \A i \in (n + 1) .. Len(pending) : pending[i] \in Event
      BY <1>1
    <2> QED
      BY <1>1, <2>1, SubSeqProperties
  <1>5. SubSeq(pending, 1, n) \o SubSeq(pending, n + 1, Len(pending))
          = SubSeq(pending, 1, Len(pending))
    <2>1. /\ 1 \in 1 .. Len(pending) + 1 /\ n \in 1 - 1 .. Len(pending)
          /\ Len(pending) \in n .. Len(pending)
      BY <1>1
    <2> QED
      BY <1>1, <2>1, ConcatAdjacentSubSeq
  <1>6. SubSeq(pending, 1, Len(pending)) = pending
    BY <1>1, SubSeqFull
  <1> QED
    <2>1. SubSeq(pending, 1, n) # <<>>
      BY <1>3
    <2> QED
      BY <1>2, <1>3, <1>4, <1>5, <1>6, <2>1

LEMMA InitTyped == Init => TypeInv
  <1> SUFFICES ASSUME Init PROVE TypeInv
    OBVIOUS
  <1> USE DEF Init, ChannelsInit, DeviceInit, TimerInit, ButtonInit,
              ListenerInit, EngineInit
  <1>1. Typed
    <2>1. chan \in Seq(MomentumMessage) /\ status \in Seq(EngineStatus)
      OBVIOUS
    <2>2. /\ finger \in BOOLEAN /\ gesture \in BOOLEAN /\ clicked \in BOOLEAN
          /\ unplugged \in BOOLEAN
          /\ clickSeen \in BOOLEAN /\ awaiting \in BOOLEAN
          /\ alreadyStopped \in BOOLEAN /\ momentumActive \in BOOLEAN
          /\ grabbed \in BOOLEAN /\ ticking \in BOOLEAN
      OBVIOUS
    <2>3. DeviceTypeOK
      BY <2>2 DEF DeviceTypeOK
    <2>4. TimerTypeOK
      BY DEF TimerTypeOK
    <2>5. ButtonTypeOK
      BY DEF ButtonTypeOK
    <2>6. ListenerTypeOK
      BY <2>2 DEF ListenerTypeOK, ListenerState
    <2>7. EngineTypeOK
      BY <2>2, EngineAssumption DEF EngineTypeOK, EngineAssumption
    <2> QED
      BY <2>1, <2>3, <2>4, <2>5, <2>6, <2>7 DEF Typed
  <1>2. BatchHeld
    BY DEF BatchHeld
  <1>3. IsFiniteSet(timers) /\ Cardinality(timers) = 0
    BY FS_EmptySet
  <1>4. TimersDistinct
    BY <1>3 DEF TimersDistinct
  <1>5. SendersCounted
    BY <1>3, ButtonAssumption DEF SendersCounted, Alive, ButtonAssumption
  <1> QED
    BY <1>1, <1>2, <1>4, <1>5 DEF TypeInv

\* What a step leaves alone keeps its type.
LEMMA Unchanged ==
  /\ DeviceTypeOK /\ UNCHANGED deviceVars => DeviceTypeOK'
  /\ TimerTypeOK /\ UNCHANGED timerVars => TimerTypeOK'
  /\ ButtonTypeOK /\ UNCHANGED buttonVars => ButtonTypeOK'
  /\ ListenerTypeOK /\ UNCHANGED listenerVars => ListenerTypeOK'
  /\ EngineTypeOK /\ UNCHANGED engineVars => EngineTypeOK'
  <1>1. DeviceTypeOK /\ UNCHANGED deviceVars => DeviceTypeOK'
    BY DEF DeviceTypeOK, deviceVars
  <1>2. TimerTypeOK /\ UNCHANGED timerVars => TimerTypeOK'
    BY DEF TimerTypeOK, timerVars
  <1>3. ButtonTypeOK /\ UNCHANGED buttonVars => ButtonTypeOK'
    BY DEF ButtonTypeOK, buttonVars
  <1>4. ListenerTypeOK /\ UNCHANGED listenerVars => ListenerTypeOK'
    BY DEF ListenerTypeOK, listenerVars
  <1>5. EngineTypeOK /\ UNCHANGED engineVars => EngineTypeOK'
    BY DEF EngineTypeOK, engineVars
  <1> QED
    BY <1>1, <1>2, <1>3, <1>4, <1>5

\* The operators that handlers share keep their variables to their types.
LEMMA SendTyped ==
  ASSUME chan \in Seq(MomentumMessage), NEW m \in MomentumMessage, Send(m)
  PROVE  chan' \in Seq(MomentumMessage)
  BY DEF Send

LEMMA UngrabTyped ==
  ASSUME ListenerTypeOK, UngrabTouchpad
  PROVE  grabbed' \in BOOLEAN /\ ioctlFailures' \in Nat
  <1>1. CASE grabbed
    <2>1. CASE grabbed' = FALSE /\ UNCHANGED ioctlFailures
      BY <2>1 DEF ListenerTypeOK
    <2>2. CASE ioctlFailures' = ioctlFailures + 1 /\ UNCHANGED grabbed
      BY <2>2 DEF ListenerTypeOK
    <2> QED
      BY <1>1, <2>1, <2>2 DEF UngrabTouchpad, Ioctl
  <1>2. CASE ~grabbed
    BY <1>2 DEF UngrabTouchpad, ListenerTypeOK
  <1> QED
    BY <1>1, <1>2

LEMMA GrabTyped ==
  ASSUME ListenerTypeOK, GrabTouchpad
  PROVE  grabbed' \in BOOLEAN /\ ioctlFailures' \in Nat
  <1>1. CASE ~grabbed
    <2>1. CASE grabbed' = TRUE /\ UNCHANGED ioctlFailures
      BY <2>1 DEF ListenerTypeOK
    <2>2. CASE ioctlFailures' = ioctlFailures + 1 /\ UNCHANGED grabbed
      BY <2>2 DEF ListenerTypeOK
    <2> QED
      BY <1>1, <2>1, <2>2 DEF GrabTouchpad, Ioctl
  <1>2. CASE grabbed
    BY <1>2 DEF GrabTouchpad, ListenerTypeOK
  <1> QED
    BY <1>1, <1>2

LEMMA ReleaseStaleTyped ==
  ASSUME ListenerTypeOK, ReleaseStaleGrab
  PROVE  grabbed' \in BOOLEAN /\ ioctlFailures' \in Nat /\ awaiting' \in BOOLEAN
  <1>1. CASE UngrabTouchpad /\ awaiting' = FALSE
    BY <1>1, UngrabTyped
  <1>2. CASE UNCHANGED <<grabbed, ioctlFailures, awaiting>>
    BY <1>2 DEF ListenerTypeOK
  <1> QED
    BY <1>1, <1>2 DEF ReleaseStaleGrab

LEMMA GiveUpTyped ==
  ASSUME ListenerTypeOK, GiveUpTouchpad
  PROVE  grabbed' \in BOOLEAN /\ ioctlFailures' \in Nat /\ awaiting' \in BOOLEAN
  <1>1. CASE UngrabTouchpad /\ awaiting' = FALSE
    BY <1>1, UngrabTyped
  <1>2. CASE UNCHANGED <<awaiting, grabbed, ioctlFailures>>
    BY <1>2 DEF ListenerTypeOK
  <1> QED
    BY <1>1, <1>2 DEF GiveUpTouchpad

LEMMA BatchTyped ==
  ASSUME ListenerTypeOK, batch # <<>>
  PROVE  Head(batch) \in Event /\ now \in Nat /\ Tail(batch) \in Seq(Event)
  <1>1. Head(batch) \in Event /\ Tail(batch) \in Seq(Event)
    BY DEF ListenerTypeOK
  <1> QED
    BY <1>1 DEF now, Event

\* A step of the listener keeps every variable to its type.
LEMMA ListenerTyped ==
  ASSUME Typed, BatchHeld, ListenerThread
  PROVE  Typed' /\ BatchHeld'
  <1> USE Unchanged
  <1> DEFINE ListenerKept == ListenerTypeOK' /\ BatchHeld'
             OthersKept ==
               /\ chan' \in Seq(MomentumMessage)
               /\ status' \in Seq(EngineStatus)
               /\ statusOpen' \in BOOLEAN
               /\ DeviceTypeOK' /\ TimerTypeOK' /\ ButtonTypeOK'
  <1>0. ListenerTypeOK /\ EngineTypeOK'
    BY DEF Typed, ListenerThread
  <1>1. CASE EngineActive
    <2>1. ListenerKept
      BY <1>0, <1>1
      DEF EngineActive, ListenerTypeOK, BatchHeld
    <2>2. OthersKept
      BY <1>0, <1>1 DEF EngineActive, Typed, channelVars
    <2> QED
      BY <1>0, <2>1, <2>2 DEF Typed
  <1>2. CASE EngineIdle
    <2>1. ListenerKept
      BY <1>0, <1>2, GiveUpTyped
      DEF EngineIdle, ListenerTypeOK, BatchHeld
    <2>2. OthersKept
      BY <1>0, <1>2 DEF EngineIdle, Typed, channelVars
    <2> QED
      BY <1>0, <2>1, <2>2 DEF Typed
  <1>3. CASE StatusDrained
    <2>1. ListenerKept
      BY <1>0, <1>3, ReleaseStaleTyped
      DEF StatusDrained, ListenerTypeOK, BatchHeld
    <2>2. OthersKept
      BY <1>0, <1>3 DEF StatusDrained, Typed, channelVars
    <2> QED
      BY <1>0, <2>1, <2>2 DEF Typed
  <1>4. CASE FetchNothing
    <2>1. ListenerKept
      BY <1>0, <1>4
      DEF FetchNothing, ListenerTypeOK, BatchHeld
    <2>2. OthersKept
      BY <1>0, <1>4 DEF FetchNothing, Typed, channelVars
    <2> QED
      BY <1>0, <2>1, <2>2 DEF Typed
  <1>5. CASE FetchEvents
    <2>1. ListenerKept
      BY <1>0, <1>5, Fetched
      DEF FetchEvents, Typed, ListenerTypeOK, BatchHeld
    <2>2. OthersKept
      BY <1>0, <1>5, Fetched DEF FetchEvents, Typed, channelVars, DeviceTypeOK
    <2> QED
      BY <1>0, <2>1, <2>2 DEF Typed
  <1>6. CASE StreamEnds
    <2>1. ListenerKept
      BY <1>0, <1>6
      DEF StreamEnds, ListenerTypeOK, BatchHeld
    <2>2. OthersKept
      BY <1>0, <1>6 DEF StreamEnds, Typed, channelVars
    <2> QED
      BY <1>0, <2>1, <2>2 DEF Typed
  <1>7. CASE PointerMoves
    <2>1. ListenerKept
      BY <1>0, <1>7, BatchTyped
      DEF PointerMoves, Handles, ListenerTypeOK, BatchHeld
    <2>2. OthersKept
      BY <1>0, <1>7, SendTyped DEF PointerMoves, Typed, channelVars, MomentumMessage
    <2> QED
      BY <1>0, <2>1, <2>2 DEF Typed
  <1>8. CASE IgnoreEarlyRetouch
    <2>1. ListenerKept
      BY <1>0, <1>8, BatchTyped
      DEF IgnoreEarlyRetouch, Handles, ListenerTypeOK, BatchHeld
    <2>2. OthersKept
      BY <1>0, <1>8 DEF IgnoreEarlyRetouch, Typed, channelVars
    <2> QED
      BY <1>0, <2>1, <2>2 DEF Typed
  <1>9. CASE BeginRetouch
    <2>1. now \in Nat /\ Tail(batch) \in Seq(Event)
      BY <1>0, <1>9, BatchTyped DEF BeginRetouch, Handles
    <2>2. activeToken' \in Nat /\ curToken' \in Nat /\ stoppedToken' \in Nat
      BY <1>9 DEF BeginRetouch, Typed, TimerTypeOK
    <2>3. [token |-> activeToken + 1, due |-> clock + StopTouch,
           phase |-> "asleep"] \in Timer
      BY StopTouchAssumption DEF Timer, TimerPhase, Typed, TimerTypeOK,
                                 DeviceTypeOK, StopTouchAssumption
    <2>4. timers' \subseteq Timer
      BY <1>9, <2>3 DEF BeginRetouch, ArmTimer, Typed, TimerTypeOK
    <2>5. ListenerKept
      BY <1>9, <2>1, <2>2
      DEF BeginRetouch, Handles, ListenerState, Typed, ListenerTypeOK, BatchHeld
    <2>6. OthersKept
      BY <1>9, <2>2, <2>4 DEF BeginRetouch, Typed, TimerTypeOK
    <2> QED
      BY <1>0, <2>5, <2>6 DEF Typed
  <1>10. CASE BeginMove
    <2>1. now \in Nat /\ Tail(batch) \in Seq(Event)
      BY <1>0, <1>10, BatchTyped DEF BeginMove, Handles
    <2>2. clickSeen' \in BOOLEAN
      BY <1>10 DEF BeginMove
    <2>3. /\ samples' \in 0..2 /\ lstate' \in ListenerState
          /\ touchStart' \in Nat /\ batch' \in Seq(Event)
      BY <1>10, <2>1 DEF BeginMove, ListenerState
    <2>4. UNCHANGED <<lpc, awaiting, armedAfter, retouchStart, curToken,
                      alreadyStopped, momentumActive, grabbed, ioctlFailures,
                      grabActions>>
      BY <1>10 DEF BeginMove
    <2>5. ListenerTypeOK'
      BY <1>0, <2>2, <2>3, <2>4 DEF ListenerTypeOK
    <2>6. ListenerKept
      BY <1>10, <2>4, <2>5 DEF BeginMove, Handles, BatchHeld
    <2>7. OthersKept
      BY <1>0, <1>10, SendTyped
      DEF BeginMove, Typed, MomentumMessage, ButtonTypeOK
    <2> QED
      BY <1>0, <2>6, <2>7 DEF Typed
  <1>11. CASE IgnoreLift
    <2>1. ListenerKept
      BY <1>0, <1>11, BatchTyped
      DEF IgnoreLift, Handles, ListenerTypeOK, BatchHeld
    <2>2. OthersKept
      BY <1>0, <1>11 DEF IgnoreLift, Typed, channelVars
    <2> QED
      BY <1>0, <2>1, <2>2 DEF Typed
  <1>12. CASE EndMove
    <2>1. ListenerKept
      BY <1>0, <1>12, BatchTyped
      DEF EndMove, Handles, ListenerState, ListenerTypeOK, BatchHeld
    <2>2. OthersKept
      BY <1>0, <1>12 DEF EndMove, Typed, channelVars, ButtonTypeOK
    <2> QED
      BY <1>0, <2>1, <2>2 DEF Typed
  <1>13. CASE StartMomentum
    <2>1. now \in Nat /\ Tail(batch) \in Seq(Event)
      BY <1>0, <1>13, BatchTyped DEF StartMomentum, BatchHeld
    <2>2. armedAfter' \in Nat
      BY <1>13, <2>1, ListenerAssumption
      DEF StartMomentum, ListenerAssumption
    <2>3. grabActions' \in Seq(GrabAction)
      BY <1>0, <1>13 DEF StartMomentum, GrabAction, ListenerTypeOK
    <2>4. ListenerKept
      BY <1>0, <1>13, <2>1, <2>2, <2>3
      DEF StartMomentum, ListenerState, ListenerTypeOK, BatchHeld
    <2>5. OthersKept
      BY <1>13, SendTyped DEF StartMomentum, Typed, MomentumMessage
    <2> QED
      BY <1>0, <2>4, <2>5 DEF Typed
  <1>14. CASE RejectMomentum
    <2>1. ListenerKept
      BY <1>0, <1>14, BatchTyped
      DEF RejectMomentum, ListenerState, ListenerTypeOK, BatchHeld
    <2>2. OthersKept
      BY <1>0, <1>14 DEF RejectMomentum, Typed, channelVars
    <2> QED
      BY <1>0, <2>1, <2>2 DEF Typed
  <1>15. CASE EndRetouch
    <2>1. ListenerKept
      BY <1>0, <1>15
      DEF EndRetouch, Handles, RetouchIsStopped, ListenerTypeOK, BatchHeld
    <2>2. OthersKept
      BY <1>0, <1>15 DEF EndRetouch, Typed, channelVars
    <2> QED
      BY <1>0, <2>1, <2>2 DEF Typed
  <1>16. CASE ReleaseShort
    <2>1. ListenerKept
      BY <1>0, <1>16, BatchTyped
      DEF ReleaseShort, ReleaseRetouch, ListenerState, ListenerTypeOK, BatchHeld
    <2>2. OthersKept
      BY <1>0, <1>16 DEF ReleaseShort, Typed, channelVars, ReleaseRetouch, TimerTypeOK
    <2> QED
      BY <1>0, <2>1, <2>2 DEF Typed
  <1>17. CASE ReleaseAfterStop
    <2>1. Tail(batch) \in Seq(Event)
      BY <1>0, <1>17, BatchTyped DEF ReleaseAfterStop, ReleaseRetouch, BatchHeld
    <2>2. grabActions' \in Seq(GrabAction)
      BY <1>0, <1>17 DEF ReleaseAfterStop, GrabAction, ListenerTypeOK
    <2>3. ListenerKept
      BY <1>0, <1>17, <2>1, <2>2
      DEF ReleaseAfterStop, ReleaseRetouch, ListenerState, ListenerTypeOK,
          BatchHeld
    <2>4. OthersKept
      BY <1>0, <1>17
      DEF ReleaseAfterStop, ReleaseRetouch, Typed, TimerTypeOK
    <2> QED
      BY <1>0, <2>3, <2>4 DEF Typed
  <1>18. CASE ReleaseConfirmed
    <2>1. Tail(batch) \in Seq(Event)
      BY <1>0, <1>18, BatchTyped DEF ReleaseConfirmed, ReleaseRetouch, BatchHeld
    <2>2. grabActions' \in Seq(GrabAction)
      BY <1>0, <1>18 DEF ReleaseConfirmed, GrabAction, ListenerTypeOK
    <2>3. ListenerKept
      BY <1>0, <1>18, <2>1, <2>2
      DEF ReleaseConfirmed, ReleaseRetouch, ListenerState, ListenerTypeOK,
          BatchHeld
    <2>4. OthersKept
      BY <1>0, <1>18, SendTyped
      DEF ReleaseConfirmed, ReleaseRetouch, Typed, TimerTypeOK, ListenerTypeOK, MomentumMessage
    <2> QED
      BY <1>0, <2>3, <2>4 DEF Typed
  <1>19. CASE PadClick
    <2>1. ListenerKept
      BY <1>0, <1>19, BatchTyped
      DEF PadClick, Handles, ListenerTypeOK, BatchHeld
    <2>2. OthersKept
      BY <1>0, <1>19, SendTyped DEF PadClick, Typed, channelVars, MomentumMessage, ButtonTypeOK
    <2> QED
      BY <1>0, <2>1, <2>2 DEF Typed
  <1>20. CASE Multitouch
    <2>1. ListenerKept
      BY <1>0, <1>20, BatchTyped
      DEF Multitouch, Handles, ListenerState, ListenerTypeOK, BatchHeld
    <2>2. OthersKept
      BY <1>0, <1>20, SendTyped DEF Multitouch, Typed, channelVars, MomentumMessage, TimerTypeOK
    <2> QED
      BY <1>0, <2>1, <2>2 DEF Typed
  <1>21. CASE BatchDone
    <2>1. ListenerKept
      BY <1>0, <1>21
      DEF BatchDone, ListenerTypeOK, BatchHeld
    <2>2. OthersKept
      BY <1>0, <1>21 DEF BatchDone, Typed, channelVars
    <2> QED
      BY <1>0, <2>1, <2>2 DEF Typed
  <1>22. CASE ApplyGrabAction
    <2>1. ListenerKept
      BY <1>0, <1>22, GrabTyped, UngrabTyped
      DEF ApplyGrabAction, ListenerTypeOK, BatchHeld
    <2>2. OthersKept
      BY <1>0, <1>22 DEF ApplyGrabAction, Typed, channelVars
    <2> QED
      BY <1>0, <2>1, <2>2 DEF Typed
  <1>23. CASE LoopAgain
    <2>1. ListenerKept
      BY <1>0, <1>23, ReleaseStaleTyped
      DEF LoopAgain, ListenerTypeOK, BatchHeld
    <2>2. OthersKept
      BY <1>0, <1>23 DEF LoopAgain, Typed, channelVars
    <2> QED
      BY <1>0, <2>1, <2>2 DEF Typed
  <1> QED
    BY <1>1, <1>2, <1>3, <1>4, <1>5, <1>6, <1>7, <1>8, <1>9, <1>10, <1>11,
       <1>12, <1>13, <1>14, <1>15, <1>16, <1>17, <1>18, <1>19, <1>20, <1>21, <1>22, <1>23
    DEF ListenerThread, ListenerStep

\* Every other step keeps every variable to its type.
LEMMA UserTyped ==
  ASSUME Typed, BatchHeld, User \/ UserButton \/ Tick
  PROVE  Typed' /\ BatchHeld'
  <1> USE Unchanged
  <1>1. CASE User
    <2>0. UNCHANGED <<channelVars, timerVars, buttonVars, listenerVars,
                      engineVars>>
      BY <1>1 DEF User
    <2>1. ASSUME NEW kind \in EventKind, Emit(kind)
          PROVE  /\ clock' \in Nat /\ inputs' \in Nat
                 /\ unplugged' \in BOOLEAN /\ pending' \in Seq(Event)
      <3>1. [kind |-> kind, ts |-> clock] \in Event
        BY DEF Event, Typed, DeviceTypeOK
      <3> QED
        BY <2>1, <3>1 DEF Emit, Typed, DeviceTypeOK
    <2>2. DeviceTypeOK'
      <3>1. CASE FingerDown
        <4>1. Emit("down") /\ "down" \in EventKind
          BY <3>1 DEF FingerDown, EventKind
        <4>2. finger' \in BOOLEAN /\ gesture' \in BOOLEAN /\ clicked' \in BOOLEAN
          BY <3>1 DEF FingerDown
        <4>3. downAt' \in Nat
          BY <3>1 DEF FingerDown, Typed, DeviceTypeOK
        <4> QED
          BY <2>1, <4>1, <4>2, <4>3 DEF DeviceTypeOK
      <3>2. CASE FingerUp
        <4>1. Emit("up") /\ "up" \in EventKind
          BY <3>2 DEF FingerUp, EventKind
        <4>2. finger' \in BOOLEAN /\ gesture' \in BOOLEAN /\ clicked' \in BOOLEAN
          BY <3>2 DEF FingerUp, Typed, DeviceTypeOK
        <4>3. downAt' \in Nat
          BY <3>2 DEF FingerUp, Typed, DeviceTypeOK
        <4> QED
          BY <2>1, <4>1, <4>2, <4>3 DEF DeviceTypeOK
      <3>3. ASSUME NEW kind \in Gestures, FingerGesture(kind)
            PROVE  DeviceTypeOK'
        <4>1. Emit(kind) /\ kind \in EventKind
          BY <3>3, DeviceAssumption
          DEF FingerGesture, EventKind, DeviceAssumption
        <4>2. finger' \in BOOLEAN /\ gesture' \in BOOLEAN /\ clicked' \in BOOLEAN
          BY <3>3 DEF FingerGesture, Typed, DeviceTypeOK
        <4>3. downAt' \in Nat
          BY <3>3 DEF FingerGesture, Typed, DeviceTypeOK
        <4> QED
          BY <2>1, <4>1, <4>2, <4>3 DEF DeviceTypeOK
      <3>4. CASE Unplug
        <4>1. unplugged' \in BOOLEAN /\ pending' \in Seq(Event)
          BY <3>4 DEF Unplug
        <4> QED
          BY <3>4, <4>1 DEF Unplug, Typed, DeviceTypeOK
      <3> QED
        BY <1>1, <3>1, <3>2, <3>3, <3>4 DEF User, UserStep
    <2> QED
      BY <2>0, <2>2 DEF Typed, BatchHeld, channelVars, listenerVars
  <1>2. CASE UserButton
    <2>1. UNCHANGED <<channelVars, timerVars, listenerVars, engineVars>>
      BY <1>2 DEF UserButton, PressButton
    <2>2. clicked' \in BOOLEAN
      BY <1>2 DEF UserButton, PressButton, Typed, DeviceTypeOK
    <2>3. DeviceTypeOK' /\ ButtonTypeOK'
      BY <1>2, <2>2
      DEF UserButton, PressButton, Typed, DeviceTypeOK, ButtonTypeOK
    <2> QED
      BY <2>1, <2>3 DEF Typed, BatchHeld, channelVars, listenerVars
  <1>3. CASE Tick
    <2>1. DeviceTypeOK'
      BY <1>3 DEF Tick, AdvanceClock, Typed, DeviceTypeOK
    <2> QED
      BY <1>3, <2>1 DEF Tick, Typed, BatchHeld, channelVars, listenerVars
  <1> QED
    BY <1>1, <1>2, <1>3

LEMMA ButtonTyped ==
  ASSUME Typed, BatchHeld, ButtonThread
  PROVE  Typed' /\ BatchHeld'
  <1> USE Unchanged
  <1>0. UNCHANGED <<deviceVars, timerVars, listenerVars, engineVars>>
    BY DEF ButtonThread, ButtonStep
  <1>1. clickInhibit' \in BOOLEAN
    BY DEF ButtonThread, ButtonStep, TakePress, PressSendStop,
           ButtonStreamEnds, Typed, ButtonTypeOK
  <1>2. buttonPc' \in {"fetch", "stop", "exit"}
    BY DEF ButtonThread, ButtonStep, TakePress, PressSendStop, ButtonStreamEnds
  <1>3. presses' \in Nat /\ pressed' \in Nat
    BY DEF ButtonThread, ButtonStep, TakePress, PressSendStop,
           ButtonStreamEnds, Typed, ButtonTypeOK
  <1>4. /\ chan' \in Seq(MomentumMessage)
        /\ UNCHANGED <<status, statusOpen>>
    BY SendTyped
    DEF ButtonThread, ButtonStep, TakePress, PressSendStop, ButtonStreamEnds,
        Typed, MomentumMessage, channelVars
  <1> QED
    BY <1>0, <1>1, <1>2, <1>3, <1>4
    DEF Typed, BatchHeld, ButtonTypeOK, listenerVars

LEMMA TimerTyped ==
  ASSUME Typed, BatchHeld, NEW tm \in timers, TimerThread(tm)
  PROVE  Typed' /\ BatchHeld'
  <1> USE Unchanged
  <1>0. UNCHANGED <<deviceVars, buttonVars, listenerVars, engineVars>>
    BY DEF TimerThread, TimerStep
  <1>1. tm \in Timer
    BY DEF Typed, TimerTypeOK
  <1>2. ASSUME NEW phase \in TimerPhase
        PROVE  Moved(tm, phase) \subseteq Timer
    BY <1>1 DEF Moved, Timer, Typed, TimerTypeOK
  <1>3. timers' \subseteq Timer
    BY <1>2 DEF TimerThread, TimerStep, TimerStale, TimerConfirm,
                TimerSendStop, TimerPublish, TimerPhase, Typed, TimerTypeOK
  <1>4. activeToken' \in Nat /\ stoppedToken' \in Nat
    BY <1>1 DEF TimerThread, TimerStep, TimerStale, TimerConfirm,
                TimerSendStop, TimerPublish, Typed, TimerTypeOK, Timer
  <1>5. /\ chan' \in Seq(MomentumMessage)
        /\ UNCHANGED <<status, statusOpen>>
    BY SendTyped
    DEF TimerThread, TimerStep, TimerStale, TimerConfirm, TimerSendStop,
        TimerPublish, Typed, MomentumMessage, channelVars
  <1> QED
    BY <1>0, <1>3, <1>4, <1>5 DEF Typed, BatchHeld, TimerTypeOK, listenerVars

LEMMA EngineTyped ==
  ASSUME Typed, BatchHeld, EngineThread
  PROVE  Typed' /\ BatchHeld'
  <1> USE Unchanged
  <1> DEFINE Kept == /\ chan' \in Seq(MomentumMessage)
                     /\ status' \in Seq(EngineStatus)
                     /\ EngineTypeOK'
  <1>0. UNCHANGED <<deviceVars, timerVars, buttonVars, listenerVars>>
    BY DEF EngineThread
  <1>1. ASSUME NEW s \in EngineStatus, SendStatus(s)
        PROVE  status' \in Seq(EngineStatus)
    BY <1>1 DEF SendStatus, Typed
  <1>2. ASSUME NEW m, Receives(m)
        PROVE  chan' \in Seq(MomentumMessage) /\ UNCHANGED statusOpen
    BY <1>2 DEF Receives, Typed
  <1>3. ASSUME Settle
        PROVE  status' \in Seq(EngineStatus) /\ EngineTypeOK'
    <2>1. ticking' \in BOOLEAN /\ SendStatus("PointerIdle")
      BY <1>3 DEF Settle
    <2>2. mode' = "Idle" /\ glide' \in 0..GlideTicks
      BY <1>3, EngineAssumption DEF Settle, EngineAssumption
    <2> QED
      BY <1>1, <2>1, <2>2 DEF EngineStatus, EngineTypeOK
  <1>4. CASE ReceiveStart
    <2>1. glide' \in 0..GlideTicks
      BY <1>4, EngineAssumption DEF ReceiveStart, EngineAssumption
    <2> QED
      BY <1>0, <1>1, <1>2, <1>4, <2>1
      DEF ReceiveStart, EngineStatus, EngineTypeOK, Typed, BatchHeld,
          listenerVars
  <1>5. CASE ReceiveStop
    BY <1>0, <1>2, <1>3, <1>5 DEF ReceiveStop, Typed, BatchHeld, listenerVars
  <1>6. CASE ReceiveContinue
    BY <1>0, <1>2, <1>3, <1>6
    DEF ReceiveContinue, Typed, BatchHeld, listenerVars
  <1>7. CASE Timeout
    <2>1. ticking' \in BOOLEAN
      BY <1>7 DEF Timeout
    <2> QED
      BY <1>0, <1>7, <2>1
      DEF Timeout, Typed, EngineTypeOK, BatchHeld, listenerVars, channelVars
  <1>8. CASE GlideOn
    <2>1. ticking' \in BOOLEAN
      BY <1>8 DEF GlideOn
    <2>2. glide' \in 0..GlideTicks
      BY <1>8, EngineAssumption
      DEF GlideOn, Typed, EngineTypeOK, EngineAssumption
    <2> QED
      BY <1>0, <1>8, <2>1, <2>2
      DEF GlideOn, Typed, EngineTypeOK, BatchHeld, listenerVars, channelVars
  <1>9. CASE GlideEnds
    BY <1>0, <1>3, <1>9 DEF GlideEnds, Typed, BatchHeld, listenerVars
  <1>10. CASE Disconnected
    BY <1>0, <1>10
    DEF Disconnected, Typed, EngineTypeOK, BatchHeld, listenerVars, channelVars
  <1> QED
    BY <1>4, <1>5, <1>6, <1>7, <1>8, <1>9, <1>10 DEF EngineThread, EngineStep

LEMMA StepTyped ==
  ASSUME Typed, BatchHeld, [Next]_vars
  PROVE  Typed' /\ BatchHeld'
  <1>1. CASE UNCHANGED vars
    BY <1>1, Unchanged DEF vars, Typed, BatchHeld, channelVars, listenerVars
  <1>2. CASE Exited
    BY <1>1, <1>2 DEF Exited
  <1> QED
    BY <1>1, <1>2, ListenerTyped, UserTyped, ButtonTyped, TimerTyped,
       EngineTyped DEF Next

-----------------------------------------------------------------------------
\* Replacing a timer by itself in another phase changes neither the tokens
\* nor the number of timers.
LEMMA MovedTimers ==
  ASSUME TimersDistinct, timers \subseteq Timer, NEW tm \in timers,
         NEW phase \in TimerPhase, timers' = Moved(tm, phase), UNCHANGED activeToken
  PROVE  TimersDistinct' /\ Cardinality(timers') = Cardinality(timers)
  <1> DEFINE rest == timers \ {tm}
             moved == [tm EXCEPT !.phase = phase]
  <1>1. IsFiniteSet(rest) /\ Cardinality(rest) = Cardinality(timers) - 1
    BY FS_RemoveElement DEF TimersDistinct
  <1>2. moved.token = tm.token /\ moved \in Timer
    BY DEF Timer
  <1>3. \A t \in rest : t.token # tm.token
    BY DEF TimersDistinct
  <1>4. moved \notin rest
    BY <1>2, <1>3
  <1>5. timers' = rest \cup {moved}
    BY DEF Moved
  <1>6. /\ IsFiniteSet(rest \cup {moved})
        /\ Cardinality(rest \cup {moved}) = Cardinality(rest) + 1
    BY <1>1, <1>4, FS_AddElement
  <1>7. Cardinality(timers) \in Nat
    BY FS_CardinalityType DEF TimersDistinct
  <1>8. \A t \in timers' : t.token <= activeToken'
    BY <1>2, <1>5 DEF TimersDistinct
  <1>9. \A t1, t2 \in timers' : t1.token = t2.token => t1 = t2
    BY <1>2, <1>3, <1>5 DEF TimersDistinct
  <1> HIDE DEF rest, moved
  <1> QED
    BY <1>1, <1>5, <1>6, <1>7, <1>8, <1>9 DEF TimersDistinct

\* A timer that ends takes its Sender with it.
LEMMA EndedTimer ==
  ASSUME TimersDistinct, NEW tm \in timers, timers' = timers \ {tm},
         UNCHANGED activeToken
  PROVE  TimersDistinct' /\ Cardinality(timers') = Cardinality(timers) - 1
  <1>1. /\ IsFiniteSet(timers')
        /\ Cardinality(timers') = Cardinality(timers) - 1
    BY FS_RemoveElement DEF TimersDistinct
  <1> QED
    BY <1>1 DEF TimersDistinct

\* A timer that is armed has a fresh token, and a Sender of its own.
LEMMA ArmedTimer ==
  ASSUME TimersDistinct, Typed, ArmTimer(activeToken + 1),
         activeToken' = activeToken + 1
  PROVE  /\ TimersDistinct'
         /\ Cardinality(timers') = Cardinality(timers) + 1
         /\ senders' = senders + 1
  <1> DEFINE new == [token |-> activeToken + 1, due |-> clock + StopTouch,
                     phase |-> "asleep"]
  <1>0. activeToken \in Nat /\ timers \subseteq Timer
    BY DEF Typed, TimerTypeOK
  <1>1. timers' = timers \cup {new} /\ senders' = senders + 1
    BY DEF ArmTimer
  <1>2. new.token = activeToken + 1
    OBVIOUS
  <1>3. \A t \in timers : t.token \in Nat /\ t.token <= activeToken
    BY <1>0 DEF TimersDistinct, Timer
  <1>4. new \notin timers
    BY <1>0, <1>2, <1>3
  <1>5. /\ IsFiniteSet(timers \cup {new})
        /\ Cardinality(timers \cup {new}) = Cardinality(timers) + 1
    BY <1>4, FS_AddElement DEF TimersDistinct
  <1>6. \A t \in timers' : t.token <= activeToken'
    BY <1>0, <1>1, <1>2, <1>3
  <1>7. \A t1, t2 \in timers' : t1.token = t2.token => t1 = t2
    <2>1. \A t \in timers : t.token # new.token
      BY <1>0, <1>2, <1>3
    <2> QED
      BY <1>1, <2>1 DEF TimersDistinct
  <1> HIDE DEF new
  <1> QED
    BY <1>1, <1>5, <1>6, <1>7 DEF TimersDistinct

LEMMA StepCounted ==
  ASSUME TypeInv, [Next]_vars
  PROVE  TimersDistinct' /\ SendersCounted'
  <1> USE DEF Alive
  <1> DEFINE Untouched ==
        UNCHANGED <<activeToken, timers, senders, buttonPc>>
        /\ (lpc' = "exit" <=> lpc = "exit")
  <1>0. /\ Typed /\ TimersDistinct /\ SendersCounted
        /\ Cardinality(timers) \in Nat
    BY FS_CardinalityType DEF TypeInv, TimersDistinct
  <1>1. ASSUME Untouched
        PROVE  TimersDistinct' /\ SendersCounted'
    BY <1>0, <1>1 DEF TimersDistinct, SendersCounted
  <1>2. ASSUME activeToken' = activeToken + 1,
               UNCHANGED <<timers, senders, buttonPc>>, lpc # "exit", lpc' # "exit"
        PROVE  TimersDistinct' /\ SendersCounted'
    <2>1. \A tm \in timers : tm.token \in Nat
      BY <1>0 DEF Typed, TimerTypeOK, Timer
    <2>2. \A tm \in timers' : tm.token <= activeToken'
      BY <1>0, <1>2, <2>1 DEF Typed, TimerTypeOK, TimersDistinct
    <2> QED
      BY <1>0, <1>2, <2>2 DEF TimersDistinct, SendersCounted
  <1>3. CASE ListenerThread
    <2>1. CASE StreamEnds
      BY <1>0, <2>1
      DEF StreamEnds, timerVars, buttonVars, TimersDistinct, SendersCounted
    <2>2. CASE BeginRetouch
      <3>1. UNCHANGED buttonPc /\ lpc = "events" /\ lpc' = "events"
        BY <2>2 DEF BeginRetouch, Handles, buttonVars
      <3>2. /\ TimersDistinct' /\ senders' = senders + 1
            /\ Cardinality(timers') = Cardinality(timers) + 1
        BY <1>0, <2>2, ArmedTimer DEF BeginRetouch
      <3> QED
        BY <1>0, <3>1, <3>2 DEF SendersCounted
    <2>3. CASE ReleaseShort \/ ReleaseAfterStop \/ ReleaseConfirmed
      <3>1. ReleaseRetouch /\ UNCHANGED <<senders, timers, buttonPc>>
        BY <2>3 DEF ReleaseShort, ReleaseAfterStop, ReleaseConfirmed,
                    ReleaseRetouch, buttonVars
      <3> QED
        BY <1>2, <3>1 DEF ReleaseRetouch
    <2>4. CASE Multitouch
      BY <1>2, <2>4 DEF Multitouch, Handles, buttonVars
    <2>5. CASE EngineActive \/ EngineIdle \/ StatusDrained \/ FetchNothing
      BY <1>1, <2>5
      DEF EngineActive, EngineIdle, StatusDrained, FetchNothing,
          channelVars, timerVars, buttonVars
    <2>6. CASE FetchEvents \/ PointerMoves \/ IgnoreEarlyRetouch \/ BeginMove
      BY <1>1, <2>6
      DEF FetchEvents, PointerMoves, IgnoreEarlyRetouch, BeginMove, Handles,
          channelVars, timerVars, buttonVars
    <2>7. CASE IgnoreLift \/ EndMove \/ StartMomentum \/ RejectMomentum
      BY <1>1, <2>7
      DEF IgnoreLift, EndMove, StartMomentum, RejectMomentum, Handles,
          channelVars, timerVars, buttonVars
    <2>8. CASE EndRetouch \/ PadClick \/ BatchDone \/ ApplyGrabAction
               \/ LoopAgain
      BY <1>1, <2>8
      DEF EndRetouch, PadClick, BatchDone, ApplyGrabAction, LoopAgain, Handles,
          channelVars, timerVars, buttonVars
    <2> QED
      BY <1>3, <2>1, <2>2, <2>3, <2>4, <2>5, <2>6, <2>7, <2>8
      DEF ListenerThread, ListenerStep
  <1>4. ASSUME NEW tm \in timers, TimerThread(tm)
        PROVE  TimersDistinct' /\ SendersCounted'
    <2>0. UNCHANGED <<lpc, buttonPc>>
      BY <1>4 DEF TimerThread, buttonVars, listenerVars
    <2>1. CASE TimerStale(tm) \/ TimerPublish(tm)
      <3>1. /\ timers' = timers \ {tm} /\ senders' = senders - 1
            /\ UNCHANGED activeToken
        BY <2>1 DEF TimerStale, TimerPublish
      <3>2. TimersDistinct' /\ Cardinality(timers') = Cardinality(timers) - 1
        BY <1>0, <3>1, EndedTimer
      <3> QED
        BY <1>0, <2>0, <3>1, <3>2 DEF SendersCounted
    <2>2. CASE TimerConfirm(tm) \/ TimerSendStop(tm)
      <3>1. /\ \E phase \in TimerPhase : timers' = Moved(tm, phase)
            /\ UNCHANGED <<senders, activeToken>>
        BY <2>2 DEF TimerConfirm, TimerSendStop, TimerPhase, channelVars
      <3>2. TimersDistinct' /\ Cardinality(timers') = Cardinality(timers)
        BY <1>0, <3>1, MovedTimers DEF Typed, TimerTypeOK
      <3> QED
        BY <1>0, <2>0, <3>1, <3>2 DEF SendersCounted
    <2> QED
      BY <1>4, <2>1, <2>2 DEF TimerThread, TimerStep
  <1>5. CASE ButtonThread
    <2>1. CASE ButtonStreamEnds
      BY <1>0, <1>5, <2>1
      DEF ButtonThread, ButtonStreamEnds, timerVars, listenerVars,
          TimersDistinct, SendersCounted
    <2>2. CASE TakePress \/ PressSendStop
      BY <1>0, <1>5, <2>2
      DEF ButtonThread, TakePress, PressSendStop, timerVars, listenerVars,
          channelVars, TimersDistinct, SendersCounted
    <2> QED
      BY <1>5, <2>1, <2>2 DEF ButtonThread, ButtonStep
  <1>6. CASE EngineThread
    BY <1>1, <1>6
    DEF EngineThread, EngineStep, ReceiveStart, ReceiveStop, ReceiveContinue,
        Timeout, GlideOn, GlideEnds, Disconnected, Receives, channelVars,
        timerVars, buttonVars, listenerVars
  <1>7. CASE User \/ UserButton \/ Tick
    BY <1>1, <1>7
    DEF User, UserButton, PressButton, Tick, channelVars, timerVars,
        buttonVars, listenerVars
  <1>8. CASE Exited \/ UNCHANGED vars
    BY <1>1, <1>8
    DEF Exited, vars, channelVars, timerVars, buttonVars, listenerVars
  <1> QED
    BY <1>3, <1>4, <1>5, <1>6, <1>7, <1>8 DEF Next

-----------------------------------------------------------------------------
LEMMA TypeInvariant == Spec => []TypeInv
  <1>1. TypeInv /\ [Next]_vars => TypeInv'
    BY StepTyped, StepCounted DEF TypeInv
  <1> QED
    BY InitTyped, <1>1, PTL DEF Spec

\* Type correctness, for every value of the constants: every variable of the
\* listener, the timers, the button thread, the engine and the channels keeps
\* to its type; the count of Senders never drops below the threads that hold
\* one (main.rs:170-218, touchpad.rs, momentum.rs).
THEOREM TypeCorrect == Spec => []TypeOK
  <1>1. TypeInv => TypeOK
    <2> SUFFICES ASSUME TypeInv PROVE TypeOK
      OBVIOUS
    <2>1. Cardinality(timers) \in Nat
      BY FS_CardinalityType DEF TypeInv, TimersDistinct
    <2>2. senders \in Nat
      BY <2>1 DEF TypeInv, SendersCounted, Alive
    <2> QED
      BY <2>2 DEF TypeInv, Typed, TypeOK, ChannelsTypeOK
  <1> QED
    BY <1>1, TypeInvariant, PTL

-----------------------------------------------------------------------------
(***************************************************************************)
(* How the modules fit together: the daemon contains the engine among      *)
(* arbitrary peers, which Momentum implements in detail.                   *)
(***************************************************************************)
Alone == INSTANCE EngineAlone WITH Threads <- IF HasButton THEN 2 ELSE 1

\* While a thread that may send is alive, so is a Sender.
LEMMA SenderAlive ==
  ASSUME TypeInv, lpc # "exit" \/ buttonPc # "exit" \/ timers # {}
  PROVE  senders \in Nat /\ senders > 0
  <1>1. /\ Cardinality(timers) \in Nat
        /\ timers # {} => Cardinality(timers) # 0
    BY FS_CardinalityType, FS_EmptySet DEF TypeInv, TimersDistinct
  <1> QED
    BY <1>1 DEF TypeInv, SendersCounted, Alive

\* A peer's step, put in terms of the daemon's own definitions.
LEMMA PeerSteps ==
  ASSUME UNCHANGED engineVars,
         \/ /\ senders > 0
            /\ \E m \in MomentumMessage : Send(m)
            /\ UNCHANGED <<status, senders, statusOpen>>
         \/ /\ status # <<>> /\ status' = Tail(status)
            /\ UNCHANGED <<chan, senders, statusOpen>>
         \/ /\ senders > 0 /\ senders' = senders + 1
            /\ UNCHANGED <<chan, status, statusOpen>>
         \/ /\ senders > 0 /\ senders' = senders - 1
            /\ statusOpen' \in {statusOpen, FALSE}
            /\ UNCHANGED <<chan, status>>
         \/ UNCHANGED channelVars
  PROVE  [Alone!AloneNext]_Alone!aloneVars
  BY DEF Alone!AloneNext, Alone!aloneVars, Alone!PeerStep, Alone!PeerSends,
         Alone!PeerReads, Alone!PeerSpawns, Alone!PeerLeaves, Alone!Send,
         Alone!MomentumMessage, Alone!channelVars, Alone!engineVars,
         Send, MomentumMessage, channelVars, engineVars

LEMMA ListenerIsPeer ==
  ASSUME TypeInv, ListenerStep, UNCHANGED engineVars
  PROVE  [Alone!AloneNext]_Alone!aloneVars
  <1>0. lpc # "exit" => senders > 0
    BY SenderAlive
  <1>1. CASE EngineActive \/ EngineIdle
    BY <1>1, PeerSteps DEF EngineActive, EngineIdle
  <1>2. CASE StreamEnds
    BY <1>0, <1>2, PeerSteps DEF StreamEnds
  <1>3. CASE PointerMoves
    <2>1. lpc # "exit" /\ "ContinuePointer" \in MomentumMessage
      BY <1>3 DEF PointerMoves, Handles, MomentumMessage
    <2> QED
      BY <1>0, <1>3, <2>1, PeerSteps DEF PointerMoves, channelVars
  <1>4. CASE BeginRetouch
    <2>1. senders' = senders + 1 /\ UNCHANGED <<chan, status, statusOpen>> /\ lpc # "exit"
      BY <1>4 DEF BeginRetouch, ArmTimer, Handles
    <2> QED
      BY <1>0, <2>1, PeerSteps
  <1>5. CASE BeginMove \/ StartMomentum \/ ReleaseConfirmed \/ PadClick \/ Multitouch
    <2>1. lpc # "exit" /\ {"Stop", "StartPointer"} \subseteq MomentumMessage
      BY <1>5 DEF BeginMove, StartMomentum, ReleaseConfirmed, ReleaseRetouch, PadClick,
                  Multitouch, Handles, MomentumMessage
    <2>2. Send("Stop") \/ Send("StartPointer")
      BY <1>5 DEF BeginMove, StartMomentum, ReleaseConfirmed, PadClick, Multitouch
    <2>3. UNCHANGED <<status, senders, statusOpen>>
      BY <1>5 DEF BeginMove, StartMomentum, ReleaseConfirmed, ReleaseRetouch, PadClick,
                  Multitouch
    <2> QED
      BY <1>0, <2>1, <2>2, <2>3, PeerSteps
  <1>6. CASE StatusDrained \/ FetchNothing \/ FetchEvents \/ IgnoreEarlyRetouch
               \/ IgnoreLift \/ EndMove \/ RejectMomentum \/ EndRetouch
               \/ BatchDone \/ ApplyGrabAction \/ LoopAgain
    <2>1. UNCHANGED channelVars
      BY <1>6 DEF StatusDrained, FetchNothing, FetchEvents, IgnoreEarlyRetouch, IgnoreLift,
                  EndMove, RejectMomentum, EndRetouch, BatchDone, ApplyGrabAction, LoopAgain
    <2> QED
      BY <2>1, PeerSteps
  <1>7. CASE ReleaseShort \/ ReleaseAfterStop
    <2>1. UNCHANGED channelVars
      BY <1>7 DEF ReleaseShort, ReleaseAfterStop, ReleaseRetouch, channelVars
    <2> QED
      BY <2>1, PeerSteps
  <1> QED
    BY <1>1, <1>2, <1>3, <1>4, <1>5, <1>6, <1>7 DEF ListenerStep

LEMMA OtherThreadsArePeers ==
  ASSUME TypeInv,
         ButtonThread \/ (\E tm \in timers : TimerThread(tm)) \/ UserButton \/ User
           \/ Tick \/ Exited \/ UNCHANGED vars
  PROVE  [Alone!AloneNext]_Alone!aloneVars
  <1>1. CASE ButtonThread
    <2>0. buttonPc # "exit" => senders > 0
      BY SenderAlive
    <2>1. CASE TakePress
      BY <1>1, <2>1, PeerSteps DEF ButtonThread, TakePress
    <2>2. CASE PressSendStop
      BY <1>1, <2>0, <2>2, PeerSteps DEF ButtonThread, PressSendStop, MomentumMessage
    <2>3. CASE ButtonStreamEnds
      BY <1>1, <2>0, <2>3, PeerSteps DEF ButtonThread, ButtonStreamEnds
    <2> QED
      BY <1>1, <2>1, <2>2, <2>3 DEF ButtonThread, ButtonStep
  <1>2. CASE \E tm \in timers : TimerThread(tm)
    <2>1. PICK tm \in timers : TimerStep(tm) /\ UNCHANGED engineVars
      BY <1>2 DEF TimerThread
    <2>2. senders > 0
      BY SenderAlive, <2>1
    <2>3. CASE TimerStale(tm) \/ TimerPublish(tm)
      BY <2>1, <2>2, <2>3, PeerSteps DEF TimerStale, TimerPublish
    <2>4. CASE TimerConfirm(tm)
      BY <2>1, <2>4, PeerSteps DEF TimerConfirm
    <2>5. CASE TimerSendStop(tm)
      BY <2>1, <2>2, <2>5, PeerSteps DEF TimerSendStop, MomentumMessage
    <2> QED
      BY <2>1, <2>3, <2>4, <2>5 DEF TimerStep
  <1>3. CASE UserButton \/ User \/ Tick \/ Exited \/ UNCHANGED vars
    <2>1. UNCHANGED channelVars /\ UNCHANGED engineVars
      BY <1>3 DEF UserButton, PressButton, User, Tick, Exited, vars
    <2> QED
      BY <2>1, PeerSteps
  <1> QED
    BY <1>1, <1>2, <1>3

LEMMA EngineIsEngine ==
  ASSUME EngineThread PROVE Alone!AloneNext
  BY DEF EngineThread, EngineStep, Alone!AloneNext, Alone!EngineStep,
     ReceiveStart, ReceiveStop, ReceiveContinue, Timeout, GlideOn, GlideEnds,
     Disconnected, Receives, Settle, SendStatus, engineVars, channelVars,
     Alone!ReceiveStart, Alone!ReceiveStop, Alone!ReceiveContinue, Alone!Timeout,
     Alone!GlideOn, Alone!GlideEnds, Alone!Disconnected, Alone!Receives,
     Alone!Settle, Alone!SendStatus, Alone!engineVars, Alone!channelVars

\* The engine that Momentum implements is the one that is part of the daemon:
\* what the other threads do to it is among what EnginePeers allows.
LEMMA DaemonHasEngine == Spec => Alone!AloneSpec
  <1>1. Init => Alone!AloneInit
    BY DEF Init, ChannelsInit, EngineInit, Alone!AloneInit, Alone!ChannelsInit,
           Alone!EngineInit
  <1>2. TypeInv /\ [Next]_vars => [Alone!AloneNext]_Alone!aloneVars
    <2> SUFFICES ASSUME TypeInv, [Next]_vars
                 PROVE  [Alone!AloneNext]_Alone!aloneVars
      OBVIOUS
    <2>1. CASE ListenerThread
      BY <2>1, ListenerIsPeer DEF ListenerThread
    <2>2. CASE EngineThread
      BY <2>2, EngineIsEngine
    <2> QED
      BY <2>1, <2>2, OtherThreadsArePeers DEF Next
  <1> QED
    BY <1>1, <1>2, TypeInvariant, PTL DEF Spec, Alone!AloneSpec

=============================================================================
