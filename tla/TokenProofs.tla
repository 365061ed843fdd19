----------------------------- MODULE TokenProofs -----------------------------
(***************************************************************************)
(* The listener's half of the protocol, for every value of the constants,  *)
(* in three parts.                                                         *)
(*                                                                         *)
(* The grab: ArmedOnlyWhileActive and StopTouchUnderGrab.  Neither is      *)
(* inductive.  The touch may be judged a stop touch because the listener   *)
(* awaits one, or because the pad is grabbed while inertia runs, and the   *)
(* grab actions collected so far are carried out only later; so GrabInv    *)
(* also says what the collected actions promise.                           *)
(*                                                                         *)
(* The touches: between two landings there is a lift, wherever the events  *)
(* are (queued by the kernel, or fetched and waiting in the batch) and     *)
(* however late the listener reads them.  So no landing is ever handled    *)
(* while a stop touch is in progress (NoLandingInRetouch).                 *)
(*                                                                         *)
(* The tokens: ContinueFollowsStop.  The engine judges a message when it   *)
(* takes it, long after the listener sent it.  So TokenInv speaks of the   *)
(* queue: it says for every prefix of it whether the engine is sure to     *)
(* rest once it has taken that prefix.  A published token, or one about to *)
(* be published, is a promise about the whole queue, which only a          *)
(* StartPointer could break; and the listener sends none while the touch   *)
(* that owns the token lasts.                                              *)
(***************************************************************************)
EXTENDS DaemonProofs

(***************************************************************************)
(* The grab.                                                               *)
(***************************************************************************)
LastAction == grabActions[Len(grabActions)]

\* Where the listener is in its loop determines its state and whether grab
\* actions can be outstanding.
LoopInv ==
  /\ lpc = "lifted" => lstate = "OneFingerMove"
  /\ lpc = "released" => lstate = "MomentumRetouch"
  /\ lpc \in {"top", "fetch", "exit"} => grabActions = <<>>

\* A stop touch in progress is no longer awaited, and a collected Ungrab means
\* that the listener takes inertia for finished.
PromiseInv ==
  /\ lstate = "MomentumRetouch" => ~awaiting
  /\ grabActions # <<>> /\ LastAction = "Ungrab" => ~momentumActive

GrabInv ==
  /\ LoopInv
  /\ PromiseInv
  /\ ArmedOnlyWhileActive
  /\ StopTouchUnderGrab

-----------------------------------------------------------------------------
LEMMA GrabInit == Init => GrabInv
  BY DEF Init, ListenerInit, GrabInv, LoopInv, PromiseInv,
         ArmedOnlyWhileActive, StopTouchUnderGrab, WillBeGrabbed

\* The variables that GrabInv depends on
grabVars == <<lpc, lstate, awaiting, momentumActive, grabbed, ioctlFailures,
              grabActions>>

LEMMA GrabStutter == GrabInv /\ UNCHANGED grabVars => GrabInv'
  BY DEF GrabInv, LoopInv, PromiseInv, ArmedOnlyWhileActive,
         StopTouchUnderGrab, WillBeGrabbed, LastAction, grabVars

LEMMA LastActionTyped ==
  ASSUME Typed, grabActions # <<>>
  PROVE  LastAction \in GrabAction
  <1>1. grabActions \in Seq(GrabAction) /\ Len(grabActions) \in 1..Len(grabActions)
    BY DEF Typed, ListenerTypeOK
  <1> QED
    BY <1>1 DEF LastAction

LEMMA GrabListener ==
  ASSUME Typed, GrabInv, ListenerThread
  PROVE  GrabInv'
  <1> USE DEF GrabInv, LoopInv, PromiseInv, ArmedOnlyWhileActive,
              StopTouchUnderGrab, WillBeGrabbed, LastAction
  <1>1. CASE EngineActive
    BY <1>1 DEF EngineActive
  <1>2. CASE EngineIdle
    BY <1>2 DEF EngineIdle, GiveUpTouchpad
  <1>3. CASE StatusDrained
    BY <1>3 DEF StatusDrained, ReleaseStaleGrab, UngrabTouchpad
  <1>4. CASE FetchNothing \/ FetchEvents \/ StreamEnds
    BY <1>4 DEF FetchNothing, FetchEvents, StreamEnds
  <1>5. CASE PointerMoves \/ IgnoreEarlyRetouch \/ IgnoreLift \/ PadClick
    BY <1>5 DEF PointerMoves, IgnoreEarlyRetouch, IgnoreLift, PadClick, Handles
  <1>6. CASE BeginRetouch
    <2>1. ~awaiting' /\ lpc' = "events" /\ lpc = "events"
          /\ UNCHANGED <<momentumActive, grabbed, ioctlFailures, grabActions>>
      BY <1>6 DEF BeginRetouch, Handles
    <2>2. ASSUME ioctlFailures = 0
          PROVE  WillBeGrabbed
      <3>1. CASE awaiting
        BY <2>1, <2>2, <3>1
      <3>2. CASE grabbed /\ momentumActive
        BY <3>2, LastActionTyped DEF GrabAction
      <3> QED
        BY <1>6, <3>1, <3>2 DEF BeginRetouch, IsRetouch
    <2>3. WillBeGrabbed' <=> WillBeGrabbed
      BY <2>1
    <2> QED
      BY <2>1, <2>2, <2>3
  <1>7. CASE BeginMove
    BY <1>7 DEF BeginMove, Handles, IsRetouch
  <1>8. CASE EndMove
    BY <1>8 DEF EndMove, Handles
  <1>9. CASE StartMomentum
    BY <1>9 DEF StartMomentum, Typed, ListenerTypeOK
  <1>10. CASE RejectMomentum
    BY <1>10 DEF RejectMomentum
  <1>11. CASE EndRetouch
    BY <1>11 DEF EndRetouch, Handles
  <1>12. CASE ReleaseShort
    BY <1>12 DEF ReleaseShort, ReleaseRetouch
  <1>13. CASE ReleaseAfterStop \/ ReleaseConfirmed
    BY <1>13 DEF ReleaseAfterStop, ReleaseConfirmed, ReleaseRetouch, Typed,
                 ListenerTypeOK
  <1>14. CASE Multitouch
    BY <1>14 DEF Multitouch, Handles
  <1>15. CASE BatchDone
    BY <1>15 DEF BatchDone
  <1>16. CASE ApplyGrabAction
    <2>0. grabActions \in Seq(GrabAction) /\ grabActions # <<>>
      BY <1>16 DEF ApplyGrabAction, Typed, ListenerTypeOK
    <2>1. /\ grabActions' = Tail(grabActions)
          /\ lpc = "grabs"
          /\ UNCHANGED <<lpc, lstate, awaiting, momentumActive>>
      BY <1>16 DEF ApplyGrabAction
    <2>2. ioctlFailures' = 0 => ioctlFailures = 0
      BY <1>16 DEF ApplyGrabAction, GrabTouchpad, UngrabTouchpad, Ioctl,
                   Typed, ListenerTypeOK
    <2>3. CASE Tail(grabActions) # <<>>
      <3>1. Tail(grabActions)[Len(Tail(grabActions))] = LastAction
        BY <2>0, <2>3
      <3> QED
        BY <2>0, <2>1, <2>3, <2>2, <3>1
    <2>4. CASE Tail(grabActions) = <<>>
      <3>1. Head(grabActions) = LastAction
        BY <2>0, <2>4
      <3>2. CASE LastAction = "Grab"
        <4>1. GrabTouchpad
          BY <1>16, <3>1, <3>2 DEF ApplyGrabAction
        <4>2. ioctlFailures' = 0 => grabbed'
          BY <4>1 DEF GrabTouchpad, Ioctl, Typed, ListenerTypeOK
        <4> QED
          BY <2>1, <2>4, <4>2
      <3>3. CASE LastAction = "Ungrab"
        BY <2>0, <2>1, <2>4, <2>2, <3>3
      <3> QED
        BY <2>0, <3>2, <3>3, LastActionTyped DEF GrabAction
    <2> QED
      BY <2>3, <2>4
  <1>17. CASE LoopAgain
    BY <1>17 DEF LoopAgain, ReleaseStaleGrab
  <1> QED
    BY <1>1, <1>2, <1>3, <1>4, <1>5, <1>6, <1>7, <1>8, <1>9, <1>10, <1>11,
       <1>12, <1>13, <1>14, <1>15, <1>16, <1>17
    DEF ListenerThread, ListenerStep

LEMMA GrabStep ==
  ASSUME Typed, GrabInv, [Next]_vars
  PROVE  GrabInv'
  <1>1. CASE ListenerThread
    BY <1>1, GrabListener
  <1>2. CASE UNCHANGED listenerVars
    BY <1>2, GrabStutter DEF listenerVars, grabVars
  <1>3. [Next]_vars => ListenerThread \/ UNCHANGED listenerVars
    BY DEF Next, User, UserButton, Tick, ButtonThread, TimerThread,
           EngineThread, Exited, vars
  <1> QED
    BY <1>1, <1>2, <1>3

LEMMA GrabInvariant == Spec => []GrabInv
  <1>1. TypeInv /\ GrabInv /\ [Next]_vars => GrabInv'
    BY GrabStep DEF TypeInv
  <1> QED
    BY GrabInit, TypeInvariant, <1>1, PTL DEF Spec

\* The listener awaits a stop touch only while it believes that inertia runs
\* (touchpad.rs:363-367, 526-527, 566-567, 580-581, 597-598).
THEOREM ArmedImpliesActive == Spec => []ArmedOnlyWhileActive
  BY GrabInvariant, PTL DEF GrabInv

\* The touchpad is grabbed, or about to be, whenever a touch may come or has
\* come to be judged as one that stops inertia (touchpad.rs:366, 387, 459,
\* 530, 643-652, 928).
THEOREM StopTouchIsGrabbed == Spec => []StopTouchUnderGrab
  BY GrabInvariant, PTL DEF GrabInv

(***************************************************************************)
(* The touches.                                                            *)
(***************************************************************************)
\* Every event that the listener has yet to finish with, oldest first
Queued == batch \o pending

IsDown(s, i) == s[i].kind = "down"
IsUp(s, i)   == s[i].kind = "up"

\* Between two landings of s there is a lift ...
Separated(s) ==
  \A i, j \in 1..Len(s) : i < j /\ IsDown(s, i) /\ IsDown(s, j)
    => \E k \in 1..Len(s) : i < k /\ k < j /\ IsUp(s, k)

\* ... before every landing of s there is a lift ...
UpFirst(s) ==
  \A j \in 1..Len(s) : IsDown(s, j)
    => \E i \in 1..Len(s) : i < j /\ IsUp(s, i)

\* ... and after every landing of s there is a lift.
UpLast(s) ==
  \A j \in 1..Len(s) : IsDown(s, j)
    => \E k \in 1..Len(s) : j < k /\ IsUp(s, k)

HasUp(s) == \E k \in 1..Len(s) : IsUp(s, k)

Retouching == lstate = "MomentumRetouch"

TouchInv ==
  /\ lpc \notin {"events", "lifted", "released"} => batch = <<>>
  /\ lpc \in {"lifted", "released"} => batch # <<>> /\ Head(batch).kind = "up"
  /\ Separated(Queued)
  /\ Retouching => UpFirst(Queued)
  /\ ~finger /\ ~unplugged => UpLast(Queued) /\ (Retouching => HasUp(Queued))

-----------------------------------------------------------------------------
LEMMA AppendKeeps ==
  ASSUME NEW s \in Seq(Event), NEW e \in Event
  PROVE  /\ e.kind # "down" /\ Separated(s) => Separated(Append(s, e))
         /\ e.kind # "down" /\ UpFirst(s) => UpFirst(Append(s, e))
         /\ e.kind = "up" => UpLast(Append(s, e)) /\ HasUp(Append(s, e))
         /\ e.kind = "down" /\ Separated(s) /\ UpLast(s)
              => Separated(Append(s, e))
         /\ e.kind = "down" /\ UpFirst(s) /\ HasUp(s) => UpFirst(Append(s, e))
  <1> DEFINE t == Append(s, e)
  <1>1. /\ Len(s) \in Nat /\ Len(t) = Len(s) + 1
        /\ t[Len(s) + 1] = e
        /\ \A i \in 1..Len(s) : t[i] = s[i]
    BY AppendProperties, LenProperties
  <1> HIDE DEF t
  <1> USE <1>1 DEF IsDown, IsUp
  <1>2. ASSUME e.kind # "down", Separated(s)
        PROVE  Separated(t)
    BY <1>2 DEF Separated
  <1>3. ASSUME e.kind # "down", UpFirst(s)
        PROVE  UpFirst(t)
    BY <1>3 DEF UpFirst
  <1>4. ASSUME e.kind = "up"
        PROVE  UpLast(t) /\ HasUp(t)
    BY <1>4 DEF UpLast, HasUp
  <1>5. ASSUME e.kind = "down", Separated(s), UpLast(s)
        PROVE  Separated(t)
    BY <1>5 DEF Separated, UpLast
  <1>6. ASSUME e.kind = "down", UpFirst(s), HasUp(s)
        PROVE  UpFirst(t)
    BY <1>6 DEF UpFirst, HasUp
  <1> QED
    BY <1>2, <1>3, <1>4, <1>5, <1>6 DEF t

LEMMA TailKeeps ==
  ASSUME NEW s \in Seq(Event), s # <<>>
  PROVE  /\ Separated(s) => Separated(Tail(s))
         /\ UpLast(s) => UpLast(Tail(s))
         /\ IsDown(s, 1) /\ Separated(s) => UpFirst(Tail(s))
         /\ IsDown(s, 1) /\ UpLast(s) => HasUp(Tail(s))
         /\ ~IsUp(s, 1) /\ UpFirst(s) => UpFirst(Tail(s))
         /\ ~IsUp(s, 1) /\ HasUp(s) => HasUp(Tail(s))
         /\ UpFirst(s) => ~IsDown(s, 1)
  <1> DEFINE t == Tail(s)
  <1>1. /\ Len(s) \in Nat /\ Len(s) >= 1 /\ Len(t) = Len(s) - 1
        /\ \A i \in 1..Len(t) : t[i] = s[i + 1]
    BY HeadTailProperties, LenProperties, EmptySeq
  <1>2. \A i \in 1..Len(s) : i > 1 => i - 1 \in 1..Len(t) /\ s[i] = t[i - 1]
    BY <1>1
  <1> HIDE DEF t
  <1> USE <1>1, <1>2 DEF IsDown, IsUp
  <1>3. ASSUME Separated(s)
        PROVE  Separated(t)
    <2> SUFFICES ASSUME NEW i \in 1..Len(t), NEW j \in 1..Len(t),
                        i < j, IsDown(t, i), IsDown(t, j)
                 PROVE  \E k \in 1..Len(t) : i < k /\ k < j /\ IsUp(t, k)
      BY DEF Separated
    <2>1. PICK k \in 1..Len(s) : i + 1 < k /\ k < j + 1 /\ IsUp(s, k)
      BY <1>3 DEF Separated
    <2> QED
      BY <2>1
  <1>4. ASSUME UpLast(s)
        PROVE  UpLast(t)
    <2> SUFFICES ASSUME NEW i \in 1..Len(t), IsDown(t, i)
                 PROVE  \E k \in 1..Len(t) : i < k /\ IsUp(t, k)
      BY DEF UpLast
    <2>1. PICK k \in 1..Len(s) : i + 1 < k /\ IsUp(s, k)
      BY <1>4 DEF UpLast
    <2> QED
      BY <2>1
  <1>5. ASSUME IsDown(s, 1), Separated(s)
        PROVE  UpFirst(t)
    <2> SUFFICES ASSUME NEW j \in 1..Len(t), IsDown(t, j)
                 PROVE  \E i \in 1..Len(t) : i < j /\ IsUp(t, i)
      BY DEF UpFirst
    <2>1. PICK k \in 1..Len(s) : 1 < k /\ k < j + 1 /\ IsUp(s, k)
      BY <1>5 DEF Separated
    <2> QED
      BY <2>1
  <1>6. ASSUME IsDown(s, 1), UpLast(s)
        PROVE  HasUp(t)
    <2>1. PICK k \in 1..Len(s) : 1 < k /\ IsUp(s, k)
      BY <1>6 DEF UpLast
    <2> QED
      BY <2>1 DEF HasUp
  <1>7. ASSUME ~IsUp(s, 1), UpFirst(s)
        PROVE  UpFirst(t)
    <2> SUFFICES ASSUME NEW j \in 1..Len(t), IsDown(t, j)
                 PROVE  \E i \in 1..Len(t) : i < j /\ IsUp(t, i)
      BY DEF UpFirst
    <2>1. PICK k \in 1..Len(s) : k < j + 1 /\ IsUp(s, k)
      BY <1>7 DEF UpFirst
    <2>2. k > 1
      BY <1>7, <2>1
    <2> QED
      BY <2>1, <2>2
  <1>8. ASSUME ~IsUp(s, 1), HasUp(s)
        PROVE  HasUp(t)
    <2>1. PICK k \in 1..Len(s) : IsUp(s, k)
      BY <1>8 DEF HasUp
    <2>2. k > 1
      BY <1>8, <2>1
    <2> QED
      BY <2>1, <2>2 DEF HasUp
  <1>9. UpFirst(s) => ~IsDown(s, 1)
    BY DEF UpFirst
  <1> QED
    BY <1>3, <1>4, <1>5, <1>6, <1>7, <1>8, <1>9 DEF t

LEMMA PrefixKeeps ==
  ASSUME NEW s \in Seq(Event), NEW r \in Seq(Event)
  PROVE  /\ Separated(s \o r) => Separated(s)
         /\ UpFirst(s \o r) => UpFirst(s)
  <1> DEFINE t == s \o r
  <1>1. /\ Len(s) \in Nat /\ Len(r) \in Nat /\ Len(t) = Len(s) + Len(r)
        /\ \A i \in 1..Len(s) : i \in 1..Len(t) /\ t[i] = s[i]
    BY ConcatProperties, LenProperties
  <1> HIDE DEF t
  <1> USE <1>1 DEF IsDown, IsUp
  <1>2. ASSUME Separated(t)
        PROVE  Separated(s)
    <2> SUFFICES ASSUME NEW i \in 1..Len(s), NEW j \in 1..Len(s),
                        i < j, IsDown(s, i), IsDown(s, j)
                 PROVE  \E k \in 1..Len(s) : i < k /\ k < j /\ IsUp(s, k)
      BY DEF Separated
    <2>1. PICK k \in 1..Len(t) : i < k /\ k < j /\ IsUp(t, k)
      BY <1>2 DEF Separated
    <2> QED
      BY <2>1
  <1>3. ASSUME UpFirst(t)
        PROVE  UpFirst(s)
    <2> SUFFICES ASSUME NEW j \in 1..Len(s), IsDown(s, j)
                 PROVE  \E i \in 1..Len(s) : i < j /\ IsUp(s, i)
      BY DEF UpFirst
    <2>1. PICK i \in 1..Len(t) : i < j /\ IsUp(t, i)
      BY <1>3 DEF UpFirst
    <2> QED
      BY <2>1
  <1> QED
    BY <1>2, <1>3 DEF t

-----------------------------------------------------------------------------
LEMMA TouchInit == Init => TouchInv
  BY DEF Init, DeviceInit, ListenerInit, TouchInv, Queued, Separated, UpFirst,
         UpLast, Retouching

\* The variables that TouchInv depends on
touchVars == <<lpc, batch, pending, lstate, finger, unplugged>>

LEMMA TouchStutter == TouchInv /\ UNCHANGED touchVars => TouchInv'
  BY DEF TouchInv, Queued, Separated, UpFirst, UpLast, HasUp, IsDown, IsUp,
         Retouching, touchVars

LEMMA SameQueue ==
  ASSUME Queued' = Queued
  PROVE  /\ Separated(Queued)' <=> Separated(Queued)
         /\ UpFirst(Queued)' <=> UpFirst(Queued)
         /\ UpLast(Queued)' <=> UpLast(Queued)
         /\ HasUp(Queued)' <=> HasUp(Queued)
  BY DEF Separated, UpFirst, UpLast, HasUp, IsDown, IsUp

LEMMA QueuedTyped ==
  ASSUME Typed
  PROVE  /\ batch \in Seq(Event) /\ pending \in Seq(Event)
         /\ Queued \in Seq(Event)
  BY DEF Typed, ListenerTypeOK, DeviceTypeOK, Queued

LEMMA QueuedHead ==
  ASSUME Typed, batch # <<>>
  PROVE  /\ Queued # <<>>
         /\ Queued[1] = Head(batch)
         /\ Tail(Queued) = Tail(batch) \o pending
  BY QueuedTyped DEF Queued

\* A handler that finishes with the event at the head of the batch
LEMMA ConsumeKeeps ==
  ASSUME Typed, TouchInv,
         batch # <<>>, batch' = Tail(batch), lpc' = "events",
         UNCHANGED <<pending, finger, unplugged>>,
         Retouching' => \/ Head(batch).kind = "down"
                        \/ Retouching /\ Head(batch).kind # "up"
  PROVE  TouchInv'
  <1>1. Queued \in Seq(Event) /\ Queued # <<>> /\ Queued' = Tail(Queued)
        /\ Queued[1] = Head(batch)
    BY QueuedTyped, QueuedHead DEF Queued
  <1> DEFINE s == Queued
             t == Tail(Queued)
  <1>2. /\ Separated(s) => Separated(t)
        /\ UpLast(s) => UpLast(t)
        /\ IsDown(s, 1) /\ Separated(s) => UpFirst(t)
        /\ IsDown(s, 1) /\ UpLast(s) => HasUp(t)
        /\ ~IsUp(s, 1) /\ UpFirst(s) => UpFirst(t)
        /\ ~IsUp(s, 1) /\ HasUp(s) => HasUp(t)
    BY <1>1, TailKeeps
  <1>3. /\ IsDown(s, 1) <=> Head(batch).kind = "down"
        /\ IsUp(s, 1) <=> Head(batch).kind = "up"
    BY <1>1 DEF IsDown, IsUp
  <1>4. /\ Separated(Queued)' <=> Separated(t)
        /\ UpFirst(Queued)' <=> UpFirst(t)
        /\ UpLast(Queued)' <=> UpLast(t)
        /\ HasUp(Queued)' <=> HasUp(t)
    BY <1>1 DEF Separated, UpFirst, UpLast, HasUp, IsDown, IsUp
  <1> HIDE DEF s, t
  <1> QED
    BY <1>2, <1>3, <1>4 DEF TouchInv, s

LEMMA TouchListener ==
  ASSUME Typed, BatchHeld, TouchInv, ListenerThread
  PROVE  TouchInv'
  <1> USE DEF Retouching
  <1>1. CASE EngineActive \/ EngineIdle \/ StatusDrained \/ FetchNothing
             \/ StreamEnds \/ BatchDone \/ ApplyGrabAction \/ LoopAgain
    <2>1. /\ UNCHANGED <<batch, pending, lstate, finger, unplugged>>
          /\ lpc' \notin {"events", "lifted", "released"}
          /\ batch = <<>>
      BY <1>1 DEF EngineActive, EngineIdle, StatusDrained, FetchNothing,
                  StreamEnds, BatchDone, ApplyGrabAction, LoopAgain,
                  deviceVars, TouchInv
    <2>2. Queued' = Queued
      BY <2>1 DEF Queued
    <2> QED
      BY <2>1, <2>2, SameQueue DEF TouchInv
  <1>2. CASE FetchEvents
    <2>1. /\ batch = <<>> /\ batch' \o pending' = pending
          /\ lpc' = "events"
          /\ UNCHANGED <<lstate, finger, unplugged>>
      BY <1>2, Fetched DEF FetchEvents, TouchInv
    <2>2. Queued' = Queued
      BY <2>1, QueuedTyped DEF Queued
    <2> QED
      BY <2>1, <2>2, SameQueue DEF TouchInv
  <1>3. CASE PointerMoves \/ PadClick
    BY <1>3, ConsumeKeeps DEF PointerMoves, PadClick, Handles, deviceVars
  <1>4. CASE IgnoreEarlyRetouch \/ BeginRetouch \/ BeginMove
    BY <1>4, ConsumeKeeps DEF IgnoreEarlyRetouch, BeginRetouch, BeginMove,
                              Handles, deviceVars
  <1>5. CASE IgnoreLift \/ Multitouch
    BY <1>5, ConsumeKeeps DEF IgnoreLift, Multitouch, Handles, deviceVars
  <1>6. CASE (EndMove /\ lpc' # "lifted") \/ StartMomentum \/ RejectMomentum
    <2>1. /\ batch # <<>> /\ batch' = Tail(batch) /\ lpc' = "events"
          /\ UNCHANGED <<pending, finger, unplugged>>
          /\ lstate' = "Idle"
      BY <1>6 DEF EndMove, StartMomentum, RejectMomentum, Handles, BatchHeld,
                  deviceVars
    <2> QED
      BY <2>1, ConsumeKeeps
  <1>7. CASE ReleaseShort \/ ReleaseAfterStop \/ ReleaseConfirmed
    <2>1. /\ batch # <<>> /\ batch' = Tail(batch) /\ lpc' = "events"
          /\ UNCHANGED <<pending, finger, unplugged>>
          /\ lstate' = "Idle"
      BY <1>7 DEF ReleaseShort, ReleaseAfterStop, ReleaseConfirmed,
                  ReleaseRetouch, BatchHeld, deviceVars
    <2> QED
      BY <2>1, ConsumeKeeps
  <1>8. CASE (EndMove /\ lpc' = "lifted") \/ EndRetouch
    <2>1. /\ UNCHANGED <<batch, pending, lstate, finger, unplugged>>
          /\ lpc' \in {"lifted", "released"}
          /\ batch # <<>> /\ Head(batch).kind = "up"
      BY <1>8 DEF EndMove, EndRetouch, Handles, deviceVars
    <2>2. Queued' = Queued
      BY <2>1 DEF Queued
    <2> QED
      BY <2>1, <2>2, SameQueue DEF TouchInv
  <1> QED
    BY <1>1, <1>2, <1>3, <1>4, <1>5, <1>6, <1>7, <1>8
    DEF ListenerThread, ListenerStep

\* What the kernel queues continues what the listener has yet to read.
LEMMA EmitQueues ==
  ASSUME Typed, NEW kind \in EventKind, Emit(kind), batch' = batch
  PROVE  \E e \in Event : e.kind = kind /\ Queued' = Append(Queued, e)
  <1> DEFINE e == [kind |-> kind, ts |-> clock]
  <1>1. e \in Event
    BY DEF Typed, DeviceTypeOK, Event
  <1>2. pending' = Append(pending, e)
    BY DEF Emit
  <1>3. Queued' = Append(Queued, e)
    BY <1>1, <1>2, QueuedTyped DEF Queued
  <1> QED
    BY <1>1, <1>3

LEMMA TouchUser ==
  ASSUME Typed, TouchInv, User
  PROVE  TouchInv'
  <1>1. UNCHANGED <<batch, lpc, lstate>>
    BY DEF User, listenerVars
  <1>2. Queued \in Seq(Event)
    BY QueuedTyped
  <1>3. ASSUME NEW kind \in EventKind, Emit(kind),
               kind = "down" => ~finger /\ finger',
               kind = "up" => finger /\ ~finger',
               kind \notin {"down", "up"} => finger'
        PROVE  TouchInv'
    <2>1. PICK e \in Event : e.kind = kind /\ Queued' = Append(Queued, e)
      BY <1>1, <1>3, EmitQueues
    <2> DEFINE s == Queued
               t == Append(Queued, e)
    <2>2. /\ e.kind # "down" /\ Separated(s) => Separated(t)
          /\ e.kind # "down" /\ UpFirst(s) => UpFirst(t)
          /\ e.kind = "up" => UpLast(t) /\ HasUp(t)
          /\ e.kind = "down" /\ Separated(s) /\ UpLast(s) => Separated(t)
          /\ e.kind = "down" /\ UpFirst(s) /\ HasUp(s) => UpFirst(t)
      BY <1>2, AppendKeeps
    <2>3. /\ Separated(Queued)' <=> Separated(t)
          /\ UpFirst(Queued)' <=> UpFirst(t)
          /\ UpLast(Queued)' <=> UpLast(t)
          /\ HasUp(Queued)' <=> HasUp(t)
      BY <2>1 DEF Separated, UpFirst, UpLast, HasUp, IsDown, IsUp
    <2>4. ~unplugged
      BY <1>3 DEF Emit
    <2> HIDE DEF s, t
    <2> QED
      BY <1>1, <1>3, <2>1, <2>2, <2>3, <2>4 DEF TouchInv, s, Retouching
  <1>4. CASE FingerDown
    BY <1>3, <1>4 DEF FingerDown, EventKind
  <1>5. CASE FingerUp
    BY <1>3, <1>5 DEF FingerUp, EventKind
  <1>6. ASSUME NEW kind \in Gestures, FingerGesture(kind)
        PROVE  TouchInv'
    <2>1. kind \in {"move", "click", "multi"}
      BY DeviceAssumption DEF DeviceAssumption
    <2> QED
      BY <1>3, <1>6, <2>1 DEF FingerGesture, EventKind
  <1>7. CASE Unplug
    <2>1. /\ pending' = <<>> /\ unplugged' = TRUE /\ Queued' = batch
          /\ batch \in Seq(Event) /\ pending \in Seq(Event)
      BY <1>1, <1>7, QueuedTyped DEF Unplug, Queued
    <2>2. /\ Separated(Queued) => Separated(batch)
          /\ UpFirst(Queued) => UpFirst(batch)
      BY <2>1, PrefixKeeps DEF Queued
    <2>3. /\ Separated(Queued)' <=> Separated(batch)
          /\ UpFirst(Queued)' <=> UpFirst(batch)
      BY <2>1 DEF Separated, UpFirst, IsDown, IsUp
    <2> QED
      BY <1>1, <2>1, <2>2, <2>3 DEF TouchInv, Retouching
  <1> QED
    BY <1>4, <1>5, <1>6, <1>7 DEF User, UserStep

LEMMA TouchStep ==
  ASSUME Typed, BatchHeld, TouchInv, [Next]_vars
  PROVE  TouchInv'
  <1>1. [Next]_vars => User \/ ListenerThread \/ UNCHANGED touchVars
    BY DEF Next, UserButton, PressButton, Tick, AdvanceClock, ButtonThread,
           ButtonStep, TimerThread, TimerStep, EngineThread, Exited, vars,
           listenerVars, deviceVars, touchVars
  <1> QED
    BY <1>1, TouchUser, TouchListener, TouchStutter

LEMMA TouchInvariant == Spec => []TouchInv
  <1>1. TypeInv /\ TouchInv /\ [Next]_vars => TouchInv'
    BY TouchStep DEF TypeInv
  <1> QED
    BY TouchInit, TypeInvariant, <1>1, PTL DEF Spec

\* What the token protocol needs: a stop touch is lifted before the listener
\* takes up the next landing (touchpad.rs:457-501, 550-606).
LEMMA NoLandingInRetouch ==
  ASSUME Typed, TouchInv, Handles("down")
  PROVE  lstate # "MomentumRetouch"
  <1>1. /\ Queued \in Seq(Event) /\ Queued # <<>> /\ IsDown(Queued, 1)
    BY QueuedTyped, QueuedHead DEF Handles, IsDown
  <1>2. ~UpFirst(Queued)
    BY <1>1, TailKeeps
  <1> QED
    BY <1>2 DEF TouchInv, Retouching

(***************************************************************************)
(* The tokens.                                                             *)
(***************************************************************************)
\* Having taken the first k messages of the queue, the engine rests.
QuietAfter(k) ==
  IF k = 0 THEN mode # "PointerMomentum" ELSE chan[k] # "StartPointer"

\* Having taken every message of the queue, the engine rests.
EndQuiet == QuietAfter(Len(chan))

\* Every ContinuePointer of the queue will find the engine at rest.
QueueInv ==
  \A i \in 1..Len(chan) : chan[i] = "ContinuePointer" => QuietAfter(i - 1)

\* No token is used before it is handed out, and only a stop touch has one.
CurrentInv ==
  /\ stoppedToken <= activeToken
  /\ curToken <= activeToken
  /\ curToken # 0 => lstate = "MomentumRetouch"

\* A timer that has sent its Stop for the touch in progress
Publishing(tm) == tm.phase = "sent" /\ tm.token = curToken /\ curToken # 0

TokenInv ==
  /\ QueueInv
  /\ CurrentInv
  /\ RetouchIsStopped => EndQuiet
  /\ \A tm \in timers : Publishing(tm) => EndQuiet

-----------------------------------------------------------------------------
LEMMA TokenInit == Init => TokenInv
  BY DEF Init, ChannelsInit, TimerInit, ListenerInit, TokenInv, QueueInv,
         CurrentInv, RetouchIsStopped

\* A message joins the queue.
LEMMA SendKeeps ==
  ASSUME Typed, QueueInv, NEW m \in MomentumMessage, Send(m), mode' = mode,
         m = "ContinuePointer" => EndQuiet
  PROVE  QueueInv' /\ (EndQuiet' <=> m # "StartPointer")
  <1> DEFINE n == Len(chan)
  <1>1. /\ n \in Nat /\ Len(chan') = n + 1 /\ chan'[n + 1] = m
        /\ \A i \in 1..n : chan'[i] = chan[i]
    BY AppendProperties, LenProperties DEF Typed, Send
  <1>2. ASSUME NEW k \in 0..n
        PROVE  QuietAfter(k)' <=> QuietAfter(k)
    BY <1>1, <1>2 DEF QuietAfter
  <1> HIDE DEF n
  <1>3. EndQuiet' <=> m # "StartPointer"
    BY <1>1 DEF EndQuiet, QuietAfter
  <1>4. EndQuiet <=> QuietAfter(n)
    BY DEF EndQuiet, n
  <1>5. ASSUME NEW i \in 1..(n + 1), chan'[i] = "ContinuePointer"
        PROVE  QuietAfter(i - 1)'
    <2>1. i - 1 \in 0..n
      BY <1>1
    <2>2. CASE i = n + 1
      BY <1>1, <1>2, <1>4, <1>5, <2>1, <2>2
    <2>3. CASE i \in 1..n
      BY <1>1, <1>2, <1>5, <2>1, <2>3 DEF QueueInv, n
    <2> QED
      BY <1>1, <2>2, <2>3
  <1>6. QueueInv'
    BY <1>1, <1>5 DEF QueueInv
  <1> QED
    BY <1>3, <1>6

\* The queue stays as it is, and the engine starts nothing.
LEMMA QueueKept ==
  ASSUME chan' = chan, mode' = "PointerMomentum" => mode = "PointerMomentum"
  PROVE  /\ QueueInv => QueueInv'
         /\ EndQuiet => EndQuiet'
  BY DEF QueueInv, EndQuiet, QuietAfter

\* The engine takes a message, and glides if it says so.
LEMMA ReceiveKeeps ==
  ASSUME Typed, QueueInv, chan # <<>>, chan' = Tail(chan),
         mode' = "PointerMomentum" <=> Head(chan) = "StartPointer"
  PROVE  QueueInv' /\ (EndQuiet' <=> EndQuiet)
  <1>0. PICK n \in Nat : n = Len(chan)
    BY LenProperties DEF Typed
  <1>1. /\ n \in Nat /\ n >= 1 /\ Len(chan') = n - 1
        /\ chan[1] = Head(chan)
        /\ \A i \in 1..(n - 1) : chan'[i] = chan[i + 1]
    BY <1>0, HeadTailProperties, LenProperties, EmptySeq DEF Typed
  <1>2. ASSUME NEW k \in 0..(n - 1)
        PROVE  QuietAfter(k)' <=> QuietAfter(k + 1)
    <2>1. CASE k = 0
      BY <1>1, <2>1 DEF QuietAfter
    <2>2. CASE k \in 1..(n - 1)
      BY <1>1, <2>2 DEF QuietAfter
    <2> QED
      BY <1>1, <2>1, <2>2
  <1>3. EndQuiet <=> QuietAfter(n)
    BY <1>0 DEF EndQuiet
  <1>4. EndQuiet' <=> QuietAfter(n - 1)'
    BY <1>1 DEF EndQuiet, QuietAfter
  <1>5. EndQuiet' <=> EndQuiet
    <2>1. n - 1 \in 0..(n - 1) /\ (n - 1) + 1 = n
      BY <1>1
    <2>2. QuietAfter(n - 1)' <=> QuietAfter((n - 1) + 1)
      BY <1>2, <2>1
    <2> QED
      BY <1>3, <1>4, <2>1, <2>2
  <1>6. ASSUME NEW i \in 1..(n - 1), chan'[i] = "ContinuePointer"
        PROVE  QuietAfter(i - 1)'
    <2>1. i + 1 \in 1..n /\ i - 1 \in 0..(n - 1) /\ (i + 1) - 1 = (i - 1) + 1
      BY <1>1
    <2>2. QuietAfter((i + 1) - 1)
      BY <1>0, <1>1, <1>6, <2>1 DEF QueueInv
    <2> QED
      BY <1>2, <2>1, <2>2
  <1>7. QueueInv'
    BY <1>1, <1>6 DEF QueueInv
  <1> QED
    BY <1>5, <1>7

-----------------------------------------------------------------------------
\* A token that no timer has yet, and that has not been published
LEMMA FreshToken ==
  ASSUME Typed, TimersDistinct, CurrentInv
  PROVE  /\ activeToken + 1 \in Nat /\ activeToken + 1 # 0
         /\ stoppedToken # activeToken + 1
         /\ \A tm \in timers : tm.token # activeToken + 1
  <1>1. /\ activeToken \in Nat /\ stoppedToken \in Nat
        /\ \A tm \in timers : tm.token \in Nat
    BY DEF Typed, TimerTypeOK, Timer
  <1> QED
    BY <1>1 DEF TimersDistinct, CurrentInv

\* Steps of the listener that send nothing and leave the tokens alone
tokenVars == <<stoppedToken, curToken, timers>>

LEMMA TokenKept ==
  ASSUME TokenInv, UNCHANGED tokenVars,
         chan' = chan, mode' = "PointerMomentum" => mode = "PointerMomentum",
         CurrentInv'
  PROVE  TokenInv'
  BY QueueKept DEF TokenInv, tokenVars, RetouchIsStopped, Publishing

\* Steps that send a Stop, or the motion of a finger whose touch has stopped
\* inertia, and leave the tokens alone
LEMMA TokenSent ==
  ASSUME Typed, TokenInv, UNCHANGED tokenVars,
         NEW m \in MomentumMessage, Send(m), mode' = mode,
         m # "StartPointer", m = "ContinuePointer" => RetouchIsStopped,
         CurrentInv'
  PROVE  TokenInv'
  <1>1. QueueInv' /\ EndQuiet'
    BY SendKeeps DEF TokenInv
  <1> QED
    BY <1>1 DEF TokenInv

\* Steps after which no touch has a token
LEMMA TokenRetired ==
  ASSUME QueueInv', CurrentInv', curToken' = 0
  PROVE  TokenInv'
  BY DEF TokenInv, RetouchIsStopped, Publishing

LEMMA TokenListener ==
  ASSUME Typed, TimersDistinct, BatchHeld, GrabInv, TouchInv, TokenInv,
         ListenerThread
  PROVE  TokenInv'
  <1>0. /\ activeToken \in Nat /\ stoppedToken \in Nat /\ curToken \in Nat
        /\ mode' = mode
    BY DEF Typed, TimerTypeOK, ListenerTypeOK, ListenerThread, engineVars
  <1> USE DEF CurrentInv, tokenVars, timerVars, channelVars, MomentumMessage
  <1>1. CASE EngineActive \/ EngineIdle \/ StatusDrained \/ FetchNothing
             \/ FetchEvents \/ StreamEnds \/ BatchDone \/ ApplyGrabAction
             \/ LoopAgain \/ IgnoreEarlyRetouch \/ IgnoreLift \/ EndRetouch
    <2>1. UNCHANGED <<chan, stoppedToken, activeToken, curToken, timers, lstate>>
      BY <1>1 DEF EngineActive, EngineIdle, StatusDrained, FetchNothing,
                  FetchEvents, StreamEnds, BatchDone, ApplyGrabAction,
                  LoopAgain, IgnoreEarlyRetouch, IgnoreLift, EndRetouch
    <2> QED
      BY <1>0, <2>1, TokenKept DEF TokenInv
  <1>2. CASE EndMove \/ RejectMomentum
    <2>1. /\ UNCHANGED <<chan, stoppedToken, activeToken, curToken, timers>>
          /\ lstate # "MomentumRetouch"
      BY <1>2 DEF EndMove, RejectMomentum, GrabInv, LoopInv
    <2>2. curToken = 0
      BY <2>1 DEF TokenInv
    <2> QED
      BY <1>0, <2>1, <2>2, TokenKept DEF TokenInv
  <1>3. CASE PointerMoves
    <2>1. UNCHANGED <<stoppedToken, activeToken, curToken, timers, lstate>>
      BY <1>3 DEF PointerMoves
    <2>2. CASE RetouchIsStopped /\ Send("ContinuePointer")
      BY <1>0, <2>1, <2>2, TokenSent DEF TokenInv
    <2>3. CASE UNCHANGED chan
      BY <1>0, <2>1, <2>3, TokenKept DEF TokenInv
    <2> QED
      BY <1>3, <2>2, <2>3 DEF PointerMoves
  <1>4. CASE PadClick
    <2>1. /\ UNCHANGED <<stoppedToken, activeToken, curToken, timers, lstate>>
          /\ Send("Stop")
      BY <1>4 DEF PadClick
    <2> QED
      BY <1>0, <2>1, TokenSent DEF TokenInv
  <1>5. CASE BeginMove
    <2>1. /\ UNCHANGED <<stoppedToken, activeToken, curToken, timers>>
          /\ Send("Stop") /\ Handles("down")
      BY <1>5 DEF BeginMove
    <2>2. curToken = 0
      BY <2>1, NoLandingInRetouch DEF TokenInv
    <2> QED
      BY <1>0, <2>1, <2>2, TokenSent DEF TokenInv
  <1>6. CASE BeginRetouch
    <2>1. /\ UNCHANGED <<chan, stoppedToken>>
          /\ activeToken' = activeToken + 1 /\ curToken' = activeToken + 1
          /\ lstate' = "MomentumRetouch"
          /\ ArmTimer(activeToken + 1)
      BY <1>6 DEF BeginRetouch
    <2>2. \A tm \in timers' : tm.token # curToken' \/ tm.phase = "asleep"
      BY <2>1, FreshToken DEF ArmTimer, TokenInv
    <2>3. ~RetouchIsStopped'
      BY <2>1, FreshToken DEF RetouchIsStopped, TokenInv
    <2>4. CurrentInv'
      BY <1>0, <2>1 DEF TokenInv
    <2>5. QueueInv'
      BY <1>0, <2>1, QueueKept DEF TokenInv
    <2> QED
      BY <2>2, <2>3, <2>4, <2>5 DEF TokenInv, Publishing
  <1>7. CASE StartMomentum
    <2>1. /\ UNCHANGED <<stoppedToken, activeToken, curToken, timers>>
          /\ Send("StartPointer") /\ lstate # "MomentumRetouch"
      BY <1>7 DEF StartMomentum, GrabInv, LoopInv
    <2>2. curToken' = 0
      BY <2>1 DEF TokenInv
    <2>3. QueueInv'
      BY <1>0, <2>1, SendKeeps DEF TokenInv
    <2> QED
      BY <1>0, <2>1, <2>2, <2>3, TokenRetired DEF TokenInv
  <1>8. CASE ReleaseShort \/ ReleaseAfterStop
    <2>1. /\ UNCHANGED <<chan, stoppedToken>>
          /\ activeToken' = activeToken + 1 /\ curToken' = 0
      BY <1>8 DEF ReleaseShort, ReleaseAfterStop, ReleaseRetouch
    <2>2. QueueInv'
      BY <1>0, <2>1, QueueKept DEF TokenInv
    <2> QED
      BY <1>0, <2>1, <2>2, TokenRetired DEF TokenInv
  <1>9. CASE ReleaseConfirmed
    <2>1. /\ Send("Stop") /\ stoppedToken' = curToken
          /\ activeToken' = activeToken + 1 /\ curToken' = 0
      BY <1>9 DEF ReleaseConfirmed, ReleaseRetouch
    <2>2. QueueInv'
      BY <1>0, <2>1, SendKeeps DEF TokenInv
    <2> QED
      BY <1>0, <2>1, <2>2, TokenRetired DEF TokenInv
  <1>10. CASE Multitouch
    <2>1. /\ Send("Stop") /\ UNCHANGED stoppedToken
          /\ activeToken' = activeToken + 1 /\ curToken' = 0
      BY <1>10 DEF Multitouch
    <2>2. QueueInv'
      BY <1>0, <2>1, SendKeeps DEF TokenInv
    <2> QED
      BY <1>0, <2>1, <2>2, TokenRetired DEF TokenInv
  <1> QED
    BY <1>1, <1>2, <1>3, <1>4, <1>5, <1>6, <1>7, <1>8, <1>9, <1>10
    DEF ListenerThread, ListenerStep

LEMMA TokenTimer ==
  ASSUME Typed, TimersDistinct, TokenInv, NEW tm \in timers, TimerThread(tm)
  PROVE  TokenInv'
  <1>0. /\ activeToken \in Nat /\ stoppedToken \in Nat /\ curToken \in Nat
        /\ \A t \in timers : t \in Timer
        /\ UNCHANGED <<mode, curToken, lstate, activeToken>>
    BY DEF Typed, TimerTypeOK, ListenerTypeOK, TimerThread, TimerStep,
           TimerStale, TimerConfirm, TimerSendStop, TimerPublish,
           listenerVars, engineVars
  <1> USE DEF CurrentInv
  <1>1. CASE TimerStale(tm)
    <2>1. UNCHANGED <<chan, stoppedToken>> /\ timers' \subseteq timers
      BY <1>1 DEF TimerStale
    <2> QED
      BY <1>0, <2>1, QueueKept DEF TokenInv, RetouchIsStopped, Publishing
  <1>2. CASE TimerConfirm(tm)
    <2>1. UNCHANGED <<chan, stoppedToken>>
      BY <1>2 DEF TimerConfirm, channelVars
    <2>2. \A t \in timers' : t \in timers \/ t.phase = "confirmed"
      BY <1>0, <1>2 DEF TimerConfirm, Moved, Timer
    <2> QED
      BY <1>0, <2>1, <2>2, QueueKept DEF TokenInv, RetouchIsStopped, Publishing
  <1>3. CASE TimerSendStop(tm)
    <2>1. Send("Stop") /\ UNCHANGED stoppedToken
      BY <1>3 DEF TimerSendStop
    <2>2. QueueInv' /\ EndQuiet'
      BY <1>0, <2>1, SendKeeps DEF TokenInv, MomentumMessage
    <2> QED
      BY <1>0, <2>1, <2>2 DEF TokenInv
  <1>4. CASE TimerPublish(tm)
    <2>1. /\ UNCHANGED chan /\ timers' \subseteq timers
          /\ stoppedToken' = tm.token /\ tm.phase = "sent"
          /\ tm.token <= activeToken
      BY <1>4 DEF TimerPublish, TimersDistinct
    <2>2. RetouchIsStopped' => EndQuiet
      BY <1>0, <2>1 DEF TokenInv, RetouchIsStopped, Publishing
    <2> QED
      BY <1>0, <2>1, <2>2, QueueKept DEF TokenInv, Publishing
  <1> QED
    BY <1>1, <1>2, <1>3, <1>4 DEF TimerThread, TimerStep

LEMMA TokenEngine ==
  ASSUME Typed, TokenInv, EngineThread
  PROVE  TokenInv'
  <1>0. UNCHANGED <<stoppedToken, activeToken, curToken, timers, lstate>>
    BY DEF EngineThread, timerVars, listenerVars
  <1> USE DEF CurrentInv, RetouchIsStopped, Publishing
  <1>1. ASSUME NEW m \in MomentumMessage, Receives(m),
               mode' = "PointerMomentum" <=> m = "StartPointer"
        PROVE  TokenInv'
    BY <1>0, <1>1, ReceiveKeeps DEF TokenInv, Receives
  <1>2. CASE ReceiveStart
    BY <1>1, <1>2 DEF ReceiveStart, MomentumMessage
  <1>3. CASE ReceiveStop
    BY <1>1, <1>3 DEF ReceiveStop, Settle, MomentumMessage
  <1>4. CASE ReceiveContinue
    BY <1>1, <1>4 DEF ReceiveContinue, Settle, MomentumMessage, engineVars
  <1>5. CASE Timeout \/ GlideOn \/ GlideEnds \/ Disconnected
    <2>1. chan' = chan /\ (mode' = "PointerMomentum" => mode = "PointerMomentum")
      BY <1>5 DEF Timeout, GlideOn, GlideEnds, Disconnected, Settle, channelVars
    <2> QED
      BY <1>0, <2>1, QueueKept DEF TokenInv
  <1> QED
    BY <1>2, <1>3, <1>4, <1>5 DEF EngineThread, EngineStep

LEMMA TokenButton ==
  ASSUME Typed, TokenInv, ButtonThread
  PROVE  TokenInv'
  <1>0. UNCHANGED <<stoppedToken, activeToken, curToken, timers, lstate, mode>>
    BY DEF ButtonThread, timerVars, listenerVars, engineVars
  <1> USE DEF CurrentInv, tokenVars
  <1>1. CASE PressSendStop
    BY <1>0, <1>1, TokenSent DEF PressSendStop, TokenInv, MomentumMessage
  <1>2. CASE TakePress \/ ButtonStreamEnds
    <2>1. UNCHANGED chan
      BY <1>2 DEF TakePress, ButtonStreamEnds, channelVars
    <2> QED
      BY <1>0, <2>1, TokenKept DEF TokenInv
  <1> QED
    BY <1>1, <1>2 DEF ButtonThread, ButtonStep

\* Everybody else leaves these alone
LEMMA TokenStep ==
  ASSUME Typed, TimersDistinct, BatchHeld, GrabInv, TouchInv, TokenInv,
         [Next]_vars
  PROVE  TokenInv'
  <1>1. CASE ListenerThread
    BY <1>1, TokenListener
  <1>2. CASE ButtonThread
    BY <1>2, TokenButton
  <1>3. CASE \E tm \in timers : TimerThread(tm)
    BY <1>3, TokenTimer
  <1>4. CASE EngineThread
    BY <1>4, TokenEngine
  <1>5. CASE UNCHANGED <<chan, mode, activeToken, lstate, tokenVars>>
    BY <1>5, TokenKept DEF TokenInv, CurrentInv, tokenVars
  <1>6. User \/ UserButton \/ Tick \/ Exited \/ UNCHANGED vars
          => UNCHANGED <<chan, mode, activeToken, lstate, tokenVars>>
    BY DEF User, UserButton, PressButton, Tick, Exited, vars, channelVars,
           timerVars, listenerVars, engineVars, tokenVars
  <1> QED
    BY <1>1, <1>2, <1>3, <1>4, <1>5, <1>6 DEF Next

LEMMA TokenInvariant == Spec => []TokenInv
  <1>1. TypeInv /\ GrabInv /\ TouchInv /\ TokenInv /\ [Next]_vars => TokenInv'
    BY TokenStep DEF TypeInv
  <1> QED
    BY TokenInit, TypeInvariant, GrabInvariant, TouchInvariant, <1>1, PTL
    DEF Spec

\* The motion of a resting finger never reaches a gliding engine: Stop comes
\* before it in the queue, whoever sent it (touchpad.rs:415-424, 585-587,
\* 886-891; momentum.rs:133-153).
THEOREM MotionAfterStop == Spec => []ContinueFollowsStop
  <1>1. TypeInv /\ TokenInv => ContinueFollowsStop
    BY DEF TypeInv, Typed, TokenInv, QueueInv, QuietAfter, ContinueFollowsStop
  <1> QED
    BY <1>1, TypeInvariant, TokenInvariant, PTL

=============================================================================
