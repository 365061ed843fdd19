----------------------------- MODULE ViewProofs -----------------------------
(***************************************************************************)
(* What two observers of the daemon see, for every value of the constants. *)
(*                                                                         *)
(* The desktop's own driver: StopTouchHidden and SeenTouchStaysSeen, about *)
(* a touch that finds the listener up to date.  Both speak of the touch    *)
(* that began last, and such a touch passes through three stages.  Until   *)
(* the listener takes up its landing, the pad is either still grabbed and  *)
(* nothing of the touch has been seen, or no longer grabbed, and then the  *)
(* touch will not be judged a stop touch.  Once taken up it is a stop      *)
(* touch under a grab that nothing but its own lift gives up, or it is an  *)
(* ordinary one, and nothing but a lift grabs.                             *)
(*                                                                         *)
(* The user whose glide nothing may stop unasked: GlideIsLeftAlone, in the *)
(* second part.                                                            *)
(***************************************************************************)
EXTENDS DriverView, GlideView, AgreementProofs

NoUp(s) == \A i \in 1..Len(s) : ~IsUp(s, i)

\* The landing is the next event to be handled, and the last one.
Unread ==
  /\ Queued # <<>> /\ IsDown(Queued, 1) /\ NoDown(Tail(Queued))
  /\ ~Retouching
  /\ grabActions = <<>>
  /\ landing => ~grabbed
  /\ \/ grabbed /\ ~rest
     \/ ~grabbed /\ ~awaiting

\* The listener takes it for a stop touch.
Hidden ==
  /\ NoDown(Queued)
  /\ Retouching
  /\ grabActions = <<>>
  /\ ~landing
  /\ grabbed /\ ~rest

\* It is no stop touch.
Ordinary ==
  /\ NoDown(Queued)
  /\ ~Retouching
  /\ landing /\ finger => ~grabbed /\ grabActions = <<>>

PromptInv ==
  prompt /\ ioctlFailures = 0 /\ lpc # "exit" =>
    /\ finger => NoUp(Queued)
    /\ Unread \/ Hidden \/ Ordinary

DriverInv ==
  /\ lpc = "exit" => ~grabbed
  /\ PromptInv

-----------------------------------------------------------------------------
\* The daemon beside the driver is the daemon.
LEMMA DriverRunsDaemon == DriverSpec => Spec
  <1>1. DriverInit => Init
    BY DEF DriverInit
  <1>2. [DriverNext]_<<vars, driverVars>> => [Next]_vars
    BY DEF DriverNext, Next
  <1> QED
    BY <1>1, <1>2, PTL DEF DriverSpec, Spec

LEMMA SameSeen ==
  ASSUME Queued' = Queued
  PROVE  /\ NoUp(Queued)' <=> NoUp(Queued)
         /\ NoDown(Queued)' <=> NoDown(Queued)
         /\ IsDown(Queued, 1)' <=> IsDown(Queued, 1)
         /\ NoDown(Tail(Queued))' <=> NoDown(Tail(Queued))
  BY DEF NoUp, NoDown, IsUp, IsDown

\* The variables that DriverInv depends on beside the queue
seenVars == <<lstate, finger, landing, rest, prompt, grabbed, grabActions,
              awaiting, ioctlFailures>>

LEMMA DriverStutter ==
  ASSUME DriverInv, UNCHANGED seenVars, Queued' = Queued,
         lpc' = "exit" <=> lpc = "exit"
  PROVE  DriverInv'
  <1> USE SameSeen DEF seenVars, Retouching
  <1>1. Unread' <=> Unread
    BY DEF Unread
  <1>2. Hidden' <=> Hidden
    BY DEF Hidden
  <1>3. Ordinary' <=> Ordinary
    BY DEF Ordinary
  <1> QED
    BY <1>1, <1>2, <1>3 DEF DriverInv, PromptInv

\* What the shapes of the queue come to when an event joins it, or leaves it.
LEMMA AppendSeen ==
  ASSUME NEW s \in Seq(Event), NEW e \in Event
  PROVE  /\ e.kind # "up" /\ NoUp(s) => NoUp(Append(s, e))
         /\ s = <<>> => /\ IsDown(Append(s, e), 1) <=> e.kind = "down"
                        /\ NoDown(Tail(Append(s, e)))
         /\ e.kind # "down" /\ s # <<>> /\ IsDown(s, 1) /\ NoDown(Tail(s))
              => IsDown(Append(s, e), 1) /\ NoDown(Tail(Append(s, e)))
         /\ Append(s, e) # <<>>
  <1> DEFINE t == Append(s, e)
             u == Tail(t)
             r == Tail(s)
  <1>1. /\ Len(s) \in Nat /\ Len(t) = Len(s) + 1
        /\ t[Len(s) + 1] = e
        /\ \A i \in 1..Len(s) : t[i] = s[i]
        /\ t \in Seq(Event)
    BY AppendProperties, LenProperties
  <1>2. t # <<>>
    BY <1>1, EmptySeq
  <1>3. Len(u) = Len(s) /\ \A i \in 1..Len(u) : u[i] = t[i + 1]
    BY <1>1, <1>2, HeadTailProperties
  <1>4. s # <<>> => /\ Len(s) >= 1 /\ Len(r) = Len(s) - 1
                    /\ \A i \in 1..Len(r) : r[i] = s[i + 1]
    BY <1>1, HeadTailProperties, EmptySeq
  <1>5. s = <<>> => Len(s) = 0
    BY EmptySeq
  <1> HIDE DEF t, u, r
  <1>6. e.kind # "up" /\ NoUp(s) => NoUp(t)
    BY <1>1 DEF NoUp, IsUp
  <1>7. s = <<>> => (IsDown(t, 1) <=> e.kind = "down") /\ NoDown(u)
    BY <1>1, <1>3, <1>5 DEF NoDown, IsDown
  <1>8. ASSUME e.kind # "down", s # <<>>, IsDown(s, 1), NoDown(r)
        PROVE  IsDown(t, 1) /\ NoDown(u)
    <2>1. IsDown(t, 1)
      BY <1>1, <1>4, <1>8 DEF IsDown
    <2>2. ASSUME NEW i \in 1..Len(u)
          PROVE  ~IsDown(u, i)
      <3>1. CASE i = Len(s)
        BY <1>1, <1>3, <1>8, <3>1 DEF IsDown
      <3>2. CASE i # Len(s)
        <4>1. i \in 1..Len(r) /\ i + 1 \in 1..Len(s) /\ u[i] = r[i]
          BY <1>1, <1>3, <1>4, <1>8, <3>2
        <4> QED
          BY <1>8, <4>1 DEF NoDown, IsDown
      <3> QED
        BY <3>1, <3>2
    <2> QED
      BY <2>1, <2>2 DEF NoDown
  <1> QED
    BY <1>2, <1>6, <1>7, <1>8 DEF t, u, r

LEMMA TailSeen ==
  ASSUME NEW s \in Seq(Event), s # <<>>
  PROVE  NoUp(s) => NoUp(Tail(s)) /\ ~IsUp(s, 1)
  <1>1. /\ Len(s) \in Nat /\ Len(s) >= 1 /\ Len(Tail(s)) = Len(s) - 1
        /\ \A i \in 1..Len(Tail(s)) : Tail(s)[i] = s[i + 1]
    BY HeadTailProperties, LenProperties, EmptySeq
  <1> QED
    BY <1>1 DEF NoUp, IsUp

\* Of what is queued when the pad goes away, what the listener has fetched
\* remains.
LEMMA PrefixSeen ==
  ASSUME NEW s \in Seq(Event), NEW r \in Seq(Event)
  PROVE  /\ NoUp(s \o r) => NoUp(s)
         /\ NoDown(s \o r) => NoDown(s)
         /\ s # <<>> /\ IsDown(s \o r, 1) /\ NoDown(Tail(s \o r))
              => IsDown(s, 1) /\ NoDown(Tail(s))
  <1>1. /\ Len(s) \in Nat /\ Len(r) \in Nat
        /\ Len(s \o r) = Len(s) + Len(r)
        /\ \A i \in 1..Len(s) : i \in 1..Len(s \o r) /\ (s \o r)[i] = s[i]
    BY ConcatProperties, LenProperties
  <1>2. NoUp(s \o r) => NoUp(s)
    BY <1>1 DEF NoUp, IsUp
  <1>3. NoDown(s \o r) => NoDown(s)
    BY <1>1 DEF NoDown, IsDown
  <1>4. ASSUME s # <<>>, IsDown(s \o r, 1), NoDown(Tail(s \o r))
        PROVE  IsDown(s, 1) /\ NoDown(Tail(s))
    <2>1. Len(s) >= 1
      BY <1>1, <1>4, EmptySeq
    <2>2. s \o r \in Seq(Event) /\ s \o r # <<>>
      BY <1>1, <2>1, EmptySeq
    <2>3. /\ Len(Tail(s)) = Len(s) - 1
          /\ \A i \in 1..Len(Tail(s)) : Tail(s)[i] = s[i + 1]
      BY <1>4, HeadTailProperties
    <2>4. /\ Len(Tail(s \o r)) = Len(s \o r) - 1
          /\ \A i \in 1..Len(Tail(s \o r)) : Tail(s \o r)[i] = (s \o r)[i + 1]
      BY <2>2, HeadTailProperties
    <2>5. IsDown(s, 1)
      BY <1>1, <1>4, <2>1 DEF IsDown
    <2>6. ASSUME NEW i \in 1..Len(Tail(s))
          PROVE  ~IsDown(Tail(s), i)
      <3>1. i \in 1..Len(Tail(s \o r)) /\ Tail(s \o r)[i] = Tail(s)[i]
        BY <1>1, <2>1, <2>3, <2>4
      <3> QED
        BY <1>4, <3>1 DEF NoDown, IsDown
    <2> QED
      BY <2>5, <2>6 DEF NoDown
  <1> QED
    BY <1>2, <1>3, <1>4

-----------------------------------------------------------------------------
\* The user's steps, and what the kernel gives to the driver of them.
LEMMA DriverUser ==
  ASSUME TypeInv, GrabInv, TouchInv, DriverInv, User, Delivers
  PROVE  DriverInv'
  <1>0. /\ UNCHANGED <<batch, lpc, lstate, awaiting, grabbed, grabActions,
                       ioctlFailures>>
        /\ batch \in Seq(Event) /\ pending \in Seq(Event)
        /\ Queued \in Seq(Event) /\ ioctlFailures \in Nat
        /\ finger \in BOOLEAN /\ inputs \in Nat
    BY QueuedTyped DEF User, listenerVars, TypeInv, Typed, ListenerTypeOK,
                       DeviceTypeOK
  <1> USE DEF Retouching
  <1>1. CASE FingerDown
    <2>1. /\ landing' = ~grabbed /\ rest' = FALSE /\ prompt' = NoBacklog
          /\ ~finger /\ ~unplugged
      BY <1>1 DEF FingerDown, Emit, Delivers
    <2>2. PICK e \in Event : e.kind = "down" /\ Queued' = Append(Queued, e)
      BY <1>0, <1>1, EmitQueues DEF FingerDown, EventKind, TypeInv
    <2>3. ASSUME NoBacklog, ioctlFailures = 0, lpc # "exit"
          PROVE  NoUp(Queued)' /\ Unread'
      <3>1. Queued = <<>> /\ grabActions = <<>>
        BY <2>3 DEF NoBacklog, Queued
      <3>2. NoUp(Queued) /\ ~HasUp(Queued)
        BY <3>1 DEF NoUp, HasUp
      <3>3. ~Retouching
        BY <2>1, <3>2 DEF TouchInv
      <3>4. awaiting => grabbed
        BY <2>3, <3>1 DEF GrabInv, StopTouchUnderGrab, WillBeGrabbed
      <3>5. /\ NoUp(Append(Queued, e)) /\ Append(Queued, e) # <<>>
            /\ IsDown(Append(Queued, e), 1) /\ NoDown(Tail(Append(Queued, e)))
        BY <1>0, <2>2, <3>1, <3>2, AppendSeen
      <3>6. /\ NoUp(Queued)' /\ Queued' # <<>>
            /\ IsDown(Queued, 1)' /\ NoDown(Tail(Queued))'
        BY <2>2, <3>5 DEF NoUp, NoDown, IsUp, IsDown
      <3> QED
        BY <1>0, <2>1, <3>1, <3>3, <3>4, <3>6 DEF Unread
    <2> QED
      BY <1>0, <2>1, <2>3 DEF DriverInv, PromptInv
  <1>2. ASSUME NEW kind \in EventKind \ {"down"}, Emit(kind), finger,
               finger' => kind # "up"
        PROVE  DriverInv'
    <2>1. /\ rest' = (rest \/ ~grabbed)
          /\ UNCHANGED <<landing, prompt>>
      BY <1>0, <1>2 DEF Delivers, Emit
    <2>2. PICK e \in Event : e.kind = kind /\ Queued' = Append(Queued, e)
      BY <1>0, <1>2, EmitQueues DEF TypeInv
    <2>3. /\ e.kind # "up" /\ NoUp(Queued) => NoUp(Queued)'
          /\ Queued' # <<>>
          /\ Queued # <<>> /\ IsDown(Queued, 1) /\ NoDown(Tail(Queued))
               => IsDown(Queued, 1)' /\ NoDown(Tail(Queued))'
          /\ NoDown(Queued) => NoDown(Queued)'
      <3> DEFINE t == Append(Queued, e)
      <3>1. /\ e.kind # "up" /\ NoUp(Queued) => NoUp(t)
            /\ t # <<>>
            /\ Queued # <<>> /\ IsDown(Queued, 1) /\ NoDown(Tail(Queued))
                 => IsDown(t, 1) /\ NoDown(Tail(t))
            /\ NoDown(Queued) => NoDown(t)
        BY <1>0, <1>2, <2>2, AppendSeen, AppendMarked
      <3>2. /\ NoUp(Queued)' <=> NoUp(t)
            /\ NoDown(Queued)' <=> NoDown(t)
            /\ IsDown(Queued, 1)' <=> IsDown(t, 1)
            /\ NoDown(Tail(Queued))' <=> NoDown(Tail(t))
        BY <2>2 DEF NoUp, NoDown, IsUp, IsDown
      <3> HIDE DEF t
      <3> QED
        BY <2>2, <3>1, <3>2
    <2>4. Unread => Unread'
      BY <1>0, <2>1, <2>3 DEF Unread
    <2>5. Hidden => Hidden'
      BY <1>0, <2>1, <2>3 DEF Hidden
    <2>6. Ordinary => Ordinary'
      BY <1>0, <1>2, <2>1, <2>3 DEF Ordinary
    <2> QED
      BY <1>0, <1>2, <2>1, <2>2, <2>3, <2>4, <2>5, <2>6 DEF DriverInv, PromptInv
  <1>3. CASE FingerUp
    BY <1>2, <1>3 DEF FingerUp, EventKind
  <1>4. ASSUME NEW kind \in Gestures, FingerGesture(kind)
        PROVE  DriverInv'
    <2>1. kind \in {"move", "click", "multi"}
      BY DeviceAssumption DEF DeviceAssumption
    <2> QED
      BY <1>2, <1>4, <2>1 DEF FingerGesture, EventKind
  <1>5. CASE Unplug
    <2>1. /\ pending' = <<>> /\ Queued' = batch /\ UNCHANGED <<finger, inputs>>
      BY <1>0, <1>5 DEF Unplug, Queued
    <2>2. UNCHANGED <<landing, prompt>> /\ (rest' <=> rest)
      <3>1. ~(inputs' > inputs) /\ ~(finger' /\ ~finger)
        BY <1>0, <2>1
      <3>2. /\ rest' = (rest \/ (inputs' > inputs /\ ~grabbed))
            /\ UNCHANGED <<landing, prompt>>
        BY <3>1 DEF Delivers
      <3> QED
        BY <3>1, <3>2, Zenon
    <2>3. /\ NoUp(Queued) => NoUp(batch)
          /\ NoDown(Queued) => NoDown(batch)
          /\ batch # <<>> /\ IsDown(Queued, 1) /\ NoDown(Tail(Queued))
               => IsDown(batch, 1) /\ NoDown(Tail(batch))
          /\ batch = <<>> => NoDown(batch)
      BY <1>0, PrefixSeen DEF Queued, NoDown
    <2>4. /\ NoUp(Queued)' <=> NoUp(batch)
          /\ NoDown(Queued)' <=> NoDown(batch)
          /\ IsDown(Queued, 1)' <=> IsDown(batch, 1)
          /\ NoDown(Tail(Queued))' <=> NoDown(Tail(batch))
      BY <2>1 DEF NoUp, NoDown, IsUp, IsDown
    <2>5. Unread => Unread' \/ Ordinary'
      BY <1>0, <2>1, <2>2, <2>3, <2>4 DEF Unread, Ordinary
    <2>6. Hidden => Hidden'
      BY <1>0, <2>2, <2>3, <2>4 DEF Hidden
    <2>7. Ordinary => Ordinary'
      BY <1>0, <2>1, <2>2, <2>3, <2>4 DEF Ordinary
    <2> QED
      BY <1>0, <2>1, <2>2, <2>3, <2>4, <2>5, <2>6, <2>7 DEF DriverInv, PromptInv
  <1> QED
    BY <1>1, <1>3, <1>4, <1>5 DEF User, UserStep

-----------------------------------------------------------------------------
\* Between two batches a grab that is given up is not awaited any more.
LEMMA LoopSeen ==
  ASSUME Typed, TouchInv, ListenerThread, ioctlFailures' = 0,
         EngineActive \/ EngineIdle \/ StatusDrained \/ FetchNothing
           \/ FetchEvents \/ BatchDone \/ LoopAgain
  PROVE  /\ Queued' = Queued
         /\ UNCHANGED <<lstate, grabActions, finger>>
         /\ ioctlFailures = 0 /\ lpc # "exit"
         /\ \/ UNCHANGED <<grabbed, awaiting>>
            \/ ~Retouching /\ ~grabbed' /\ ~awaiting'
  <1> USE DEF Retouching
  <1>1. CASE EngineActive \/ FetchNothing \/ BatchDone
    BY <1>1 DEF EngineActive, FetchNothing, BatchDone, deviceVars, Queued
  <1>2. CASE FetchEvents
    <2>1. batch = <<>>
      BY <1>2 DEF FetchEvents, TouchInv
    <2>2. Queued' = Queued
      BY <1>2, <2>1, Fetched, QueuedTyped DEF Queued
    <2> QED
      BY <1>2, <2>2 DEF FetchEvents
  <1>3. ASSUME UngrabTouchpad
        PROVE  ~grabbed' /\ ioctlFailures = 0
    BY <1>3 DEF UngrabTouchpad, Ioctl, Typed, ListenerTypeOK
  <1>4. CASE EngineIdle
    BY <1>3, <1>4 DEF EngineIdle, GiveUpTouchpad, deviceVars, Queued
  <1>5. CASE StatusDrained \/ LoopAgain
    BY <1>3, <1>5 DEF StatusDrained, LoopAgain, ReleaseStaleGrab, deviceVars,
                      Queued
  <1> QED
    BY <1>1, <1>2, <1>4, <1>5

\* A handler that has finished with the head of the queue
LEMMA HandledSeen ==
  ASSUME Typed, TouchInv, batch # <<>>, Queued' = Tail(Queued),
         Queued[1] = Head(batch), UNCHANGED finger,
         finger => NoUp(Queued)
  PROVE  /\ finger' => NoUp(Queued)' /\ Head(batch).kind # "up"
         /\ Unread => Head(batch).kind = "down" /\ NoDown(Queued)'
         /\ NoDown(Queued) => Head(batch).kind # "down" /\ NoDown(Queued)'
  <1>1. Queued \in Seq(Event) /\ Queued # <<>>
    BY QueuedTyped, QueuedHead
  <1>2. /\ NoUp(Queued) => NoUp(Tail(Queued)) /\ ~IsUp(Queued, 1)
        /\ NoDown(Queued) => NoDown(Tail(Queued)) /\ ~IsDown(Queued, 1)
    BY <1>1, TailSeen, TailMarked
  <1>3. /\ NoUp(Queued)' <=> NoUp(Tail(Queued))
        /\ NoDown(Queued)' <=> NoDown(Tail(Queued))
    BY DEF NoUp, NoDown, IsUp, IsDown
  <1>4. /\ IsUp(Queued, 1) <=> Head(batch).kind = "up"
        /\ IsDown(Queued, 1) <=> Head(batch).kind = "down"
    BY DEF IsUp, IsDown
  <1> QED
    BY <1>2, <1>3, <1>4 DEF Unread

LEMMA DriverListener ==
  ASSUME TypeInv, GrabInv, TouchInv, DriverInv, ListenerThread,
         UNCHANGED driverVars
  PROVE  DriverInv'
  <1> USE DEF Retouching, driverVars
  <1>1. CASE StreamEnds
    BY <1>1 DEF StreamEnds, DriverInv, PromptInv
  <1>2. ASSUME EngineActive \/ EngineIdle \/ StatusDrained \/ FetchNothing
                 \/ FetchEvents \/ BatchDone \/ LoopAgain
        PROVE  DriverInv'
    <2>1. lpc' # "exit"
      BY <1>2 DEF EngineActive, EngineIdle, StatusDrained, FetchNothing,
                  FetchEvents, BatchDone, LoopAgain
    <2>2. ASSUME prompt, ioctlFailures' = 0
          PROVE  /\ finger' => NoUp(Queued)'
                 /\ Unread' \/ Hidden' \/ Ordinary'
      <3>1. /\ Queued' = Queued
            /\ UNCHANGED <<lstate, grabActions, finger>>
            /\ ioctlFailures = 0 /\ lpc # "exit"
            /\ \/ UNCHANGED <<grabbed, awaiting>>
               \/ ~Retouching /\ ~grabbed' /\ ~awaiting'
        BY <1>2, <2>2, LoopSeen DEF TypeInv
      <3>2. Unread => Unread'
        BY <3>1, SameSeen DEF Unread
      <3>3. Hidden => Hidden'
        BY <3>1, SameSeen DEF Hidden
      <3>4. Ordinary => Ordinary'
        BY <3>1, SameSeen DEF Ordinary
      <3> QED
        BY <2>2, <3>1, <3>2, <3>3, <3>4, SameSeen DEF DriverInv, PromptInv
    <2> QED
      BY <2>1, <2>2 DEF DriverInv, PromptInv
  <1>3. CASE ApplyGrabAction
    <2>1. /\ lpc = "grabs" /\ lpc' = "grabs" /\ grabActions # <<>>
          /\ UNCHANGED <<batch, pending, lstate, finger>>
          /\ ioctlFailures' = 0 => ioctlFailures = 0
      BY <1>3 DEF ApplyGrabAction, deviceVars, GrabTouchpad, UngrabTouchpad,
                  Ioctl, TypeInv, Typed, ListenerTypeOK
    <2>2. Queued' = Queued
      BY <2>1 DEF Queued
    <2>3. ~Unread /\ ~Hidden /\ (Ordinary => Ordinary')
      BY <2>1, <2>2, SameSeen DEF Unread, Hidden, Ordinary
    <2> QED
      BY <2>1, <2>2, <2>3, SameSeen DEF DriverInv, PromptInv
  <1>4. CASE PointerMoves \/ IgnoreEarlyRetouch \/ BeginRetouch \/ BeginMove
             \/ IgnoreLift \/ PadClick \/ Multitouch
    <2>1. /\ lpc = "events" /\ lpc' = "events"
          /\ batch # <<>> /\ batch' = Tail(batch)
          /\ UNCHANGED <<pending, finger, grabbed, grabActions, ioctlFailures>>
      BY <1>4 DEF PointerMoves, IgnoreEarlyRetouch, BeginRetouch, BeginMove,
                  IgnoreLift, PadClick, Multitouch, Handles, deviceVars
    <2>2. Queued' = Tail(Queued) /\ Queued[1] = Head(batch)
      BY <2>1, QueuedHead DEF Queued, TypeInv
    <2>3. ASSUME prompt, ioctlFailures = 0
          PROVE  /\ finger' => NoUp(Queued)'
                 /\ Hidden' \/ Ordinary'
      <3>1. /\ finger => NoUp(Queued)
            /\ Unread \/ Hidden \/ Ordinary
        BY <2>1, <2>3 DEF DriverInv, PromptInv
      <3>2. /\ finger' => NoUp(Queued)'
            /\ Unread => Head(batch).kind = "down" /\ NoDown(Queued)'
            /\ NoDown(Queued) => Head(batch).kind # "down" /\ NoDown(Queued)'
        BY <2>1, <2>2, <3>1, HandledSeen DEF TypeInv
      <3>3. CASE IgnoreEarlyRetouch \/ BeginMove
        <4>1. Handles("down") /\ lstate' \in {lstate, "OneFingerMove"}
          BY <3>3 DEF IgnoreEarlyRetouch, BeginMove
        <4>2. Unread
          BY <3>1, <3>2, <4>1 DEF Hidden, Ordinary, Handles
        <4> QED
          BY <2>1, <3>2, <4>1, <4>2 DEF Unread, Ordinary
      <3>4. CASE BeginRetouch
        <4>1. Handles("down") /\ lstate' = "MomentumRetouch" /\ IsRetouch
          BY <3>4 DEF BeginRetouch
        <4>2. Unread
          BY <3>1, <3>2, <4>1 DEF Hidden, Ordinary, Handles
        <4>3. grabbed /\ ~rest /\ ~landing
          BY <4>1, <4>2 DEF Unread, IsRetouch
        <4> QED
          BY <2>1, <3>2, <4>1, <4>2, <4>3 DEF Unread, Hidden
      <3>5. CASE PointerMoves \/ PadClick
        <4>1. /\ Head(batch).kind # "down" /\ UNCHANGED lstate
          BY <3>5 DEF PointerMoves, PadClick, Handles
        <4> QED
          BY <2>1, <3>1, <3>2, <4>1 DEF Hidden, Ordinary
      <3>6. CASE IgnoreLift \/ Multitouch
        <4>1. /\ Head(batch).kind # "down" /\ lstate' = "Idle"
          BY <3>6 DEF IgnoreLift, Multitouch, Handles
        <4> QED
          BY <2>1, <3>1, <3>2, <4>1 DEF Hidden, Ordinary
      <3> QED
        BY <1>4, <3>2, <3>3, <3>4, <3>5, <3>6
    <2> QED
      BY <2>1, <2>3 DEF DriverInv, PromptInv
  <1>5. CASE EndMove \/ EndRetouch \/ StartMomentum \/ RejectMomentum
             \/ ReleaseShort \/ ReleaseAfterStop \/ ReleaseConfirmed
    <2>1. /\ lpc # "exit" /\ lpc' # "exit"
          /\ batch # <<>> /\ Head(batch).kind = "up"
          /\ UNCHANGED <<pending, finger, grabbed, ioctlFailures>>
      BY <1>5 DEF EndMove, EndRetouch, StartMomentum, RejectMomentum,
                  ReleaseShort, ReleaseAfterStop, ReleaseConfirmed,
                  ReleaseRetouch, Handles, TouchInv, deviceVars
    <2>2. Queued[1] = Head(batch) /\ Queued \in Seq(Event) /\ Queued # <<>>
      BY <2>1, QueuedHead, QueuedTyped DEF TypeInv
    <2>3. ASSUME prompt, ioctlFailures = 0
          PROVE  ~finger /\ (Hidden \/ Ordinary)
      <3>1. /\ finger => NoUp(Queued)
            /\ Unread \/ Hidden \/ Ordinary
        BY <2>1, <2>3 DEF DriverInv, PromptInv
      <3>2. ~NoUp(Queued)
        BY <2>1, <2>2, TailSeen DEF IsUp
      <3>3. ~Unread
        BY <2>1, <2>2 DEF Unread, IsDown
      <3> QED
        BY <3>1, <3>2, <3>3
    <2>4. CASE Queued' = Queued /\ UNCHANGED <<lstate, grabActions>>
      <3>1. /\ Hidden => Hidden'
            /\ Ordinary => Ordinary'
        BY <2>1, <2>4, SameSeen DEF Hidden, Ordinary
      <3> QED
        BY <2>1, <2>3, <3>1 DEF DriverInv, PromptInv
    <2>5. CASE Queued' = Tail(Queued) /\ lstate' = "Idle"
      <3>1. NoDown(Queued) => NoDown(Queued)'
        <4>1. NoDown(Queued) => NoDown(Tail(Queued))
          BY <2>2, TailMarked
        <4> QED
          BY <2>5, <4>1 DEF NoDown, IsDown
      <3>2. ~finger /\ (Hidden \/ Ordinary) => Ordinary'
        BY <2>1, <2>5, <3>1 DEF Hidden, Ordinary
      <3> QED
        BY <2>1, <2>3, <3>2 DEF DriverInv, PromptInv
    <2>6. \/ Queued' = Queued /\ UNCHANGED <<lstate, grabActions>>
          \/ Queued' = Tail(Queued) /\ lstate' = "Idle"
      <3>1. \/ batch' = batch /\ UNCHANGED <<lstate, grabActions>>
            \/ batch' = Tail(batch) /\ lstate' = "Idle"
        BY <1>5 DEF EndMove, EndRetouch, StartMomentum, RejectMomentum,
                    ReleaseShort, ReleaseAfterStop, ReleaseConfirmed,
                    ReleaseRetouch
      <3> QED
        BY <2>1, <3>1, QueuedHead DEF Queued, TypeInv
    <2> QED
      BY <2>4, <2>5, <2>6
  <1> QED
    BY <1>1, <1>2, <1>3, <1>4, <1>5 DEF ListenerThread, ListenerStep

LEMMA DriverStep ==
  ASSUME TypeInv, GrabInv, TouchInv, DriverInv,
         [DriverNext]_<<vars, driverVars>>
  PROVE  DriverInv'
  <1>1. CASE User /\ Delivers
    BY <1>1, DriverUser
  <1>2. CASE ListenerThread /\ UNCHANGED driverVars
    BY <1>2, DriverListener
  <1>3. CASE /\ UNCHANGED <<listenerVars, pending, finger>>
             /\ UNCHANGED driverVars
    <2>1. Queued' = Queued /\ UNCHANGED seenVars /\ lpc' = lpc
      BY <1>3 DEF Queued, listenerVars, seenVars, driverVars
    <2> QED
      BY <2>1, DriverStutter
  <1>4. UserButton \/ Tick \/ ButtonThread \/ (\E tm \in timers : TimerThread(tm))
          \/ EngineThread \/ Exited \/ UNCHANGED vars
          => UNCHANGED <<listenerVars, pending, finger>>
    BY DEF UserButton, PressButton, Tick, AdvanceClock, ButtonThread,
           ButtonStep, TimerThread, TimerStep, EngineThread, Exited, vars,
           deviceVars
  <1> QED
    BY <1>1, <1>2, <1>3, <1>4 DEF DriverNext

LEMMA DriverInvariant == DriverSpec => []DriverInv
  <1>1. DriverInit => DriverInv
    BY DEF DriverInit, Init, ListenerInit, DriverInv, PromptInv
  <1>2. TypeInv /\ GrabInv /\ TouchInv /\ DriverInv
          /\ [DriverNext]_<<vars, driverVars>>
          => DriverInv'
    BY DriverStep
  <1> QED
    BY <1>1, <1>2, DriverRunsDaemon, TypeInvariant, GrabInvariant,
       TouchInvariant, PTL DEF DriverSpec

\* The driver sees nothing of a stop touch whose landing it did not see and
\* that found the listener up to date (README.md:52-55; touchpad.rs:366, 387,
\* 459, 643-663, 928).
THEOREM HiddenTouchStaysHidden == DriverSpec => []StopTouchHidden
  <1>1. DriverInv => StopTouchHidden
    BY DEF DriverInv, PromptInv, StopTouchHidden, Unread, Hidden, Ordinary,
           Retouching
  <1> QED
    BY <1>1, DriverInvariant, PTL

\* A touch whose landing the driver has seen and that found the listener up to
\* date is not grabbed before its lift (touchpad.rs:459, 503-512, 530, 928).
THEOREM SeenTouchIsNotTaken == DriverSpec => []SeenTouchStaysSeen
  <1>1. DriverInv => SeenTouchStaysSeen
    BY DEF DriverInv, PromptInv, SeenTouchStaysSeen, Unread, Hidden, Ordinary
  <1> QED
    BY <1>1, DriverInvariant, PTL

(***************************************************************************)
(* The glide that nobody meant to stop: GlideIsLeftAlone.                  *)
(*                                                                         *)
(* Every Stop has a reason that CallsForStop knows, except that two of     *)
(* them are sent a step after they were decided on, and that a timer       *)
(* decides on its own.  So RestInv says that no Stop is under way, and,    *)
(* with TimersInv, why no timer decides on one: a sleeping timer that      *)
(* would find its token is that of the stop touch in progress, and its     *)
(* sleep ends when that touch rests.                                       *)
(***************************************************************************)
LastIsStart == chan = <<>> \/ chan[Len(chan)] = "StartPointer"

\* A timer that sleeps and has the active token
TimersInv ==
  \A tm \in timers : tm.phase = "asleep" /\ tm.token = activeToken
    => Retouching /\ tm.due = takenAt + StopTouch

\* The touch in progress, if it is a stop touch, has not stopped anything.
Untouched ==
  /\ ~Rests
  /\ Retouching => /\ ~RetouchIsStopped
                   /\ \A tm \in timers : tm.token = curToken => tm.phase = "asleep"
  /\ lpc = "released" => now < landedAt + StopTouch

\* What the observers know of the stop touch in progress
LandingInv ==
  /\ landedAt \in Nat /\ takenAt \in Nat
  /\ Retouching => landedAt = retouchStart /\ takenAt <= clock
  /\ TimersInv

GlideInv ==
  /\ LandingInv
  /\ stands => LastIsStart /\ ~StopUnderWay /\ Untouched

-----------------------------------------------------------------------------
\* The daemon with the record of its stops is the daemon.
LEMMA GlideRunsDaemon == GlideSpec => Spec
  <1>1. GlideInit => Init
    BY DEF GlideInit
  <1>2. [GlideNext]_<<vars, glideVars>> => [Next]_vars
    BY DEF GlideNext
  <1> QED
    BY <1>1, <1>2, PTL DEF GlideSpec, Spec

LEMMA GlideStart == GlideInit => GlideInv
  BY DEF GlideInit, Init, ListenerInit, TimerInit, GlideInv, LandingInv,
         TimersInv, Retouching

\* A step that sends nothing, or takes the oldest message
LEMMA LastKept ==
  ASSUME Typed, LastIsStart, chan' = chan \/ (chan # <<>> /\ chan' = Tail(chan))
  PROVE  LastIsStart' /\ chan' # Append(chan, "StartPointer")
  <1>1. chan \in Seq(MomentumMessage)
    BY DEF Typed
  <1>2. Len(Append(chan, "StartPointer")) = Len(chan) + 1 /\ Len(chan) \in Nat
    BY <1>1, AppendProperties, LenProperties DEF MomentumMessage
  <1>3. CASE chan' = chan
    BY <1>2, <1>3 DEF LastIsStart
  <1>4. CASE chan # <<>> /\ chan' = Tail(chan)
    <2>1. PICK n \in Nat : n = Len(chan) /\ n >= 1
      BY <1>1, <1>4, LenProperties, EmptySeq
    <2>2. /\ chan' \in Seq(MomentumMessage) /\ Len(chan') = n - 1
          /\ \A i \in 1..(n - 1) : chan'[i] = chan[i + 1]
      BY <1>1, <1>4, <2>1, HeadTailProperties
    <2>3. chan' = <<>> \/ n - 1 \in 1..(n - 1)
      BY <2>1, <2>2, EmptySeq
    <2>4. n - 1 \in 1..(n - 1) => chan'[Len(chan')] = chan[Len(chan)]
      BY <2>1, <2>2
    <2>5. chan # <<>>
      BY <1>4
    <2>6. LastIsStart'
      BY <2>3, <2>4, <2>5 DEF LastIsStart
    <2>7. Len(Append(chan, "StartPointer")) # Len(chan')
      BY <1>2, <2>1, <2>2
    <2> QED
      BY <2>6, <2>7
  <1> QED
    BY <1>3, <1>4

\* No thread falls asleep again.
LEMMA TimersOnlyWake ==
  ASSUME Typed, NEW tm \in timers, TimerThread(tm)
  PROVE  \A t \in timers' : t \in timers \/ t.phase # "asleep"
  <1>1. \A phase \in TimerPhase : [tm EXCEPT !.phase = phase].phase = phase
    BY DEF Typed, TimerTypeOK, Timer
  <1> QED
    BY <1>1 DEF TimerThread, TimerStep, TimerStale, TimerConfirm, TimerSendStop,
                TimerPublish, Moved, TimerPhase

-----------------------------------------------------------------------------
\* The landing of the stop touch, its token and its timer.
LEMMA LandingStep ==
  ASSUME TypeInv, GrabInv, TouchInv, LandingInv, Next, StopTouchStep
  PROVE  LandingInv'
  <1>0. /\ activeToken \in Nat /\ clock \in Nat /\ clock' \in Nat /\ clock' >= clock
        /\ \A tm \in timers : tm.token \in Nat /\ tm.token <= activeToken
    <2>1. clock' = clock \/ clock' = clock + 1
      BY DEF Next, User, UserStep, FingerDown, FingerUp, FingerGesture, Emit, Unplug,
             UserButton, PressButton, Tick, AdvanceClock, ListenerThread, ListenerStep,
             EngineActive, EngineIdle, StatusDrained, FetchNothing, FetchEvents,
             StreamEnds, PointerMoves, IgnoreEarlyRetouch, BeginRetouch, BeginMove,
             IgnoreLift, EndMove, StartMomentum, RejectMomentum, EndRetouch,
             ReleaseShort, ReleaseAfterStop, ReleaseConfirmed, ReleaseRetouch, PadClick,
             Multitouch, BatchDone, ApplyGrabAction, LoopAgain, ButtonThread, ButtonStep,
             TimerThread, TimerStep, EngineThread, Exited, vars, deviceVars
    <2> QED
      BY <2>1 DEF TypeInv, Typed, TimerTypeOK, Timer, DeviceTypeOK, TimersDistinct
  <1> USE <1>0 DEF LandingInv, TimersInv, StopTouchStep, Retouching
  <1>1. ASSUME UNCHANGED <<lstate, retouchStart, activeToken>>,
               \A tm \in timers' : tm.phase = "asleep" => tm \in timers
        PROVE  LandingInv'
    BY <1>1
  <1>2. ASSUME activeToken' = activeToken + 1, timers' = timers,
               lstate' # "MomentumRetouch"
        PROVE  LandingInv'
    BY <1>2
  <1>3. ASSUME UNCHANGED <<activeToken, timers>>,
               lstate # "MomentumRetouch", lstate' # "MomentumRetouch"
        PROVE  LandingInv'
    BY <1>3
  <1>4. CASE BeginRetouch
    <2>1. /\ lstate # "MomentumRetouch" /\ lstate' = "MomentumRetouch"
          /\ retouchStart' = now /\ activeToken' = activeToken + 1
          /\ ArmTimer(activeToken + 1)
          /\ UNCHANGED clock
      BY <1>4, NoLandingInRetouch DEF BeginRetouch, TypeInv, deviceVars
    <2>2. landedAt' = retouchStart' /\ takenAt' = clock /\ retouchStart' \in Nat
      BY <1>4, <2>1, BatchTyped DEF TypeInv, Typed, BeginRetouch, Handles
    <2>3. \A tm \in timers' : tm \in timers
             \/ tm.due = clock + StopTouch
      BY <2>1 DEF ArmTimer
    <2>4. \A tm \in timers : tm.token # activeToken'
      BY <2>1
    <2> QED
      BY <2>1, <2>2, <2>3, <2>4
  <1>5. CASE BeginMove
    <2>1. /\ lstate # "MomentumRetouch" /\ lstate' # "MomentumRetouch"
          /\ UNCHANGED <<activeToken, timers>>
      BY <1>5, NoLandingInRetouch DEF BeginMove, TypeInv, timerVars
    <2> QED
      BY <1>3, <2>1
  <1>6. CASE EndMove \/ StartMomentum \/ RejectMomentum
    <2>1. /\ lstate # "MomentumRetouch" /\ lstate' # "MomentumRetouch"
          /\ UNCHANGED <<activeToken, timers>>
      BY <1>6 DEF EndMove, StartMomentum, RejectMomentum, timerVars, GrabInv, LoopInv
    <2> QED
      BY <1>3, <2>1
  <1>7. CASE ReleaseShort \/ ReleaseAfterStop \/ ReleaseConfirmed \/ Multitouch
    BY <1>2, <1>7 DEF ReleaseShort, ReleaseAfterStop, ReleaseConfirmed, ReleaseRetouch,
                      Multitouch
  <1>8. CASE EngineActive \/ EngineIdle \/ StatusDrained \/ FetchNothing
             \/ FetchEvents \/ StreamEnds \/ BatchDone \/ ApplyGrabAction
             \/ LoopAgain \/ IgnoreEarlyRetouch \/ IgnoreLift \/ PointerMoves
             \/ PadClick \/ EndRetouch
    BY <1>1, <1>8
    DEF EngineActive, EngineIdle, StatusDrained, FetchNothing, FetchEvents,
        StreamEnds, BatchDone, ApplyGrabAction, LoopAgain, IgnoreEarlyRetouch,
        IgnoreLift, PointerMoves, PadClick, EndRetouch, timerVars
  <1>9. ASSUME NEW tm \in timers, TimerThread(tm) PROVE LandingInv'
    <2>1. UNCHANGED <<lstate, retouchStart, activeToken>>
      BY <1>9 DEF TimerThread, TimerStep, TimerStale, TimerConfirm, TimerSendStop,
                  TimerPublish, listenerVars
    <2>2. \A t \in timers' : t.phase = "asleep" => t \in timers
      BY <1>9, TimersOnlyWake DEF TypeInv
    <2> QED
      BY <1>1, <2>1, <2>2
  <1>10. CASE User \/ UserButton \/ Tick \/ ButtonThread \/ EngineThread \/ Exited
    BY <1>1, <1>10 DEF User, UserButton, Tick, ButtonThread, EngineThread, Exited, vars,
                       timerVars, listenerVars
  <1> QED
    BY <1>4, <1>5, <1>6, <1>7, <1>8, <1>9, <1>10
    DEF Next, ListenerThread, ListenerStep

\* Nothing has changed about the stop touch in progress.
LEMMA UntouchedKept ==
  ASSUME GrabInv, Untouched, ~Rests', StopTouchStep, UNCHANGED <<lstate, curToken>>,
         lpc' = "released" => lpc = "released" /\ batch' = batch,
         Retouching /\ RetouchIsStopped' => RetouchIsStopped,
         \A tm \in timers' : tm \in timers
  PROVE  Untouched'
  <1>1. lpc' = "released" => now' = now /\ landedAt' = landedAt
    BY DEF now, GrabInv, LoopInv, StopTouchStep
  <1> QED
    BY <1>1 DEF Untouched, Retouching

\* A handler that ends has taken its event.
LEMMA EventTaken ==
  ASSUME Typed, batch # <<>>, batch' = Tail(batch)
  PROVE  batch' # batch
  <1>1. PICK n \in Nat : n = Len(batch)
    BY LenProperties DEF Typed, ListenerTypeOK
  <1>2. Len(batch') = n - 1
    BY <1>1, HeadTailProperties DEF Typed, ListenerTypeOK
  <1>3. Len(batch') # Len(batch)
    BY <1>1, <1>2
  <1> QED
    BY <1>3

LEMMA StandsListener ==
  ASSUME TypeInv, GrabInv, TouchInv, TokenInv, GlideInv, LandingInv',
         StopTouchStep, ListenerThread,
         stands, ~CallsForStop, ~StartMomentum
  PROVE  LastIsStart' /\ ~StopUnderWay' /\ Untouched'
  <1>0. /\ LastIsStart /\ ~StopUnderWay /\ Untouched
        /\ ~Rests'
        /\ Typed /\ BatchHeld
    BY DEF GlideInv, CallsForStop, TypeInv
  <1> USE <1>0
  <1>1. ASSUME UNCHANGED <<chan, timers, buttonPc>>
        PROVE  LastIsStart' /\ ~StopUnderWay'
    BY <1>1 DEF LastIsStart, StopUnderWay
  <1>2. ASSUME lstate' # "MomentumRetouch", lpc' # "released"
        PROVE  Untouched'
    BY <1>2 DEF Untouched, Retouching, Rests
  <1>3. CASE EngineActive \/ EngineIdle \/ StatusDrained \/ FetchNothing
             \/ FetchEvents \/ StreamEnds \/ BatchDone \/ ApplyGrabAction
             \/ LoopAgain \/ IgnoreEarlyRetouch \/ IgnoreLift
    <2>1. /\ UNCHANGED <<chan, timers, buttonPc, lstate, curToken, stoppedToken>>
          /\ lpc' # "released"
      BY <1>3
      DEF EngineActive, EngineIdle, StatusDrained, FetchNothing, FetchEvents,
          StreamEnds, BatchDone, ApplyGrabAction, LoopAgain, IgnoreEarlyRetouch,
          IgnoreLift, Handles, timerVars, buttonVars, channelVars
    <2> QED
      BY <1>1, <2>1, UntouchedKept DEF RetouchIsStopped
  <1>4. CASE PointerMoves
    <2>1. ~(lstate = "MomentumRetouch" /\ RetouchIsStopped)
      BY DEF Untouched, Retouching
    <2>2. /\ UNCHANGED <<chan, timers, buttonPc, lstate, curToken, stoppedToken>>
          /\ lpc' # "released"
      BY <1>4, <2>1 DEF PointerMoves, Handles, timerVars, buttonVars
    <2> QED
      BY <1>1, <2>2, UntouchedKept DEF RetouchIsStopped
  <1>5. CASE BeginMove \/ PadClick \/ Multitouch
    BY <1>5, EventTaken
    DEF BeginMove, PadClick, Multitouch, Handles, Handled, CallsForStop
  <1>6. CASE EndMove \/ RejectMomentum
    <2>1. /\ UNCHANGED <<chan, timers, buttonPc>>
          /\ lstate' # "MomentumRetouch" /\ lpc' # "released"
      BY <1>6 DEF EndMove, RejectMomentum, Handles, timerVars, buttonVars, channelVars
    <2> QED
      BY <1>1, <1>2, <2>1
  <1>7. CASE BeginRetouch
    <2>1. /\ UNCHANGED <<chan, buttonPc, stoppedToken>>
          /\ lpc' # "released" /\ curToken' = activeToken + 1
          /\ ArmTimer(activeToken + 1)
      BY <1>7 DEF BeginRetouch, Handles, buttonVars
    <2>2. \A tm \in timers' : tm \in timers \/ tm.phase = "asleep"
      BY <2>1 DEF ArmTimer
    <2>3. /\ stoppedToken # activeToken + 1
          /\ \A tm \in timers : tm.token # activeToken + 1
      BY FreshToken DEF TypeInv, TokenInv
    <2>4. LastIsStart' /\ ~StopUnderWay'
      BY <2>1, <2>2 DEF LastIsStart, StopUnderWay
    <2>5. Untouched'
      BY <2>1, <2>2, <2>3 DEF Untouched, RetouchIsStopped
    <2> QED
      BY <2>4, <2>5
  <1>8. CASE EndRetouch
    <2>1. /\ UNCHANGED <<chan, timers, buttonPc, lstate, batch, curToken, stoppedToken>>
          /\ Handled("up") /\ lstate = "MomentumRetouch"
      BY <1>8 DEF EndRetouch, Handles, Handled, timerVars, buttonVars, channelVars
    <2>2. now' < landedAt' + StopTouch
      <3>1. now \in Nat /\ now' = now /\ landedAt' = landedAt
        BY <2>1, BatchTyped DEF Typed, Handled, Handles, now, StopTouchStep
      <3>2. ~(now >= landedAt + StopTouch)
        BY <2>1 DEF CallsForStop
      <3> QED
        BY <3>1, <3>2, StopTouchAssumption
        DEF StopTouchAssumption, GlideInv, LandingInv
    <2> QED
      BY <1>1, <2>1, <2>2 DEF Untouched, Retouching, RetouchIsStopped
  <1>9. CASE ReleaseShort \/ ReleaseAfterStop
    <2>1. /\ UNCHANGED <<chan, timers, buttonPc>>
          /\ lstate' # "MomentumRetouch" /\ lpc' # "released"
      BY <1>9 DEF ReleaseShort, ReleaseAfterStop, ReleaseRetouch, buttonVars
    <2> QED
      BY <1>1, <1>2, <2>1
  <1>10. CASE ReleaseConfirmed
    <2>1. lpc = "released" /\ lstate = "MomentumRetouch" /\ ~ShortRetouch
      BY <1>10 DEF ReleaseConfirmed, ReleaseRetouch, GrabInv, LoopInv
    <2>2. now \in Nat /\ retouchStart \in Nat /\ StopTouch \in Nat /\ clock \in Nat
      BY <2>1, BatchTyped, StopTouchAssumption
      DEF Typed, BatchHeld, ListenerTypeOK, DeviceTypeOK, StopTouchAssumption
    <2>3. /\ landedAt = retouchStart /\ takenAt <= clock /\ takenAt \in Nat
          /\ now < landedAt + StopTouch /\ ~(clock >= takenAt + StopTouch)
      BY <2>1 DEF GlideInv, LandingInv, Untouched, Rests, Retouching
    <2> QED
      BY <2>1, <2>2, <2>3 DEF ShortRetouch, SaturatingSub
  <1> QED
    BY <1>3, <1>4, <1>5, <1>6, <1>7, <1>8, <1>9, <1>10 DEF ListenerThread, ListenerStep

LEMMA StandsTimer ==
  ASSUME TypeInv, GrabInv, GlideInv, StopTouchStep, NEW tm \in timers,
         TimerThread(tm), stands, ~CallsForStop
  PROVE  LastIsStart' /\ ~StopUnderWay' /\ Untouched'
  <1>0. /\ LastIsStart /\ ~StopUnderWay /\ Untouched /\ ~Rests'
        /\ UNCHANGED <<lpc, lstate, batch, curToken, buttonPc>>
    BY DEF GlideInv, CallsForStop, TimerThread, listenerVars, buttonVars
  <1>1. CASE TimerStale(tm) \/ TimerPublish(tm)
    <2>1. UNCHANGED chan /\ timers' \subseteq timers
      BY <1>1 DEF TimerStale, TimerPublish
    <2>2. Retouching /\ RetouchIsStopped' => RetouchIsStopped
      BY <1>0, <1>1 DEF TimerStale, TimerPublish, Untouched, RetouchIsStopped
    <2>3. Untouched'
      BY <1>0, <2>1, <2>2, UntouchedKept
    <2> QED
      BY <1>0, <2>1, <2>3 DEF LastIsStart, StopUnderWay
  <1>2. CASE TimerConfirm(tm)
    <2>1. Retouching /\ tm.due = takenAt + StopTouch /\ clock >= tm.due
      BY <1>2 DEF TimerConfirm, GlideInv, LandingInv, TimersInv
    <2> QED
      BY <1>0, <2>1 DEF Untouched, Rests, Retouching
  <1>3. CASE TimerSendStop(tm)
    BY <1>0, <1>3 DEF TimerSendStop, StopUnderWay
  <1> QED
    BY <1>1, <1>2, <1>3 DEF TimerThread, TimerStep

\* Everybody else, the engine and the button thread among them
LEMMA StandsOthers ==
  ASSUME TypeInv, GrabInv, GlideInv, StopTouchStep, stands, ~CallsForStop,
         User \/ UserButton \/ Tick \/ ButtonThread \/ EngineThread \/ Exited
  PROVE  LastIsStart' /\ ~StopUnderWay' /\ Untouched'
  <1>0. LastIsStart /\ ~StopUnderWay /\ Untouched /\ ~Rests' /\ Typed
    BY DEF GlideInv, CallsForStop, TypeInv
  <1>1. UNCHANGED <<lpc, lstate, batch, curToken, stoppedToken, timers>>
    BY DEF User, UserButton, Tick, ButtonThread, EngineThread, Exited, vars,
           listenerVars, timerVars
  <1>2. Untouched'
    BY <1>0, <1>1, UntouchedKept DEF RetouchIsStopped
  <1>3. (chan' = chan \/ (chan # <<>> /\ chan' = Tail(chan))) /\ buttonPc' # "stop"
    <2>1. CASE ButtonThread
      <3>1. ~TakePress
        BY <1>0 DEF CallsForStop, TakePress, Typed, ButtonTypeOK
      <3>2. ~PressSendStop
        BY <1>0 DEF PressSendStop, StopUnderWay
      <3> QED
        BY <2>1, <3>1, <3>2 DEF ButtonThread, ButtonStep, ButtonStreamEnds
    <2>2. CASE EngineThread
      BY <1>0, <2>2
      DEF EngineThread, EngineStep, ReceiveStart, ReceiveStop, ReceiveContinue, Receives,
          Timeout, GlideOn, GlideEnds, Disconnected, channelVars, buttonVars,
          StopUnderWay, engineVars
    <2>3. CASE User \/ UserButton \/ Tick \/ Exited
      BY <1>0, <2>3
      DEF User, UserButton, PressButton, Tick, Exited, vars, channelVars, buttonVars,
          StopUnderWay
    <2> QED
      BY <2>1, <2>2, <2>3
  <1>4. LastIsStart'
    BY <1>0, <1>3, LastKept
  <1> QED
    BY <1>0, <1>1, <1>2, <1>3, <1>4 DEF StopUnderWay

\* A glide that begins finds no touch on the pad.
LEMMA GlideBegins ==
  ASSUME TypeInv, GrabInv, StartMomentum, ~StopUnderWay
  PROVE  LastIsStart' /\ ~StopUnderWay' /\ Untouched'
  <1>1. /\ Send("StartPointer") /\ lstate' = "Idle" /\ lpc' = "events"
        /\ UNCHANGED <<timers, buttonPc>>
    BY DEF StartMomentum, timerVars, buttonVars
  <1>2. LastIsStart'
    <2>1. chan \in Seq(MomentumMessage)
      BY DEF TypeInv, Typed
    <2>2. /\ Len(Append(chan, "StartPointer")) = Len(chan) + 1
          /\ Append(chan, "StartPointer")[Len(chan) + 1] = "StartPointer"
      BY <2>1, AppendProperties DEF MomentumMessage
    <2> QED
      BY <1>1, <2>2 DEF LastIsStart, Send
  <1> QED
    BY <1>1, <1>2 DEF StopUnderWay, Untouched, Rests, Retouching

\* Only the listener starts a glide.
LEMMA StartsByListener ==
  ASSUME Typed, Next, chan' = Append(chan, "StartPointer")
  PROVE  StartMomentum
  <1>1. /\ chan \in Seq(MomentumMessage)
        /\ Len(chan') = Len(chan) + 1 /\ chan'[Len(chan) + 1] = "StartPointer"
        /\ Len(chan) \in Nat
    BY AppendProperties, LenProperties DEF Typed, MomentumMessage
  <1>2. chan' # chan
    BY <1>1
  <1>3. \A m \in MomentumMessage : Send(m) => m = "StartPointer"
    <2>1. \A m \in MomentumMessage : Append(chan, m)[Len(chan) + 1] = m
      BY <1>1, AppendProperties
    <2> QED
      BY <1>1, <2>1 DEF Send
  <1>4. chan # <<>> => chan' # Tail(chan)
    BY <1>1, HeadTailProperties
  <1> USE <1>2, <1>3, <1>4 DEF MomentumMessage
  <1>5. CASE ListenerThread
    BY <1>5 DEF ListenerThread, ListenerStep,
           EngineActive, EngineIdle, StatusDrained, FetchNothing, FetchEvents,
           StreamEnds, PointerMoves, IgnoreEarlyRetouch, BeginRetouch, BeginMove,
           IgnoreLift, EndMove, RejectMomentum, EndRetouch, ReleaseShort,
           ReleaseAfterStop, ReleaseConfirmed, PadClick, Multitouch, BatchDone,
           ApplyGrabAction, LoopAgain, channelVars
  <1>6. CASE EngineThread
    BY <1>6 DEF EngineThread, EngineStep, ReceiveStart, ReceiveStop, ReceiveContinue,
           Receives, Timeout, GlideOn, GlideEnds, Disconnected, channelVars
  <1>7. CASE ButtonThread \/ \E tm \in timers : TimerThread(tm)
    BY <1>7 DEF ButtonThread, ButtonStep, TakePress, PressSendStop, ButtonStreamEnds,
           TimerThread, TimerStep, TimerStale, TimerConfirm, TimerSendStop,
           TimerPublish, channelVars
  <1>8. CASE User \/ UserButton \/ Tick \/ Exited
    BY <1>8 DEF User, UserButton, PressButton, Tick, Exited, vars, channelVars
  <1> QED
    BY <1>5, <1>6, <1>7, <1>8 DEF Next

LEMMA GlideInvStep ==
  ASSUME TypeInv, GrabInv, TouchInv, TokenInv, GlideInv,
         [GlideNext]_<<vars, glideVars>>
  PROVE  GlideInv'
  <1>1. CASE UNCHANGED <<vars, glideVars>>
    BY <1>1 DEF GlideInv, LandingInv, TimersInv, LastIsStart, StopUnderWay, Untouched,
           Rests, Retouching, RetouchIsStopped, now, vars, glideVars, channelVars,
           deviceVars, timerVars, buttonVars, listenerVars
  <1>2. CASE GlideNext
    <2>1. Next /\ StopTouchStep
      BY <1>2 DEF GlideNext, GlideStep
    <2>2. LandingInv'
      BY <2>1, LandingStep DEF GlideInv
    <2>3. ASSUME stands' PROVE LastIsStart' /\ ~StopUnderWay' /\ Untouched'
      <3>1. CASE chan' = Append(chan, "StartPointer")
        <4>1. ~StopUnderWay /\ StartMomentum
          BY <1>2, <2>1, <2>3, <3>1, StartsByListener DEF GlideNext, GlideStep, TypeInv
        <4> QED
          BY <4>1, GlideBegins
      <3>2. CASE chan' # Append(chan, "StartPointer")
        <4>1. stands /\ ~CallsForStop /\ ~StartMomentum
          BY <1>2, <2>3, <3>2 DEF GlideNext, GlideStep, StartMomentum, Send
        <4> QED
          BY <2>1, <2>2, <4>1, StandsListener, StandsTimer, StandsOthers DEF Next
      <3> QED
        BY <3>1, <3>2
    <2> QED
      BY <2>2, <2>3 DEF GlideInv
  <1> QED
    BY <1>1, <1>2

\* No Stop reaches the engine that nobody meant for the glide that goes on: a
\* timer whose touch is over does nothing, whatever touch is down by then, and
\* a short touch leaves the glide alone (touchpad.rs:415-424, 487-500, 555,
\* 584-588, 622-626, 884-890).
THEOREM OnlyMeantStops == GlideSpec => []GlideIsLeftAlone
  <1>1. GlideInv => GlideIsLeftAlone
    BY DEF GlideInv, LastIsStart, GlideIsLeftAlone
  <1> QED
    BY <1>1, GlideStart, GlideInvStep, GlideRunsDaemon, TypeInvariant, GrabInvariant,
       TouchInvariant, TokenInvariant, PTL DEF GlideSpec

=============================================================================
