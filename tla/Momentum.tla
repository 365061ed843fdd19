------------------------------ MODULE Momentum ------------------------------
(***************************************************************************)
(* run_engine (src/momentum.rs) in detail, with its block detector: the    *)
(* velocity and its decay, the fractions of a unit that are carried from   *)
(* tick to tick, the limit of a glide's duration, and what is emitted.     *)
(* One axis stands for both.  Speeds are multiples of POINTER_STOP_SPEED,  *)
(* the decay takes away at least one of them in a tick, and a fraction is  *)
(* counted in units of 1/Unit.                                             *)
(***************************************************************************)
EXTENDS EnginePeers, PointerBlock

CONSTANTS
  Threads,       \* threads that start with a Sender
  MaxMessages,   \* bound: messages sent and Senders cloned in a behaviour
  MaxSpeed,      \* greatest speed of a StartPointer
  MaxDelta,      \* greatest motion in a ContinuePointer
  Unit,          \* fractions in one unit of emitted motion
  Scale,         \* pointer_speed_factor: fractions per unit of touchpad motion
  MaxLate,       \* greatest time between two ticks
  MaxDuration,   \* pointer_max_duration_ms, 0 for none
  DragPermille,  \* pointer_drag as configured
  HasDevice      \* not a dry run

ASSUME MomentumAssumption ==
  /\ {MaxSpeed, Unit, MaxLate, MaxDelta, Scale} \subseteq Nat \ {0}
  /\ {Threads, MaxMessages, MaxDuration} \subseteq Nat
  /\ DragPermille \in Int
  /\ HasDevice \in BOOLEAN

VARIABLES
  sent,      \* messages sent and Senders cloned so far
  state,     \* EngineState, or "Exited"
  ticking,   \* recv_timeout has expired and its tick is being worked out
  v,         \* vx
  accum,     \* x_accum
  dt,        \* now - last_tick in the current tick
  elapsed,   \* now - momentum_started_at, up to MaxDuration
  lag,       \* observer: motion owed since the fractions last began at zero,
             \* less what was emitted
  sinceStart,\* observer: time since the last StartPointer, up to MaxDuration
  wasted     \* observer: emissions in a row that did not move the cursor while
             \* the detector could see it

momentumVars == <<state, ticking, v, accum, dt, elapsed>>
observerVars == <<lag, sinceStart, wasted>>
vars == <<channelVars, sent, screenVars, detectorVars, momentumVars, observerVars>>

Speeds == -MaxSpeed .. MaxSpeed
Abs(x) == IF x < 0 THEN -x ELSE x

MomentumTypeOK ==
  /\ BlockTypeOK
  /\ state \in {"Idle", "PointerMomentum", "Exited"}
  /\ ticking \in BOOLEAN
  /\ v \in Speeds
  /\ accum \in -(Unit - 1) .. (Unit - 1)
  /\ dt \in 0 .. MaxLate
  /\ elapsed \in Nat
  /\ wasted \in Nat

MomentumInit ==
  /\ ChannelsInit(Threads)
  /\ sent = 0
  /\ BlockInit
  /\ state = "Idle"
  /\ ticking = FALSE
  /\ v = 0
  /\ accum = 0
  /\ dt = 0
  /\ elapsed = 0
  /\ lag = 0
  /\ sinceStart = 0
  /\ wasted = 0

-----------------------------------------------------------------------------
\* Mutant of ClampedDrag: the setting is used as it is.
ClampedDragNot == DragPermille

\* drag_to_tau_ms
ClampedDrag == IF DragPermille < 1 THEN 1
               ELSE IF DragPermille > 950 THEN 950 ELSE DragPermille

\* The speeds to which a tick can bring a speed.  Without drag there would be
\* no decay: tau would be infinite.
Decayed(speed) == IF ClampedDrag = 0 THEN {speed} ELSE 0 .. (speed - 1)

\* f64::trunc of a number of fractions
Trunc(a) == IF a >= 0 THEN a \div Unit ELSE -((-a) \div Unit)

\* take_integer_motion: the part of `a` that is emitted, and the rest
Whole(a) == Trunc(a)
\* Mutant of Rest: what was emitted is not taken away.
RestKept(a) == a
Rest(a) == a - Unit * Trunc(a)

\* emit_pointer: uinput moves the cursor, as far as the screen goes.
Emitted(dx) ==
  IF ~HasDevice THEN cursor
  ELSE IF cursor + dx < 0 THEN 0
  ELSE IF cursor + dx > Edge THEN Edge ELSE cursor + dx

Takes(m) ==
  /\ state # "Exited" /\ ~ticking
  /\ chan # <<>>
  /\ Head(chan) = m
  /\ chan' = Tail(chan)
  /\ UNCHANGED <<senders, statusOpen, sent>>

\* Mutant of Rested: the listener is not told.
RestedSilently ==
  /\ state' = "Idle"
  /\ v' = 0
  /\ UNCHANGED status

\* Every way of leaving PointerMomentum: velocity zeroed, listener told.
Rested ==
  /\ state' = "Idle"
  /\ v' = 0
  /\ SendStatus("PointerIdle")

\* Mutant of Restarted: a restart goes on with the clock of the first start.
RestartedLate ==
  /\ elapsed' = IF state = "PointerMomentum" THEN elapsed ELSE 0
  /\ dt' = 0

\* last_tick and momentum_started_at
Restarted == elapsed' = 0 /\ dt' = 0

TakeStart ==
  /\ Takes("StartPointer")
  /\ v' \in Speeds \ {0}
  /\ accum' = 0 /\ lag' = 0
  /\ Restarted /\ sinceStart' = 0
  /\ Reset /\ wasted' = 0
  /\ state' = "PointerMomentum"
  /\ SendStatus("PointerActive")
  /\ UNCHANGED <<ticking, screenVars>>

TakeStop ==
  /\ Takes("Stop")
  /\ Rested
  /\ accum' = 0 /\ lag' = 0
  /\ UNCHANGED <<ticking, dt, elapsed, screenVars, detectorVars, sinceStart, wasted>>

\* Mutant of Carried: the fraction of the glide goes into the finger's motion.
CarriedAlways == accum

\* The fraction that a ContinuePointer adds to: that of the last one, unless a
\* glide had to be ended for it.
Carried == IF state = "PointerMomentum" THEN 0 ELSE accum

TakeContinue ==
  /\ Takes("ContinuePointer")
  /\ \E delta \in -MaxDelta .. MaxDelta :
       LET moved == Carried + delta * Scale
           owed  == (IF state = "PointerMomentum" THEN 0 ELSE lag) + delta * Scale
       IN  /\ accum' = Rest(moved)
           /\ cursor' = Emitted(Whole(moved))
           /\ lag' = owed - Unit * Whole(moved)
  /\ IF state = "PointerMomentum" THEN Rested ELSE UNCHANGED <<state, v, status>>
  /\ UNCHANGED <<ticking, dt, elapsed, xUp, xChanges, detectorVars, sinceStart, wasted>>

\* A time, and `late` more; it is of no interest by how much it exceeds the limit.
Later(time, late) == IF time + late < MaxDuration THEN time + late ELSE MaxDuration

\* recv_timeout expires, at the earliest after one tick.
TickBegins ==
  /\ state = "PointerMomentum" /\ ~ticking
  /\ chan = <<>>
  /\ senders > 0
  /\ ticking' = TRUE
  /\ dt' \in 1 .. MaxLate
  /\ elapsed' = Later(elapsed, dt')
  /\ sinceStart' = Later(sinceStart, dt')
  /\ UNCHANGED <<channelVars, sent, state, v, accum, screenVars, detectorVars, lag, wasted>>

OverLimit == MaxDuration > 0 /\ elapsed >= MaxDuration

\* The three ways in which a tick ends the glide.
TickEnds ==
  /\ ticking
  /\ ticking' = FALSE
  /\ Ask
  /\ Rested
  /\ accum' = 0 /\ lag' = 0 /\ wasted' = 0
  /\ UNCHANGED <<chan, senders, statusOpen, sent, dt, elapsed, screenVars, sinceStart>>

EndBlocked   == TickEnds /\ IsBlocked
EndOverLimit == TickEnds /\ ~IsBlocked /\ OverLimit
EndSlow      == TickEnds /\ ~IsBlocked /\ ~OverLimit /\ 0 \in Decayed(Abs(v))

\* The glide goes on: whole units are emitted, and the detector is told so.
GlideStep ==
  /\ ticking /\ ~IsBlocked /\ ~OverLimit
  /\ ticking' = FALSE
  /\ \E speed \in Decayed(Abs(v)) \ {0} : v' = IF v < 0 THEN -speed ELSE speed
  /\ LET moved == accum + v' * dt
         dx    == Whole(moved)
         emits == HasDevice /\ dx # 0
         sees  == session' = "live"
     IN  /\ accum' = Rest(moved)
         /\ cursor' = Emitted(dx)
         /\ lag' = (lag + v' * dt) - Unit * dx
         /\ IF Observes THEN Query /\ lastPosition' = Answer /\ blockedSamples' = SamplesNow
                        ELSE UNCHANGED <<session, attemptAge, lastPosition, blockedSamples>>
         /\ pendingMotion' = emits
         /\ wasted' = IF ~sees \/ cursor' # cursor THEN 0
                      ELSE IF emits THEN wasted + 1 ELSE wasted
  /\ UNCHANGED <<channelVars, sent, state, dt, elapsed, xUp, xChanges, sinceStart>>

Disconnects ==
  /\ state # "Exited" /\ ~ticking
  /\ chan = <<>>
  /\ senders = 0
  /\ state' = "Exited"
  /\ UNCHANGED <<channelVars, sent, ticking, v, accum, dt, elapsed, screenVars,
                 detectorVars, observerVars>>

EngineRuns ==
  \/ TakeStart \/ TakeStop \/ TakeContinue \/ TickBegins
  \/ EndBlocked \/ EndOverLimit \/ EndSlow \/ GlideStep \/ Disconnects

\* Outside a glide the user moves the cursor with the touchpad itself.
UserMovesCursor ==
  /\ state = "Idle" /\ xUp
  /\ cursor' \in 0 .. Edge \ {cursor}
  /\ UNCHANGED <<channelVars, sent, xUp, xChanges, detectorVars, momentumVars, observerVars>>

Peers ==
  /\ \/ (PeerReads \/ PeerLeaves) /\ UNCHANGED sent
     \/ /\ PeerSends \/ PeerSpawns
        /\ sent < MaxMessages
        /\ sent' = sent + 1
  /\ UNCHANGED <<screenVars, detectorVars, momentumVars, observerVars>>

Surroundings ==
  /\ XServerChanges \/ TimePasses
  /\ UNCHANGED <<channelVars, sent, momentumVars, observerVars>>

Exited == state = "Exited" /\ UNCHANGED vars

MomentumNext == EngineRuns \/ UserMovesCursor \/ Peers \/ Surroundings \/ Exited

MomentumSpec == MomentumInit /\ [][MomentumNext]_vars

\* The engine's thread is run whenever it can run; nobody else owes anything.
FairMomentumSpec == MomentumSpec /\ WF_vars(EngineRuns)

-----------------------------------------------------------------------------
\* What the other threads rely on: the engine with all its detail does nothing
\* that the engine of module Engine would not do.  Its rank of a glide is the
\* speed that is left.
Abstract == INSTANCE EngineAlone
  WITH mode <- state, glide <- Abs(v), GlideTicks <- MaxSpeed

ImplementsEngine == Abstract!AloneSpec

\* A glide is given up as blocked only when the cursor is at the edge that the
\* glide runs into (src/x11_pointer.rs:46, :61): never because a tick emitted
\* nothing, because of what an earlier glide did, or because the X server was
\* restarted and put the cursor elsewhere.
BlockedOnlyAtEdge ==
  [][EndBlocked => cursor = (IF v < 0 THEN 0 ELSE Edge)]_vars

\* And it is given up in time: with a working X server at most
\* BLOCKED_SAMPLE_LIMIT emissions in a row are lost at an edge, also for a glide
\* that begins there.
BlockedGlideEnds == wasted <= BlockedLimit

\* Fractions of a unit are neither lost nor invented (src/momentum.rs:280,
\* :325): since the start of the glide or of the finger's motion, what was
\* emitted differs by less than one unit from what was owed, whatever ticks,
\* continued motion and restarts came in between; in particular nothing of a
\* glide goes into the motion of the finger that ended it.
FractionsAreKept == -Unit < lag /\ lag < Unit

\* The limit of a glide's duration (src/momentum.rs:182) counts from its last
\* StartPointer: the glide is not cut short before, and nothing is emitted
\* after it.
DurationIsOfThisGlide ==
  [][MaxDuration > 0 =>
       /\ EndOverLimit => sinceStart >= MaxDuration
       /\ GlideStep /\ cursor' # cursor => sinceStart < MaxDuration]_vars

\* Every glide ends, whatever number pointer_drag is set to: the clamp
\* (src/momentum.rs:275) leaves no setting for which the speed never decays.
GlidesEnd == state = "PointerMomentum" ~> state # "PointerMomentum"

=============================================================================
