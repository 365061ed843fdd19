------------------------------ MODULE Release -------------------------------
(***************************************************************************)
(* What the listener makes of one-finger touches (src/touchpad.rs): the    *)
(* samples it takes while a finger moves, and maybe_start_pointer with     *)
(* compute_release_velocity at the lift.  Every touch here begins in an    *)
(* idle listener (the other cases are in Listener, where the outcome of a  *)
(* lift is a free choice).  Velocities are exact fractions of position     *)
(* over time, along one axis; the two axes' separate events are one.       *)
(***************************************************************************)
EXTENDS MotionRing

CONSTANTS
  VelocityWindow,   \* VELOCITY_WINDOW_SAMPLES
  LiftTail,         \* LIFT_TAIL_SAMPLES
  Stale,            \* velocity_stale_ms
  MinTouch,         \* MIN_TOUCH_US
  MinDistance,      \* MIN_MOTION_DISTANCE
  MinVelocity,      \* pointer_min_velocity
  MaxEvents,        \* bound: samples taken in a behaviour
  MaxTime           \* bound: time of the last event

ASSUME ReleaseAssumption ==
  /\ VelocityWindow \in Nat /\ VelocityWindow >= 2
  /\ LiftTail \in Nat /\ LiftTail >= 2
  /\ VelocityWindow + LiftTail <= RingSize
  /\ {Stale, MinTouch, MinDistance, MinVelocity, MaxEvents, MaxTime} \subseteq Nat
  /\ 0 .. MaxTime \subseteq Times

VARIABLES
  clock,       \* time of the next event
  place,       \* where the finger is, or was when it left
  touching,    \* a finger is on the pad
  ptr,         \* ptr_x: the last coordinate the listener was told
  touchStart,  \* touch_start_us
  liftAt,      \* when the last touch ended
  verdict,     \* the outcome of its lift
  touch,       \* observer: every sample of the touch, oldest first
  walked,      \* observer: how far the finger moved on the pad
  events       \* samples taken so far

fingerVars == <<clock, place, touching, ptr, touchStart, liftAt, verdict, touch,
                walked, events>>

Verdict == {"none", "touch_too_short", "movement_too_short",
            "no_fresh_velocity", "velocity_too_low", "start"}

ReleaseInit ==
  /\ RingInit
  /\ clock = 0
  /\ place \in Positions
  /\ touching = FALSE
  /\ ptr = 0
  /\ touchStart = 0
  /\ liftAt = 0
  /\ verdict = "none"
  /\ touch = <<>>
  /\ walked = 0
  /\ events = 0

-----------------------------------------------------------------------------
\* A path between two samples; its speed is a fraction <<path, duration>>.
PathSpeed(summary) ==
  IF summary.duration = 0 THEN <<0, 1>> ELSE <<summary.path, summary.duration>>

Less(a, b)    == a[1] * b[2] < b[1] * a[2]
Times9By20(a) == <<9 * a[1], 20 * a[2]>>   \* LIFT_TAIL_SPEED_RATIO
Faster(a, b)  == IF Less(a, b) THEN b ELSE a

SaturatingSub(a, b) == IF a >= b THEN a - b ELSE 0

\* The sum of the first n lengths.
Total(lengths, n) ==
  LET sum[k \in Nat] == IF k = 0 THEN 0 ELSE sum[k - 1] + lengths[k]
  IN  sum[n]

\* summary_between, for first < last < count, which is all it is asked for.
SummaryBetween(first, last) ==
  [dx       |-> NthOldest(last).x - NthOldest(first).x,
   duration |-> SaturatingSub(NthOldest(last).ts, NthOldest(first).ts),
   path     |-> Total([i \in 1 .. (last - first) |->
                         Gap(NthOldest(first + i - 1), NthOldest(first + i))],
                      last - first)]

\* The movement slowed down before the lift: its last samples are those of a
\* finger being taken off, not of its motion.
TailIsSlow(tail, previous) ==
  LET min == <<MinVelocity, 1>>
  IN  /\ ~Less(PathSpeed(previous), min)
      /\ Less(PathSpeed(tail), Faster(Times9By20(PathSpeed(previous)),
                                      <<2 * MinVelocity, 1>>))

\* Mutant of LastUsed: the tail is compared with a window that overlaps it.
LastUsedOverlapping ==
  IF /\ count >= VelocityWindow + LiftTail
     /\ TailIsSlow(SummaryBetween(count - LiftTail, count - 1),
                   SummaryBetween(count - LiftTail - VelocityWindow + 1,
                                  count - LiftTail))
  THEN count - LiftTail - 1
  ELSE count - 1

\* The last sample that counts.
LastUsed ==
  IF /\ count >= VelocityWindow + LiftTail
     /\ TailIsSlow(SummaryBetween(count - LiftTail, count - 1),
                   SummaryBetween(count - LiftTail - VelocityWindow,
                                  count - LiftTail - 1))
  THEN count - LiftTail - 1
  ELSE count - 1

\* Mutant of FirstUsed: one sample too few.
FirstUsedLate ==
  LET samples == IF VelocityWindow <= LastUsed + 1 THEN VelocityWindow
                                                   ELSE LastUsed + 1
  IN  LastUsed + 2 - samples

FirstUsed ==
  LET samples == IF VelocityWindow <= LastUsed + 1 THEN VelocityWindow
                                                   ELSE LastUsed + 1
  IN  LastUsed + 1 - samples

\* Mutant of IsFresh: an age in the wrong unit, which is never too great.
IsFreshAlways(n, at) == SaturatingSub(at, NthOldest(n).ts) <= 1000 * Stale + 1000

IsFresh(n, at) == SaturatingSub(at, NthOldest(n).ts) <= Stale

\* compute_release_velocity returns a velocity.
HasVelocity(at) ==
  /\ count >= 2
  /\ IsFresh(count - 1, at)
  /\ IsFresh(LastUsed, at)
  /\ SummaryBetween(FirstUsed, LastUsed).duration # 0

\* maybe_start_pointer: why it refuses, or "start".
Decide(at) ==
  LET used == SummaryBetween(FirstUsed, LastUsed) IN
  CASE SaturatingSub(at, touchStart) < MinTouch -> "touch_too_short"
    [] OTHER ->
  CASE totalDistance < MinDistance -> "movement_too_short"
    [] OTHER ->
  CASE ~HasVelocity(at) -> "no_fresh_velocity"
    [] OTHER ->
  IF (IF used.dx < 0 THEN -used.dx ELSE used.dx) < MinVelocity * used.duration
  THEN "velocity_too_low" ELSE "start"

-----------------------------------------------------------------------------
\* The handler of BTN_TOUCH 1 comes first and takes its sample at the place
\* that the last event told; the coordinates of the new touch follow.
Land(p) ==
  /\ ~touching
  /\ events < MaxEvents
  /\ place' = p
  /\ touching' = TRUE
  /\ touchStart' = clock
  /\ Begin(ptr, clock)
  /\ touch' = <<[x |-> ptr, ts |-> clock]>>
  /\ walked' = 0
  /\ events' = events + 1
  /\ verdict' = "none"
  /\ UNCHANGED <<clock, ptr, liftAt>>

\* ABS_X or ABS_Y
Report(p) ==
  /\ ptr' = p
  /\ Push(p, clock)
  /\ touch' = Append(touch, [x |-> p, ts |-> clock])
  /\ events' = events + 1
  /\ UNCHANGED <<clock, touching, touchStart, liftAt, verdict>>

ReportLanding == touching /\ ptr # place /\ Report(place) /\ UNCHANGED <<place, walked>>

MoveFinger(p) ==
  /\ touching
  /\ ptr = place /\ p # place
  /\ events < MaxEvents
  /\ place' = p
  /\ walked' = walked + (IF p < place THEN place - p ELSE p - place)
  /\ Report(p)

Lift ==
  /\ touching /\ ptr = place
  /\ touching' = FALSE
  /\ liftAt' = clock
  /\ verdict' = Decide(clock)
  /\ UNCHANGED <<ringVars, clock, place, ptr, touchStart, touch, walked, events>>

\* WouldBlock: nothing to read until the next touch.
Poll == ~touching /\ UNCHANGED <<ringVars, fingerVars>>

Wait ==
  /\ clock < MaxTime
  /\ touching => ptr = place
  /\ clock' = clock + 1
  /\ UNCHANGED <<ringVars, place, touching, ptr, touchStart, liftAt, verdict,
                 touch, walked, events>>

ReleaseNext ==
  \/ \E p \in Positions : Land(p) \/ MoveFinger(p)
  \/ ReportLanding \/ Lift \/ Poll \/ Wait

ReleaseSpec == ReleaseInit /\ [][ReleaseNext]_<<ringVars, fingerVars>>

-----------------------------------------------------------------------------
\* The same decision taken from the whole touch, without the ring.
LastOf(h, n) == IF n < Len(h) THEN SubSeq(h, Len(h) - n + 1, Len(h)) ELSE h

PathOf(h) == Total([i \in 1 .. (Len(h) - 1) |-> Gap(h[i], h[i + 1])], Len(h) - 1)

Summary(h) == [dx       |-> h[Len(h)].x - h[1].x,
               duration |-> h[Len(h)].ts - h[1].ts,
               path     |-> PathOf(h)]

UsedSamples(h) ==
  LET before == SubSeq(h, 1, Len(h) - LiftTail) IN
  IF /\ Len(h) >= VelocityWindow + LiftTail
     /\ TailIsSlow(Summary(LastOf(h, LiftTail)),
                   Summary(LastOf(before, VelocityWindow)))
  THEN LastOf(before, VelocityWindow)
  ELSE LastOf(h, VelocityWindow)

Qualifies(h, at) ==
  LET used == UsedSamples(h)
      sum  == Summary(used)
  IN  /\ at - h[1].ts >= MinTouch
      /\ PathOf(h) >= MinDistance
      /\ Len(h) >= 2
      /\ at - used[Len(used)].ts <= Stale
      /\ sum.duration > 0
      /\ sum.dx >= MinVelocity * sum.duration \/ -sum.dx >= MinVelocity * sum.duration

Lifted == verdict # "none"

\* A lift starts inertia exactly if its own touch qualifies, judged from all
\* its samples: neither what earlier touches left in the ring, nor a ring that
\* has gone round, nor the windows of a trimmed tail change the decision
\* (touchpad.rs:174-249, 699-819).
VerdictIsOfThisTouch == Lifted => (verdict = "start") = Qualifies(touch, liftAt)

\* A finger that came to rest before it was lifted leaves no inertia, although
\* resting produces no event that would say so (touchpad.rs:184-187, 219-222).
RestedFingerStays ==
  verdict = "start" => liftAt - touch[Len(touch)].ts <= Stale

\* A steady movement, at twice the smallest speed or more, that is long enough
\* and ends at the lift does start inertia, however many samples it has:
\* trimming never cuts into it (touchpad.rs:189-226, 782-794).
SteadyMotionStarts ==
  /\ Lifted
  /\ Len(touch) >= 2
  /\ LET v == touch[2].x - touch[1].x IN
       /\ v >= 2 * MinVelocity \/ -v >= 2 * MinVelocity
       /\ \A i \in 2 .. Len(touch) : /\ touch[i].ts = touch[i - 1].ts + 1
                                    /\ touch[i].x = touch[i - 1].x + v
  /\ liftAt - touch[1].ts >= MinTouch
  /\ PathOf(touch) >= MinDistance
  /\ liftAt - touch[Len(touch)].ts <= Stale
  => verdict = "start"

=============================================================================
