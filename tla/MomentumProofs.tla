--------------------------- MODULE MomentumProofs ---------------------------
(***************************************************************************)
(* The detailed engine does nothing that the engine of module Engine would *)
(* not do, loses no motion, keeps to the duration limit, and gives a glide *)
(* up as blocked where and when it should: for every value of the          *)
(* constants.                                                              *)
(***************************************************************************)
EXTENDS Momentum, TLAPS

LEMMA Constants ==
  /\ MaxSpeed \in Nat \ {0} /\ Unit \in Nat \ {0} /\ MaxLate \in Nat \ {0}
  /\ MaxDelta \in Nat \ {0} /\ Scale \in Nat \ {0}
  /\ MaxDuration \in Nat /\ DragPermille \in Int /\ HasDevice \in BOOLEAN
  /\ Edge \in Nat \ {0} /\ BlockedLimit \in Nat \ {0}
  /\ ReconnectDelay \in Nat \ {0}
  BY MomentumAssumption, BlockAssumption DEF MomentumAssumption, BlockAssumption

-----------------------------------------------------------------------------
\* Dividing a natural number leaves a remainder below the divisor.
LEMMA Division ==
  ASSUME NEW N \in Nat \ {0}, NEW n \in Nat
  PROVE  n \div N \in Nat /\ n - N * (n \div N) \in 0 .. (N - 1)
  <1>1. n \div N \in Nat
    BY SMT
  <1>2. n = N * (n \div N) + (n % N)
    BY SMT
  <1>3. n % N \in 0 .. (N - 1)
    BY SMT
  <1> DEFINE p == N * (n \div N)
  <1>4. p \in Int
    BY <1>1
  <1> HIDE DEF p
  <1>5. n - p = n % N
    BY <1>2, <1>3, <1>4 DEF p
  <1> QED
    BY <1>1, <1>3, <1>5 DEF p

\* take_integer_motion rounds towards zero: what is left is less than a unit,
\* and neither part changes its sign.
LEMMA TakenMotion ==
  ASSUME NEW a \in Int
  PROVE  /\ Whole(a) \in Int
         /\ Rest(a) = a - Unit * Whole(a)
         /\ Rest(a) \in -(Unit - 1) .. (Unit - 1)
         /\ a >= 0 => Whole(a) >= 0 /\ Rest(a) >= 0
         /\ a <= 0 => Whole(a) <= 0 /\ Rest(a) <= 0
  <1>0. Unit \in Nat \ {0}
    BY Constants
  <1>1. CASE a >= 0
    <2> DEFINE q == a \div Unit
               p == Unit * q
    <2>0. a \in Nat
      BY <1>1
    <2>1. q \in Nat /\ a - p \in 0 .. (Unit - 1)
      BY <1>0, <2>0, Division, Zenon
    <2>2. Whole(a) = q /\ Rest(a) = a - p
      BY <1>1 DEF Whole, Rest, Trunc
    <2>3. p = Unit * Whole(a)
      BY <2>2
    <2>4. a = 0 => q = 0
      <3>1. 0 \div Unit = 0
        BY <1>0, SMT
      <3> QED
        BY <3>1
    <2>5. a = 0 => a - p = 0
      BY <1>0, <2>4
    <2> HIDE DEF q, p
    <2> QED
      BY <1>0, <1>1, <2>1, <2>2, <2>3, <2>4, <2>5
  <1>2. CASE a < 0
    <2> DEFINE q == (-a) \div Unit
               p == Unit * q
    <2>0. -a \in Nat
      BY <1>2
    <2>1. q \in Nat /\ -a - p \in 0 .. (Unit - 1)
      BY <1>0, <2>0, Division, Zenon
    <2>2. Whole(a) = -q
      BY <1>2 DEF Whole, Trunc
    <2>3. Unit * Whole(a) = -p /\ p \in Int
      BY <1>0, <2>1, <2>2
    <2>4. Rest(a) = a - Unit * Whole(a)
      BY DEF Rest, Whole
    <2> HIDE DEF q, p
    <2>5. Rest(a) = a + p
      BY <2>3, <2>4
    <2>6. Rest(a) \in -(Unit - 1) .. (Unit - 1) /\ Rest(a) <= 0
      BY <1>0, <2>1, <2>3, <2>5
    <2> QED
      BY <1>2, <2>1, <2>2, <2>4, <2>6
  <1> QED
    BY <1>1, <1>2

\* A velocity displaces in its own direction.
LEMMA Displacement ==
  ASSUME NEW speed \in Int, NEW time \in Nat
  PROVE  /\ speed * time \in Int
         /\ speed > 0 => speed * time >= 0
         /\ speed < 0 => speed * time <= 0
  <1>1. speed * time \in Int
    OBVIOUS
  <1>2. speed > 0 => speed * time >= 0
    BY SMTT(30)
  <1>3. speed < 0 => speed * time <= 0
    BY SMTT(30)
  <1> QED
    BY <1>1, <1>2, <1>3

\* The cursor stays on the screen, and an emission that does not move it is
\* one over an edge.
LEMMA EmittedMotion ==
  ASSUME cursor \in 0 .. Edge, NEW dx \in Int
  PROVE  /\ Emitted(dx) \in 0 .. Edge
         /\ HasDevice /\ dx # 0 /\ Emitted(dx) = cursor
              => cursor = IF dx < 0 THEN 0 ELSE Edge
  <1>1. Edge \in Nat \ {0}
    BY Constants
  <1> QED
    BY <1>1 DEF Emitted

\* A tick only ever takes speed away: the clamp leaves no drag of zero.
LEMMA DragDecays ==
  ASSUME NEW speed
  PROVE  Decayed(speed) = 0 .. (speed - 1)
  <1>1. ClampedDrag # 0
    BY Constants DEF ClampedDrag
  <1> QED
    BY <1>1 DEF Decayed

-----------------------------------------------------------------------------
\* The fractions: what is owed is what the engine carries, and a glide carries
\* them in its own direction.
Motion ==
  /\ lag = accum
  /\ state = "PointerMomentum" =>
       v # 0 /\ (v > 0 => accum >= 0) /\ (v < 0 => accum <= 0)

\* The clock of a glide starts with it.
Clocks ==
  /\ sinceStart = elapsed
  /\ ticking => state = "PointerMomentum"

\* What the detector remembers during a glide, as long as it has its session:
\* the cursor is where it saw it, unless an emission has moved it since; and an
\* emission that did not was over the edge ahead.
EdgeAhead == IF v < 0 THEN 0 ELSE Edge
Detection ==
  /\ wasted <= BlockedLimit
  /\ session = "live" => xUp
  /\ session = "none" => lastPosition = NoPosition
  /\ state = "PointerMomentum" =>
       /\ blockedSamples < BlockedLimit
       /\ session = "none" => wasted = 0
       /\ session = "live" =>
            /\ wasted <= blockedSamples + (IF pendingMotion THEN 1 ELSE 0)
            /\ wasted > 0 \/ ~pendingMotion => lastPosition = cursor
            /\ pendingMotion /\ lastPosition = cursor => cursor = EdgeAhead

MomentumInv == MomentumTypeOK /\ Motion /\ Clocks /\ Detection

LEMMA InitInv == MomentumInit => MomentumInv
  <1> SUFFICES ASSUME MomentumInit PROVE MomentumInv
    OBVIOUS
  <1>1. BlockTypeOK
    <2>1. cursor \in 0 .. Edge /\ xUp \in BOOLEAN /\ xChanges \in Nat
      BY DEF MomentumInit, BlockInit
    <2>2. session \in {"none", "live", "broken"} /\ pendingMotion \in BOOLEAN
      BY DEF MomentumInit, BlockInit
    <2>3. attemptAge \in 0 .. ReconnectDelay /\ blockedSamples \in Nat
      BY Constants DEF MomentumInit, BlockInit
    <2>4. lastPosition \in {NoPosition} \cup 0 .. Edge
      BY DEF MomentumInit, BlockInit
    <2> QED
      BY <2>1, <2>2, <2>3, <2>4 DEF BlockTypeOK
  <1>2. MomentumTypeOK
    <2>1. 0 \in Speeds /\ 0 \in -(Unit - 1) .. (Unit - 1) /\ 0 \in 0 .. MaxLate
      BY Constants DEF Speeds
    <2> QED
      BY <1>1, <2>1 DEF MomentumInit, MomentumTypeOK
  <1>3. Motion /\ Clocks /\ Detection
    BY Constants DEF MomentumInit, BlockInit, Motion, Clocks, Detection
  <1> QED
    BY <1>2, <1>3 DEF MomentumInv

\* Steps that touch neither the engine nor the detector.
LEMMA AsideSteps ==
  ASSUME MomentumInv, UNCHANGED <<screenVars, detectorVars, observerVars>>,
         UNCHANGED <<ticking, v, accum, dt, elapsed>>,
         state' = state \/ (state' = "Exited" /\ ~ticking)
  PROVE  MomentumInv'
  BY DEF MomentumInv, MomentumTypeOK, BlockTypeOK, Motion, Clocks, Detection, EdgeAhead,
         screenVars, detectorVars, observerVars, NoPosition, Speeds

\* A query of the detector leaves a session only if the X server runs.
LEMMA Queries ==
  ASSUME MomentumInv, Query
  PROVE  /\ session' \in {"none", "live"}
         /\ attemptAge' \in 0 .. ReconnectDelay
         /\ Answer = IF session' = "live" THEN cursor ELSE NoPosition
         /\ session' = "live" => xUp /\ session # "broken"
  BY Constants
  DEF Query, NextSession, Answer, MayConnect, MomentumInv,
      MomentumTypeOK, BlockTypeOK, Detection

LEMMA StartInv ==
  ASSUME MomentumInv, TakeStart
  PROVE  MomentumInv'
  <1>1. /\ Query /\ lastPosition' = Answer /\ pendingMotion' = FALSE
        /\ blockedSamples' = 0 /\ UNCHANGED screenVars
    BY DEF TakeStart, Reset
  <1>2. BlockTypeOK'
    BY <1>1, Queries
    DEF screenVars, MomentumInv, MomentumTypeOK, BlockTypeOK
  <1>3. /\ state' = "PointerMomentum" /\ v' \in Speeds \ {0} /\ UNCHANGED ticking
        /\ accum' = 0 /\ lag' = 0 /\ wasted' = 0 /\ sinceStart' = 0
        /\ elapsed' = 0 /\ dt' = 0
    BY DEF TakeStart, Restarted
  <1>4. MomentumTypeOK'
    BY <1>2, <1>3, Constants
    DEF MomentumInv, MomentumTypeOK
  <1>5. Motion' /\ Clocks'
    BY <1>3 DEF Motion, Clocks, Speeds
  <1>6. Detection'
    <2>1. session' = "live" => lastPosition' = cursor' /\ xUp'
      BY <1>1, Queries DEF screenVars
    <2>2. session' = "none" => lastPosition' = NoPosition
      BY <1>1, Queries
    <2> QED
      BY <1>1, <1>3, <2>1, <2>2, Constants DEF Detection
  <1> QED
    BY <1>4, <1>5, <1>6 DEF MomentumInv

\* Stop, and every tick that ends a glide: nothing is left of it.
LEMMA RestInv ==
  ASSUME MomentumInv, Rested, accum' = 0, lag' = 0, ticking' = FALSE,
         UNCHANGED <<dt, elapsed, sinceStart, screenVars>>,
         \/ UNCHANGED <<detectorVars, wasted>>
         \/ Ask /\ wasted' = 0
  PROVE  MomentumInv'
  <1>1. state' = "Idle" /\ v' = 0
    BY DEF Rested
  <1>2. /\ BlockTypeOK' /\ wasted' <= BlockedLimit /\ wasted' \in Nat
        /\ (session' = "live" => xUp')
        /\ (session' = "none" => lastPosition' = NoPosition)
    <2>1. CASE UNCHANGED <<detectorVars, wasted>>
      BY <2>1 DEF MomentumInv, MomentumTypeOK, BlockTypeOK, Detection, detectorVars,
                  screenVars, NoPosition
    <2>2. CASE Ask /\ wasted' = 0 /\ Observes
      <3>1. Query /\ pendingMotion' = FALSE /\ lastPosition' = Answer
            /\ blockedSamples' = SamplesNow
        BY <2>2 DEF Ask
      <3>2. SamplesNow \in Nat
        BY DEF SamplesNow, MomentumInv, MomentumTypeOK, BlockTypeOK
      <3>3. /\ session' \in {"none", "live"} /\ attemptAge' \in 0 .. ReconnectDelay
            /\ Answer = IF session' = "live" THEN cursor ELSE NoPosition
            /\ session' = "live" => xUp
        BY <3>1, Queries
      <3>4. /\ cursor' \in 0 .. Edge /\ xUp' \in BOOLEAN /\ xChanges' \in Nat
            /\ xUp' = xUp /\ cursor' = cursor
        BY DEF MomentumInv, MomentumTypeOK, BlockTypeOK, screenVars
      <3>5. lastPosition' \in {NoPosition} \cup 0 .. Edge
        BY <3>1, <3>3, <3>4
      <3>6. BlockTypeOK'
        BY <3>1, <3>2, <3>3, <3>4, <3>5 DEF BlockTypeOK
      <3> QED
        BY <2>2, <3>1, <3>3, <3>4, <3>6, Constants
    <2>3. CASE Ask /\ wasted' = 0 /\ ~Observes
      BY <2>3, Constants
      DEF Ask, MomentumInv, MomentumTypeOK, BlockTypeOK, Detection,
          detectorVars, screenVars, NoPosition
    <2> QED
      BY <2>1, <2>2, <2>3
  <1>3. MomentumTypeOK'
    <2>1. 0 \in Speeds /\ 0 \in -(Unit - 1) .. (Unit - 1)
      BY Constants DEF Speeds
    <2>2. dt' \in 0 .. MaxLate /\ elapsed' \in Nat
      BY DEF MomentumInv, MomentumTypeOK
    <2> QED
      BY <1>1, <1>2, <2>1, <2>2 DEF MomentumTypeOK
  <1>4. Motion' /\ Clocks'
    BY <1>1 DEF MomentumInv, Motion, Clocks
  <1>5. Detection'
    BY <1>1, <1>2 DEF Detection
  <1> QED
    BY <1>3, <1>4, <1>5 DEF MomentumInv

LEMMA ContinueInv ==
  ASSUME MomentumInv, TakeContinue
  PROVE  MomentumInv'
  <1>1. PICK delta \in -MaxDelta .. MaxDelta :
          LET moved == Carried + delta * Scale
              owed  == (IF state = "PointerMomentum" THEN 0 ELSE lag) + delta * Scale
          IN  /\ accum' = Rest(moved)
              /\ cursor' = Emitted(Whole(moved))
              /\ lag' = owed - Unit * Whole(moved)
    BY DEF TakeContinue
  <1> DEFINE moved == Carried + delta * Scale
             taken == Unit * Whole(moved)
  <1>2. delta \in Int /\ Scale \in Int /\ Carried \in Int
    BY Constants
    DEF Carried, MomentumInv, MomentumTypeOK
  <1>3. moved \in Int
    BY <1>2
  <1>4. (IF state = "PointerMomentum" THEN 0 ELSE lag) + delta * Scale = moved
    BY DEF Carried, MomentumInv, Motion
  <1>5. accum' = Rest(moved) /\ cursor' = Emitted(Whole(moved)) /\ lag' = moved - taken
    BY <1>1, <1>4
  <1>6. Rest(moved) = moved - taken
    BY DEF Rest, Whole
  <1> HIDE DEF moved, taken
  <1>7. /\ accum' \in -(Unit - 1) .. (Unit - 1) /\ lag' = accum'
        /\ cursor' \in 0 .. Edge
    BY <1>3, <1>5, <1>6, TakenMotion, EmittedMotion
    DEF MomentumInv, MomentumTypeOK, BlockTypeOK
  <1>8. /\ state' # "PointerMomentum" /\ state' \in {"Idle", "Exited"}
        /\ v' \in Speeds /\ ticking = FALSE
        /\ UNCHANGED <<ticking, dt, elapsed, xUp, xChanges, detectorVars, sinceStart, wasted>>
    BY Constants
    DEF TakeContinue, Takes, Rested, MomentumInv, MomentumTypeOK,
        Speeds
  <1>9. BlockTypeOK'
    BY <1>7, <1>8 DEF MomentumInv, MomentumTypeOK, BlockTypeOK, detectorVars, NoPosition
  <1>10. MomentumTypeOK'
    BY <1>7, <1>8, <1>9 DEF MomentumInv, MomentumTypeOK, Speeds
  <1> QED
    BY <1>7, <1>8, <1>10
    DEF MomentumInv, Motion, Clocks, Detection, detectorVars, NoPosition

LEMMA TickInv ==
  ASSUME MomentumInv, TickBegins
  PROVE  MomentumInv'
  <1>0. dt' \in 1 .. MaxLate /\ elapsed' = Later(elapsed, dt')
        /\ sinceStart' = Later(sinceStart, dt')
    BY DEF TickBegins
  <1>1. /\ ticking' = TRUE /\ state = "PointerMomentum"
        /\ UNCHANGED <<state, v, accum, screenVars, detectorVars, lag, wasted>>
    BY DEF TickBegins
  <1>2. dt' \in 0 .. MaxLate /\ elapsed' \in Nat /\ sinceStart' = elapsed'
    <2>1. \A time, late \in Nat : Later(time, late) \in Nat
      BY Constants DEF Later
    <2>2. dt' \in 0 .. MaxLate
      BY <1>0, Constants
    <2>3. dt' \in Nat
      BY <1>0
    <2>4. Later(elapsed, dt') \in Nat
      BY <2>1, <2>3, Zenon DEF MomentumInv, MomentumTypeOK
    <2>5. sinceStart' = elapsed'
      BY <1>0 DEF MomentumInv, Clocks
    <2> QED
      BY <1>0, <2>2, <2>4, <2>5, Zenon
  <1> QED
    BY <1>1, <1>2
    DEF MomentumInv, MomentumTypeOK, BlockTypeOK, Motion, Clocks, Detection, EdgeAhead,
        screenVars, detectorVars, NoPosition, Speeds

\* A tick in which the glide goes on, as far as the motion is concerned.
LEMMA GlideMoves ==
  ASSUME MomentumInv, GlideStep
  PROVE  /\ v' \in Speeds \ {0} /\ (v' > 0 <=> v > 0) /\ Abs(v') \in 1 .. (Abs(v) - 1)
         /\ accum' \in -(Unit - 1) .. (Unit - 1) /\ lag' = accum'
         /\ (v' > 0 => accum' >= 0) /\ (v' < 0 => accum' <= 0)
         /\ \E dx \in Int :
              /\ v' > 0 => dx >= 0
              /\ v' < 0 => dx <= 0
              /\ cursor' = Emitted(dx)
              /\ pendingMotion' = (HasDevice /\ dx # 0)
              /\ wasted' = IF session' # "live" \/ cursor' # cursor THEN 0
                           ELSE IF HasDevice /\ dx # 0 THEN wasted + 1 ELSE wasted
  <1> DEFINE moved == accum + v' * dt
             taken == Unit * Whole(moved)
             dx    == Whole(moved)
  <1>1. PICK speed \in Decayed(Abs(v)) \ {0} : v' = IF v < 0 THEN -speed ELSE speed
    BY DEF GlideStep
  <1>2. speed \in 1 .. (Abs(v) - 1)
    <2>1. Abs(v) \in Int
      BY DEF Abs, MomentumInv, MomentumTypeOK, Speeds
    <2> QED
      BY <1>1, <2>1, DragDecays
  <1>3. v' \in Speeds \ {0} /\ (v' > 0 <=> v > 0) /\ Abs(v') \in 1 .. (Abs(v) - 1)
    BY <1>1, <1>2, Constants DEF Abs, MomentumInv, MomentumTypeOK, Speeds
  <1>4. state = "PointerMomentum"
    BY DEF GlideStep, MomentumInv, Clocks
  <1>5. v' \in Int /\ dt \in Nat /\ accum \in Int /\ v \in Int /\ v # 0
    BY <1>3, <1>4, Constants DEF MomentumInv, MomentumTypeOK, Speeds, Motion
  <1>6. /\ moved \in Int /\ (v' > 0 => moved >= 0) /\ (v' < 0 => moved <= 0)
    <2> DEFINE way == v' * dt
    <2>1. way \in Int /\ (v' > 0 => way >= 0) /\ (v' < 0 => way <= 0)
      BY <1>5, Displacement
    <2>2. (v' > 0 => accum >= 0) /\ (v' < 0 => accum <= 0)
      BY <1>3, <1>4, <1>5 DEF MomentumInv, Motion
    <2>3. moved = accum + way
      OBVIOUS
    <2> HIDE DEF way, moved
    <2> QED
      BY <1>5, <2>1, <2>2, <2>3
  <1>7. /\ accum' = Rest(moved) /\ cursor' = Emitted(dx)
        /\ lag' = (lag + v' * dt) - taken
        /\ pendingMotion' = (HasDevice /\ dx # 0)
        /\ wasted' = IF session' # "live" \/ cursor' # cursor THEN 0
                     ELSE IF HasDevice /\ dx # 0 THEN wasted + 1 ELSE wasted
    BY DEF GlideStep
  <1>8. lag = accum
    BY DEF MomentumInv, Motion
  <1>9. lag' = moved - taken
    <2>1. lag' = (lag + v' * dt) - taken
      BY <1>7
    <2> QED
      BY <1>8, <2>1, Zenon
  <1> HIDE DEF moved
  <1>10. /\ dx \in Int /\ Rest(moved) = moved - taken
         /\ Rest(moved) \in -(Unit - 1) .. (Unit - 1)
         /\ (moved >= 0 => dx >= 0 /\ Rest(moved) >= 0)
         /\ (moved <= 0 => dx <= 0 /\ Rest(moved) <= 0)
    BY <1>6, TakenMotion
  <1> HIDE DEF dx, taken
  <1>11. /\ accum' \in -(Unit - 1) .. (Unit - 1) /\ lag' = accum'
         /\ (v' > 0 => accum' >= 0 /\ dx >= 0) /\ (v' < 0 => accum' <= 0 /\ dx <= 0)
    BY <1>6, <1>7, <1>9, <1>10
  <1> QED
    BY <1>3, <1>7, <1>10, <1>11

LEMMA GlideInv ==
  ASSUME MomentumInv, GlideStep
  PROVE  MomentumInv'
  <1>1. /\ v' \in Speeds \ {0} /\ (v' > 0 <=> v > 0)
        /\ accum' \in -(Unit - 1) .. (Unit - 1) /\ lag' = accum'
        /\ (v' > 0 => accum' >= 0) /\ (v' < 0 => accum' <= 0)
    BY GlideMoves
  <1>2. PICK dx \in Int :
          /\ v' > 0 => dx >= 0
          /\ v' < 0 => dx <= 0
          /\ cursor' = Emitted(dx)
          /\ pendingMotion' = (HasDevice /\ dx # 0)
          /\ wasted' = IF session' # "live" \/ cursor' # cursor THEN 0
                       ELSE IF HasDevice /\ dx # 0 THEN wasted + 1 ELSE wasted
    BY GlideMoves
  <1>3. state = "PointerMomentum" /\ state' = state /\ ticking' = FALSE /\ ~IsBlocked
        /\ UNCHANGED <<dt, elapsed, xUp, xChanges, sinceStart>>
    BY DEF GlideStep, MomentumInv, Clocks
  <1>4. /\ cursor \in 0 .. Edge /\ cursor' \in 0 .. Edge
        /\ (HasDevice /\ dx # 0 /\ cursor' = cursor
              => cursor = IF dx < 0 THEN 0 ELSE Edge)
    BY <1>2, EmittedMotion DEF MomentumInv, MomentumTypeOK, BlockTypeOK
  <1>5. /\ pendingMotion' \in BOOLEAN /\ wasted \in Nat /\ wasted' \in Nat
        /\ blockedSamples \in Nat
    BY <1>2 DEF MomentumInv, MomentumTypeOK, BlockTypeOK
  \* What the detector knows before this tick's emission, and how much of it was
  \* wasted until then.
  <1>6. /\ session' \in {"none", "live", "broken"} /\ attemptAge' \in 0 .. ReconnectDelay
        /\ lastPosition' \in {NoPosition} \cup 0 .. Edge
        /\ blockedSamples' \in Nat /\ blockedSamples' < BlockedLimit
        /\ (session' = "live" => xUp /\ lastPosition' = cursor)
        /\ (session' = "none" => lastPosition' = NoPosition)
        /\ (session' = "live" /\ wasted > 0 => wasted <= blockedSamples')
    <2>1. CASE Observes
      <3>1. Query /\ lastPosition' = Answer /\ blockedSamples' = SamplesNow
        BY <2>1 DEF GlideStep
      <3>2. /\ session' \in {"none", "live"} /\ attemptAge' \in 0 .. ReconnectDelay
            /\ Answer = IF session' = "live" THEN cursor ELSE NoPosition
            /\ (session' = "live" => xUp /\ session # "broken")
        BY <3>1, Queries
      <3>3. SamplesNow \in Nat /\ SamplesNow < BlockedLimit
        BY <1>3, <1>5, <2>1, Constants DEF IsBlocked, SamplesNow
      <3>4. session' = "live" /\ wasted > 0 => wasted <= SamplesNow
        <4> SUFFICES ASSUME session' = "live", wasted > 0 PROVE wasted <= SamplesNow
          OBVIOUS
        <4>1. session = "live"
          BY <1>3, <1>5, <3>2 DEF MomentumInv, MomentumTypeOK, BlockTypeOK, Detection
        <4>2. lastPosition = cursor /\ wasted <= blockedSamples + 1
          BY <1>3, <1>5, <4>1 DEF MomentumInv, Detection
        <4>3. Answer = cursor /\ Answer # NoPosition
          BY <1>4, <3>2 DEF NoPosition
        <4> QED
          BY <4>2, <4>3 DEF SamplesNow
      <3> QED
        BY <1>4, <3>1, <3>2, <3>3, <3>4
    <2>2. CASE ~Observes
      <3>1. UNCHANGED <<session, attemptAge, lastPosition, blockedSamples>>
        BY <2>2 DEF GlideStep
      <3> QED
        BY <1>3, <1>5, <2>2, <3>1
        DEF Observes, MomentumInv, MomentumTypeOK, BlockTypeOK, Detection
    <2> QED
      BY <2>1, <2>2
  <1>7. BlockTypeOK'
    BY <1>3, <1>4, <1>5, <1>6 DEF MomentumInv, MomentumTypeOK, BlockTypeOK, NoPosition
  <1>8. MomentumTypeOK'
    BY <1>1, <1>3, <1>5, <1>7 DEF MomentumInv, MomentumTypeOK, Speeds
  <1>9. Motion' /\ Clocks'
    BY <1>1, <1>3 DEF MomentumInv, Motion, Clocks
  <1>10. v' \in Int /\ v' # 0 /\ BlockedLimit \in Nat \ {0}
    BY <1>1, Constants DEF Speeds
  <1>11. Detection'
    <2>1. wasted' <= blockedSamples' + (IF pendingMotion' THEN 1 ELSE 0)
      <3>1. PICK samples \in Nat : samples = blockedSamples'
        BY <1>6
      <3>2. PICK lost \in Nat : lost = wasted'
        BY <1>5
      <3>3. \/ lost = 0
            \/ /\ session' = "live"
               /\ lost = IF pendingMotion' THEN wasted + 1 ELSE wasted
        BY <1>2, <3>2
      <3>4. lost = 0 \/ lost <= samples + (IF pendingMotion' THEN 1 ELSE 0)
        <4>1. session' = "live" /\ wasted > 0 => wasted <= samples
          BY <1>6, <3>1
        <4> QED
          BY <1>5, <3>3, <4>1
      <3>5. lost <= samples + (IF pendingMotion' THEN 1 ELSE 0)
        BY <3>4
      <3> QED
        BY <3>1, <3>2, <3>5
    <2>2. wasted' <= BlockedLimit
      <3>1. PICK samples \in Nat : samples = blockedSamples'
        BY <1>6
      <3>2. PICK lost \in Nat : lost = wasted'
        BY <1>5
      <3>3. samples < BlockedLimit /\ lost <= samples + (IF pendingMotion' THEN 1 ELSE 0)
        BY <1>6, <2>1, <3>1, <3>2
      <3>4. lost <= BlockedLimit
        BY <1>10, <3>3
      <3> QED
        BY <3>2, <3>4
    <2>3. session' = "none" => wasted' = 0
      BY <1>2
    <2>4. session' = "live" /\ (wasted' > 0 \/ ~pendingMotion') => lastPosition' = cursor'
      <3>1. ~pendingMotion' => cursor' = cursor
        BY <1>2, <1>4, Constants DEF Emitted
      <3> QED
        BY <1>2, <1>6, <3>1
    <2>5. session' = "live" /\ pendingMotion' /\ lastPosition' = cursor'
            => cursor' = EdgeAhead'
      <3> SUFFICES ASSUME session' = "live", pendingMotion', lastPosition' = cursor'
                   PROVE  cursor' = EdgeAhead'
        OBVIOUS
      <3>1. HasDevice /\ dx # 0 /\ cursor' = cursor
        BY <1>2, <1>6
      <3>2. cursor' = IF dx < 0 THEN 0 ELSE Edge
        BY <1>4, <3>1
      <3>3. dx < 0 <=> v' < 0
        BY <1>2, <1>10, <3>1
      <3> QED
        BY <3>2, <3>3 DEF EdgeAhead
    <2> QED
      BY <1>3, <1>6, <2>1, <2>2, <2>3, <2>4, <2>5 DEF Detection
  <1> QED
    BY <1>8, <1>9, <1>11 DEF MomentumInv

-----------------------------------------------------------------------------
LEMMA SurroundingsInv ==
  ASSUME MomentumInv, UserMovesCursor \/ Surroundings
  PROVE  MomentumInv'
  <1>1. UNCHANGED <<momentumVars, observerVars>>
        /\ UNCHANGED <<lastPosition, pendingMotion, blockedSamples>>
    BY DEF UserMovesCursor, Surroundings, XServerChanges, TimePasses, detectorVars
  <1>2. /\ cursor' \in 0 .. Edge /\ xUp' \in BOOLEAN /\ xChanges' \in Nat
        /\ session' \in {"none", "live", "broken"}
        /\ attemptAge' \in 0 .. ReconnectDelay
    <2>1. CASE UserMovesCursor
      BY <2>1 DEF UserMovesCursor, MomentumInv, MomentumTypeOK, BlockTypeOK, detectorVars
    <2>2. CASE XServerChanges
      BY <2>2 DEF XServerChanges, MomentumInv, MomentumTypeOK, BlockTypeOK
    <2>3. CASE TimePasses
      BY <2>3, Constants
      DEF TimePasses, MomentumInv, MomentumTypeOK, BlockTypeOK, screenVars
    <2> QED
      BY <2>1, <2>2, <2>3 DEF Surroundings
  <1>3. /\ session' = "live" => xUp' /\ session = "live"
        /\ session' = "none" => session = "none"
        /\ session' = "live" /\ state = "PointerMomentum" => cursor' = cursor
    BY DEF UserMovesCursor, Surroundings, XServerChanges, TimePasses, MomentumInv,
           MomentumTypeOK, BlockTypeOK, Detection, detectorVars, screenVars
  <1>4. MomentumTypeOK'
    BY <1>1, <1>2
    DEF MomentumInv, MomentumTypeOK, BlockTypeOK, momentumVars, observerVars, NoPosition,
        Speeds
  <1>5. Motion' /\ Clocks'
    BY <1>1 DEF MomentumInv, Motion, Clocks, momentumVars, observerVars
  <1>6. Detection'
    BY <1>1, <1>3 DEF MomentumInv, Detection, EdgeAhead, momentumVars, observerVars
  <1> QED
    BY <1>4, <1>5, <1>6 DEF MomentumInv

LEMMA StepInv ==
  ASSUME MomentumInv, [MomentumNext]_vars
  PROVE  MomentumInv'
  <1>1. CASE TakeStop
    <2>1. Rested /\ accum' = 0 /\ lag' = 0 /\ ticking' = FALSE
          /\ UNCHANGED <<dt, elapsed, sinceStart, screenVars, detectorVars, wasted>>
      BY <1>1 DEF TakeStop, Takes, MomentumInv, MomentumTypeOK
    <2> QED
      BY <2>1, RestInv
  <1>2. CASE EndBlocked \/ EndOverLimit \/ EndSlow
    <2>1. Rested /\ accum' = 0 /\ lag' = 0 /\ ticking' = FALSE /\ Ask /\ wasted' = 0
          /\ UNCHANGED <<dt, elapsed, sinceStart, screenVars>>
      BY <1>2 DEF EndBlocked, EndOverLimit, EndSlow, TickEnds
    <2> QED
      BY <2>1, RestInv
  <1>3. CASE Disconnects \/ Peers \/ Exited \/ UNCHANGED vars
    <2>1. /\ UNCHANGED <<screenVars, detectorVars, observerVars>>
          /\ UNCHANGED <<ticking, v, accum, dt, elapsed>>
          /\ state' = state \/ (state' = "Exited" /\ ~ticking)
      BY <1>3 DEF Disconnects, Peers, Exited, vars, momentumVars
    <2> QED
      BY <2>1, AsideSteps
  <1> QED
    BY <1>1, <1>2, <1>3, StartInv, ContinueInv, TickInv, GlideInv, SurroundingsInv
    DEF MomentumNext, EngineRuns

LEMMA Invariant == MomentumSpec => []MomentumInv
  BY InitInv, StepInv, PTL DEF MomentumSpec

-----------------------------------------------------------------------------
\* Fractions of a unit are neither lost nor invented, for any units, speeds and
\* lateness (momentum.rs:280-284, :325-334).
THEOREM MotionIsKept == MomentumSpec => []FractionsAreKept
  <1>1. MomentumInv => FractionsAreKept
    BY Constants DEF MomentumInv, MomentumTypeOK, Motion, FractionsAreKept
  <1> QED
    BY <1>1, Invariant, PTL

\* With a working X server at most BLOCKED_SAMPLE_LIMIT emissions in a row are
\* lost at an edge, on a screen of any size (x11_pointer.rs:46-70).
THEOREM BlockIsNoticed == MomentumSpec => []BlockedGlideEnds
  <1>1. MomentumInv => BlockedGlideEnds
    BY DEF MomentumInv, Detection, BlockedGlideEnds
  <1> QED
    BY <1>1, Invariant, PTL

\* A glide is given up as blocked only at the edge it runs into, however often
\* the X server goes and comes (x11_pointer.rs:46-88, momentum.rs:165).
THEOREM BlockIsReal == MomentumSpec => BlockedOnlyAtEdge
  <1>1. MomentumInv /\ EndBlocked => cursor = (IF v < 0 THEN 0 ELSE Edge)
    <2> SUFFICES ASSUME MomentumInv, EndBlocked
                 PROVE  cursor = (IF v < 0 THEN 0 ELSE Edge)
      OBVIOUS
    <2>1. IsBlocked /\ state = "PointerMomentum" /\ Observes /\ Query
      BY DEF EndBlocked, TickEnds, IsBlocked, MomentumInv, Clocks, Ask
    <2>2. session' = "live" /\ Answer = cursor
      BY <2>1, Queries DEF IsBlocked
    <2>3. Answer = lastPosition /\ pendingMotion
      BY <2>1, Constants DEF IsBlocked, SamplesNow, Observes
    <2>4. session = "live"
      <3>1. session # "broken"
        BY <2>1, <2>2, Queries
      <3>2. session # "none"
        BY <2>1, <2>3 DEF IsBlocked, MomentumInv, Detection
      <3> QED
        BY <3>1, <3>2 DEF MomentumInv, MomentumTypeOK, BlockTypeOK
    <2> QED
      BY <2>1, <2>2, <2>3, <2>4 DEF MomentumInv, Detection, EdgeAhead
  <1> QED
    BY <1>1, Invariant, PTL DEF MomentumSpec, BlockedOnlyAtEdge

\* The limit of a glide's duration counts from its last StartPointer
\* (momentum.rs:109-132, :180-200).
THEOREM LimitIsOfThisGlide == MomentumSpec => DurationIsOfThisGlide
  <1>1. MomentumInv => (MaxDuration > 0 =>
          /\ EndOverLimit => sinceStart >= MaxDuration
          /\ GlideStep /\ cursor' # cursor => sinceStart < MaxDuration)
    BY Constants
    DEF MomentumInv, MomentumTypeOK, Clocks, EndOverLimit, OverLimit, GlideStep
  <1> QED
    BY <1>1, Invariant, PTL DEF MomentumSpec, DurationIsOfThisGlide

-----------------------------------------------------------------------------
\* A step that the engine of module Engine does not see.
LEMMA Unseen ==
  ASSUME UNCHANGED <<chan, status, senders, statusOpen, state, ticking, v>>
  PROVE  UNCHANGED Abstract!aloneVars
  BY DEF Abstract!aloneVars, Abstract!channelVars, Abstract!engineVars, Abs

\* Every way of ending a glide is the one of module Engine.
LEMMA RestedSettles ==
  ASSUME Rested, ticking' = FALSE
  PROVE  Abstract!Settle
  BY DEF Rested, SendStatus, Abstract!Settle, Abstract!SendStatus, Abs

LEMMA TakenReceives ==
  ASSUME NEW m, Takes(m)
  PROVE  Abstract!Receives(m)
  BY DEF Takes, Abstract!Receives

LEMMA MessageStep ==
  ASSUME MomentumInv, TakeStart \/ TakeStop \/ TakeContinue
  PROVE  Abstract!AloneNext
  <1>1. CASE TakeStart
    <2>1. Abs(v)' \in 1 .. MaxSpeed
      <3>1. \A velocity \in Speeds \ {0} : Abs(velocity) \in 1 .. MaxSpeed
        BY Constants DEF Abs, Speeds
      <3>2. v' \in Speeds \ {0}
        BY <1>1 DEF TakeStart
      <3> QED
        BY <3>1, <3>2, Zenon
    <2>2. Abstract!ReceiveStart
      BY <1>1, <2>1, TakenReceives
      DEF TakeStart, SendStatus, Abstract!ReceiveStart, Abstract!SendStatus
    <2> QED
      BY <2>2 DEF Abstract!AloneNext, Abstract!EngineStep
  <1>2. CASE TakeStop
    <2>1. Rested /\ ticking' = FALSE /\ Takes("Stop")
      BY <1>2 DEF TakeStop, Takes, MomentumInv, MomentumTypeOK
    <2> QED
      BY <2>1, RestedSettles, TakenReceives
      DEF Abstract!ReceiveStop, Abstract!AloneNext, Abstract!EngineStep
  <1>3. CASE TakeContinue
    <2>1. ticking' = FALSE /\ ticking = FALSE /\ Takes("ContinuePointer")
      BY <1>3 DEF TakeContinue, Takes, MomentumInv, MomentumTypeOK
    <2>2. IF state = "PointerMomentum" THEN Rested ELSE UNCHANGED <<state, v, status>>
      BY <1>3 DEF TakeContinue
    <2>3. Abstract!ReceiveContinue
      <3>1. CASE state = "PointerMomentum"
        BY <2>1, <2>2, <3>1, RestedSettles, TakenReceives DEF Abstract!ReceiveContinue
      <3>2. CASE state # "PointerMomentum"
        BY <2>1, <2>2, <3>2, TakenReceives
        DEF Abstract!ReceiveContinue, Abstract!engineVars, Abs
      <3> QED
        BY <3>1, <3>2
    <2> QED
      BY <2>3 DEF Abstract!AloneNext, Abstract!EngineStep
  <1> QED
    BY <1>1, <1>2, <1>3

LEMMA TimeoutStep ==
  ASSUME MomentumInv,
         TickBegins \/ EndBlocked \/ EndOverLimit \/ EndSlow \/ GlideStep \/ Disconnects
  PROVE  Abstract!AloneNext
  <1>1. CASE TickBegins
    BY <1>1
    DEF TickBegins, channelVars, Abs, Abstract!Timeout, Abstract!channelVars,
        Abstract!AloneNext, Abstract!EngineStep
  <1>2. CASE EndBlocked \/ EndOverLimit \/ EndSlow
    <2>1. Rested /\ ticking /\ ticking' = FALSE
          /\ UNCHANGED <<chan, senders, statusOpen>>
      BY <1>2 DEF EndBlocked, EndOverLimit, EndSlow, TickEnds
    <2> QED
      BY <2>1, RestedSettles
      DEF Abstract!GlideEnds, Abstract!AloneNext, Abstract!EngineStep
  <1>3. CASE GlideStep
    <2>1. Abs(v)' \in 1 .. (Abs(v) - 1)
      BY <1>3, GlideMoves DEF Abs
    <2>2. ticking /\ ticking' = FALSE /\ UNCHANGED <<state, channelVars>>
      BY <1>3 DEF GlideStep
    <2> QED
      BY <2>1, <2>2
      DEF channelVars, Abstract!GlideOn, Abstract!channelVars, Abstract!AloneNext,
          Abstract!EngineStep
  <1>4. CASE Disconnects
    BY <1>4
    DEF Disconnects, channelVars, Abs, Abstract!Disconnected, Abstract!channelVars,
        Abstract!AloneNext, Abstract!EngineStep
  <1> QED
    BY <1>1, <1>2, <1>3, <1>4

LEMMA PeersStep ==
  ASSUME Peers
  PROVE  Abstract!AloneNext
  BY DEF Peers, PeerSends, PeerReads, PeerSpawns, PeerLeaves, Send, MomentumMessage,
         momentumVars, Abs, Abstract!AloneNext, Abstract!engineVars, Abstract!PeerStep,
         Abstract!PeerSends, Abstract!PeerReads, Abstract!PeerSpawns,
         Abstract!PeerLeaves, Abstract!Send, Abstract!MomentumMessage

\* The detailed engine implements the engine that the rest of the daemon is
\* checked and proved against, for every value of the constants
\* (momentum.rs:42-268).
THEOREM DetailImplementsEngine == MomentumSpec => ImplementsEngine
  <1>1. MomentumInit => Abstract!AloneInit
    BY DEF MomentumInit, ChannelsInit, Abs, Abstract!AloneInit, Abstract!ChannelsInit,
           Abstract!EngineInit
  <1>2. MomentumInv /\ [MomentumNext]_vars => [Abstract!AloneNext]_Abstract!aloneVars
    <2> SUFFICES ASSUME MomentumInv, [MomentumNext]_vars
                 PROVE  [Abstract!AloneNext]_Abstract!aloneVars
      OBVIOUS
    <2>1. CASE UserMovesCursor \/ Surroundings \/ Exited \/ UNCHANGED vars
      BY <2>1, Unseen
      DEF UserMovesCursor, Surroundings, Exited, vars, channelVars, momentumVars
    <2> QED
      BY <2>1, MessageStep, TimeoutStep, PeersStep DEF MomentumNext, EngineRuns
  <1> QED
    BY <1>1, <1>2, Invariant, PTL
    DEF MomentumSpec, ImplementsEngine, Abstract!AloneSpec

\* Type correctness, with what the types bound: the fractions that are carried
\* over stay below one unit either way, the speed within what a release may hand
\* over, and what the detector remembers is a position on the screen or none
\* (momentum.rs:42-268, x11_pointer.rs).
THEOREM MomentumTypes == MomentumSpec => []MomentumTypeOK
  <1>1. MomentumInv => MomentumTypeOK
    BY DEF MomentumInv
  <1> QED
    BY <1>1, Invariant, PTL

=============================================================================
