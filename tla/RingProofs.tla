----------------------------- MODULE RingProofs -----------------------------
(***************************************************************************)
(* The motion ring implements the bounded history for every ring size, and *)
(* a finger that has come to rest starts nothing.                          *)
(***************************************************************************)
EXTENDS Release, TLAPS

\* Where nth_oldest looks for the n-th of c samples if p is written next.
Place(p, c, n) ==
  ((IF p >= c THEN p - c ELSE RingSize - (c - p)) + n) % RingSize

\* Slot numbers are at most one turn ahead of the ring, so `%` takes off the
\* ring size once or not at all.
LEMMA ModOnce ==
  ASSUME NEW N \in Nat \ {0}, NEW k \in 0 .. (2 * N - 1)
  PROVE  k % N = IF k < N THEN k ELSE k - N
<1>1. CASE k < N
  BY <1>1, SMT
<1>2. CASE k >= N
  <2>1. k - N \in 0 .. (N - 1)
    BY <1>2
  <2>2. (k - N) % N = k - N
    BY <2>1, SMT
  <2>3. k % N = (k - N) % N
    BY <2>1, <1>2, SMTT(30)
  <2> QED
    BY <1>2, <2>2, <2>3
<1> QED
  BY <1>1, <1>2

\* The n-th oldest of c samples is c - n places behind the write position,
\* going round the end of the ring.
LEMMA PlaceOf ==
  ASSUME NEW p \in Slots, NEW c \in 0 .. RingSize, NEW n \in 0 .. (c - 1)
  PROVE  /\ Place(p, c, n) = IF p - c + n >= 0 THEN p - c + n
                                               ELSE p - c + n + RingSize
         /\ Place(p, c, n) \in Slots
<1> DEFINE k == (IF p >= c THEN p - c ELSE RingSize - (c - p)) + n
<1>1. /\ RingSize \in Nat \ {0} /\ p \in 0 .. (RingSize - 1)
      /\ c \in 0 .. RingSize /\ n \in Nat /\ n < c
  BY RingAssumption DEF RingAssumption, Slots
<1>2. k \in 0 .. (2 * RingSize - 1)
  BY <1>1
<1>3. k % RingSize = IF k < RingSize THEN k ELSE k - RingSize
  <2> HIDE DEF k
  <2>1. RingSize \in Nat \ {0}
    BY <1>1
  <2> QED
    BY <2>1, <1>2, ModOnce, Zenon
<1>4. Place(p, c, n) = IF k < RingSize THEN k ELSE k - RingSize
  BY <1>3 DEF Place
<1> QED
  BY <1>1, <1>4 DEF Slots

\* The write position moves on by one, round the end of the ring.
LEMMA NextPlace ==
  ASSUME NEW p \in Slots
  PROVE  (p + 1) % RingSize = IF p + 1 < RingSize THEN p + 1 ELSE 0
<1> DEFINE k == p + 1
<1>1. /\ RingSize \in Nat \ {0} /\ p \in 0 .. (RingSize - 1)
  BY RingAssumption DEF RingAssumption, Slots
<1>2. k \in 0 .. (2 * RingSize - 1)
  BY <1>1
<1>3. k % RingSize = IF k < RingSize THEN k ELSE k - RingSize
  <2> HIDE DEF k
  <2>1. RingSize \in Nat \ {0}
    BY <1>1
  <2> QED
    BY <2>1, <1>2, ModOnce, Zenon
<1>4. (p + 1) % RingSize = IF k < RingSize THEN k ELSE k - RingSize
  BY <1>3
<1> QED
  BY <1>1, <1>4

\* A step of the path has a length.
LEMMA GapIsNat ==
  ASSUME NEW a \in Sample, NEW b \in Sample
  PROVE  Gap(a, b) \in Nat
<1>1. a.x \in Int /\ b.x \in Int
  BY RingAssumption DEF RingAssumption, Sample
<1> QED
  BY <1>1 DEF Gap

\* A step does nothing to the ring but begin a touch, take a sample of it, or
\* leave it alone.
FingerOK == place \in Positions /\ ptr \in Positions /\ clock \in 0 .. MaxTime

RingStep ==
  \/ Begin(ptr, clock)
  \/ \E x \in Positions : Push(x, clock)
  \/ UNCHANGED ringVars

LEMMA FingerInit == ReleaseInit => FingerOK
  BY RingAssumption, ReleaseAssumption
  DEF RingAssumption, ReleaseAssumption, ReleaseInit, FingerOK

LEMMA FingerSteps ==
  ASSUME FingerOK, [ReleaseNext]_<<ringVars, fingerVars>>
  PROVE  FingerOK' /\ RingStep
<1>0. MaxTime \in Nat
  BY ReleaseAssumption DEF ReleaseAssumption
<1>1. ASSUME NEW p \in Positions, Land(p) \/ MoveFinger(p)
      PROVE  FingerOK' /\ RingStep
  BY <1>1 DEF Land, MoveFinger, Report, FingerOK, RingStep
<1>2. CASE ReportLanding
  BY <1>2 DEF ReportLanding, Report, FingerOK, RingStep
<1>3. CASE Wait
  BY <1>0, <1>3 DEF Wait, FingerOK, RingStep
<1>4. CASE Lift \/ Poll \/ UNCHANGED <<ringVars, fingerVars>>
  BY <1>4 DEF Lift, Poll, FingerOK, RingStep, fingerVars
<1> QED
  BY <1>1, <1>2, <1>3, <1>4 DEF ReleaseNext

LEMMA BeginTypes ==
  ASSUME RingTypeOK, NEW x \in Positions, NEW ts \in Times, Begin(x, ts)
  PROVE  RingTypeOK'
<1>1. RingSize \in Nat \ {0}
  BY RingAssumption DEF RingAssumption
<1>2. 0 \in Slots /\ 1 % RingSize \in Slots
  <2>1. 0 \in Slots
    BY <1>1 DEF Slots
  <2>2. (0 + 1) % RingSize \in Slots
    BY <1>1, <2>1, NextPlace DEF Slots
  <2> QED
    BY <2>1, <2>2
<1> DEFINE s == [x |-> x, ts |-> ts]
<1>3. s \in Sample
  BY DEF Sample
<1>4. buf' = [buf EXCEPT ![0] = s]
  BY DEF Begin
<1>5. buf' \in [Slots -> Sample]
  BY <1>3, <1>4 DEF RingTypeOK
<1> QED
  BY <1>1, <1>2, <1>5 DEF Begin, RingTypeOK

LEMMA PushTypes ==
  ASSUME RingTypeOK, NEW x \in Positions, NEW ts \in Times, Push(x, ts)
  PROVE  RingTypeOK'
<1> USE RingAssumption DEF RingAssumption
<1> DEFINE s == [x |-> x, ts |-> ts]
<1>1. s \in Sample
  BY DEF Sample
<1>2. count > 0 => Gap(NthOldest(count - 1), s) \in Nat
  <2> SUFFICES ASSUME count > 0 PROVE Gap(NthOldest(count - 1), s) \in Nat
    OBVIOUS
  <2>1. count - 1 \in 0 .. (count - 1)
    BY DEF RingTypeOK
  <2>2. Place(pos, count, count - 1) \in Slots
    BY <2>1, PlaceOf DEF RingTypeOK
  <2>3. NthOldest(count - 1) \in Sample
    BY <2>2 DEF RingTypeOK, NthOldest, Place
  <2> HIDE DEF s
  <2> QED
    BY <1>1, <2>3, GapIsNat
<1>3. totalDistance' \in Nat
  BY <1>2 DEF Push, RingTypeOK
<1>4. pos' \in Slots
  BY NextPlace DEF Push, RingTypeOK, Slots
<1>5. buf' \in [Slots -> Sample]
  BY <1>1 DEF Push, RingTypeOK
<1>6. totalCount' \in Nat /\ count' \in 0 .. RingSize
  BY DEF Push, RingTypeOK
<1> QED
  BY <1>3, <1>4, <1>5, <1>6 DEF RingTypeOK

\* Every variable of the ring keeps to its type.
RingInv == RingTypeOK /\ FingerOK

LEMMA ClockIsTime == FingerOK => clock \in Times
  BY ReleaseAssumption DEF ReleaseAssumption, FingerOK

LEMMA RingInvInit == ReleaseInit => RingInv
<1>1. RingInit => RingTypeOK
  BY RingAssumption DEF RingInit, RingTypeOK, RingAssumption, Slots, Sample
<1> QED
  BY <1>1, FingerInit DEF ReleaseInit, RingInv

LEMMA RingInvSteps ==
  ASSUME RingInv, [ReleaseNext]_<<ringVars, fingerVars>>
  PROVE  RingInv'
<1>1. FingerOK' /\ RingStep
  BY FingerSteps DEF RingInv
<1>2. CASE Begin(ptr, clock)
  BY <1>1, <1>2, ClockIsTime, BeginTypes DEF RingInv, FingerOK
<1>3. ASSUME NEW x \in Positions, Push(x, clock)
      PROVE  RingInv'
  BY <1>1, <1>3, ClockIsTime, PushTypes DEF RingInv
<1>4. CASE UNCHANGED ringVars
  BY <1>1, <1>4 DEF ringVars, RingInv, RingTypeOK
<1> QED
  BY <1>1, <1>2, <1>3, <1>4 DEF RingStep

LEMMA RingInvariant == ReleaseSpec => []RingInv
<1>1. RingInv /\ [ReleaseNext]_<<ringVars, fingerVars>> => RingInv'
  BY RingInvSteps
<1> QED
  BY <1>1, RingInvInit, PTL DEF ReleaseSpec

\* What a push does to the samples as nth_oldest sees them: they are the old
\* ones without the oldest if the ring was full, and the new one at the end.
LEMMA PushedRecent ==
  ASSUME RingTypeOK, RingTypeOK', NEW x \in Positions, NEW ts \in Times,
         Push(x, ts)
  PROVE  LET s == [x |-> x, ts |-> ts]
         IN  Recent' = IF Len(Recent) < RingSize THEN Append(Recent, s)
                                                 ELSE Append(Tail(Recent), s)
<1> DEFINE s == [x |-> x, ts |-> ts]
           drop == IF count < RingSize THEN 0 ELSE 1
<1> HIDE DEF s
<1>s. s = [x |-> x, ts |-> ts]
  BY DEF s
<1>0. /\ RingSize \in Nat \ {0} /\ pos \in 0 .. (RingSize - 1)
      /\ count \in 0 .. RingSize
      /\ buf \in [0 .. (RingSize - 1) -> Sample]
      /\ Slots = 0 .. (RingSize - 1)
  BY RingAssumption DEF RingAssumption, RingTypeOK, Slots
<1>1. count' = count + 1 - drop
  BY <1>0 DEF Push
<1>2. pos' = IF pos + 1 < RingSize THEN pos + 1 ELSE 0
  BY <1>0, NextPlace DEF Push
<1>3. buf' = [buf EXCEPT ![pos] = s]
  BY DEF Push, s
<1>4. ASSUME NEW n \in 0 .. (count' - 1)
      PROVE  NthOldest(n)' = IF n = count' - 1 THEN s ELSE NthOldest(n + drop)
  <2> DEFINE i == Place(pos', count', n)
  <2>1. i = IF pos' - count' + n >= 0 THEN pos' - count' + n
                                      ELSE pos' - count' + n + RingSize
    BY <1>4, PlaceOf DEF RingTypeOK
  <2>2. i \in Slots /\ NthOldest(n)' = buf'[i]
    BY <1>4, PlaceOf DEF RingTypeOK, NthOldest, Place
  <2> HIDE DEF i
  <2>3. CASE n = count' - 1
    <3>1. i = pos
      BY <1>0, <1>1, <1>2, <2>1, <2>3
    <3> QED
      BY <1>0, <1>3, <2>2, <2>3, <3>1
  <2>4. CASE n # count' - 1
    <3> DEFINE j == Place(pos, count, n + drop)
    <3>1. n + drop \in 0 .. (count - 1)
      BY <1>0, <1>1, <1>4, <2>4
    <3>2. j = IF pos - count + (n + drop) >= 0 THEN pos - count + (n + drop)
                              ELSE pos - count + (n + drop) + RingSize
      <4> HIDE DEF drop
      <4> QED
        BY <3>1, PlaceOf DEF RingTypeOK
    <3>3. NthOldest(n + drop) = buf[j]
      BY DEF NthOldest, Place
    <3> HIDE DEF j
    <3>4. i = j /\ i # pos
      BY <1>0, <1>1, <1>2, <1>4, <2>1, <2>4, <3>1, <3>2
    <3> QED
      BY <1>0, <1>3, <2>2, <2>4, <3>3, <3>4
  <2> QED
    BY <2>3, <2>4
<1>5. Recent = [i \in 1 .. count |-> NthOldest(i - 1)]
      /\ Recent' = [i \in 1 .. count' |-> NthOldest(i - 1)']
  BY DEF Recent
<1> QED
  BY <1>0, <1>1, <1>4, <1>5, <1>s

\* A step of the ring is one of the history, or does not change it.
LEMMA HistoryBegins ==
  ASSUME RingTypeOK, RingTypeOK', NEW x \in Positions, NEW ts \in Times,
         Begin(x, ts)
  PROVE  /\ Recent' = << [x |-> x, ts |-> ts] >>
         /\ History!HistoryNext
<1> DEFINE s == [x |-> x, ts |-> ts]
<1>0. RingSize \in Nat \ {0} /\ 0 \in Slots
  BY RingAssumption DEF RingAssumption, Slots
<1>1. count' = 1 /\ pos' \in Slots /\ buf' = [buf EXCEPT ![0] = s]
  BY DEF Begin, RingTypeOK
<1>2. pos' = IF 1 < RingSize THEN 1 ELSE 0
  <2>1. (0 + 1) % RingSize = IF 0 + 1 < RingSize THEN 0 + 1 ELSE 0
    BY <1>0, NextPlace
  <2> QED
    BY <2>1 DEF Begin
<1>3. Place(pos', count', 0) = 0
  <2>1. 0 \in 0 .. (count' - 1) /\ count' \in 0 .. RingSize
    BY <1>0, <1>1
  <2> QED
    BY <1>0, <1>1, <1>2, <2>1, PlaceOf
<1>4. NthOldest(0)' = buf'[0]
  BY <1>3 DEF NthOldest, Place
<1>5. buf'[0] = s
  BY <1>0, <1>1 DEF RingTypeOK
<1>6. Recent' = <<s>>
  <2>1. Recent' = [i \in 1 .. 1 |-> NthOldest(i - 1)']
    BY <1>1 DEF Recent
  <2>2. \A i \in 1 .. 1 : NthOldest(i - 1)' = s
    BY <1>4, <1>5
  <2> HIDE DEF s
  <2>3. Recent' = [i \in 1 .. 1 |-> s]
    BY <2>1, <2>2
  <2> QED
    BY <2>3
<1>7. s \in History!Sample
  BY DEF History!Sample
<1>8. Recent' # << >> /\ Recent'[Len(Recent')] = s
  <2> HIDE DEF s
  <2> QED
    BY <1>6
<1>9. History!Begin(s)
  BY <1>6 DEF Begin, History!Begin
<1> QED
  <2> HIDE DEF s
  <2>1. History!HistoryNext
    BY <1>7, <1>8, <1>9 DEF History!HistoryNext, History!Latest
  <2> QED
    BY <1>6, <2>1 DEF s

LEMMA HistoryGrows ==
  ASSUME RingTypeOK, RingTypeOK', NEW x \in Positions, NEW ts \in Times,
         Push(x, ts)
  PROVE  /\ Recent' # << >> /\ Recent'[Len(Recent')] = [x |-> x, ts |-> ts]
         /\ History!HistoryNext
<1> DEFINE s == [x |-> x, ts |-> ts]
<1>1. Recent' = IF Len(Recent) < RingSize THEN Append(Recent, s)
                                          ELSE Append(Tail(Recent), s)
  BY PushedRecent
<1>2. Len(Recent) = count /\ (Recent = << >> <=> count = 0)
  BY DEF Recent, RingTypeOK
<1>3. count > 0 => Recent[Len(Recent)] = NthOldest(count - 1)
  BY <1>2 DEF Recent, RingTypeOK
<1>4. totalDistance' = IF Recent = << >> THEN totalDistance
                       ELSE totalDistance + Gap(Recent[Len(Recent)], s)
  BY <1>2, <1>3 DEF Push, RingTypeOK
<1>5. s \in History!Sample
  BY DEF History!Sample
<1>6. totalCount' = totalCount + 1
  BY DEF Push
<1>7. History!Remember(s)
  BY <1>1, <1>4, <1>6 DEF History!Remember, History!Gap, Gap
<1>8. Recent' # << >> /\ Recent'[Len(Recent')] = s
  <2>1. count' \in Nat \ {0} /\ RingSize \in Nat \ {0}
    BY RingAssumption DEF Push, RingTypeOK, RingAssumption
  <2>2. Recent \in Seq(Sample)
    <3>1. \A n \in 0 .. (count - 1) : NthOldest(n) \in Sample
      BY PlaceOf DEF RingTypeOK, NthOldest, Place
    <3> QED
      BY <3>1 DEF Recent, RingTypeOK
  <2>3. s \in Sample
    BY DEF Sample
  <2>4. Recent = << >> => Len(Recent) < RingSize
    BY <2>1
  <2> HIDE DEF s
  <2> QED
    BY <1>1, <2>2, <2>3, <2>4
<1> QED
  <2> HIDE DEF s
  <2>1. History!HistoryNext
    BY <1>5, <1>7, <1>8 DEF History!HistoryNext, History!Latest
  <2> QED
    BY <1>8, <2>1 DEF s

\* The ring implements the bounded history, for every ring size, every set of
\* coordinates and any number of samples: nth_oldest yields exactly the latest
\* samples of the touch in their order, and the total distance is that of this
\* touch (touchpad.rs:95-120, 242-249).
THEOREM RingIsHistory == ReleaseSpec => IsHistory
<1>1. ReleaseInit => History!HistoryInit
  <2> SUFFICES ASSUME ReleaseInit PROVE History!HistoryInit
    OBVIOUS
  <2>1. Recent = << >>
    BY DEF ReleaseInit, RingInit, Recent
  <2> QED
    BY <2>1 DEF ReleaseInit, RingInit, History!HistoryInit
<1>2. RingInv /\ RingInv' /\ [ReleaseNext]_<<ringVars, fingerVars>>
        => [History!HistoryNext]_(History!historyVars)
  <2> SUFFICES ASSUME RingInv, RingInv', RingStep
               PROVE  [History!HistoryNext]_(History!historyVars)
    BY FingerSteps DEF RingInv
  <2>1. RingTypeOK /\ RingTypeOK' /\ ptr \in Positions /\ clock \in Times
    BY ClockIsTime DEF RingInv, FingerOK
  <2>2. CASE Begin(ptr, clock)
    BY <2>1, <2>2, HistoryBegins
  <2>3. ASSUME NEW x \in Positions, Push(x, clock)
        PROVE  History!HistoryNext
    BY <2>1, <2>3, HistoryGrows
  <2>4. CASE UNCHANGED ringVars
    <3>1. Recent' = Recent
      BY <2>4 DEF ringVars, Recent, NthOldest
    <3> QED
      BY <2>4, <3>1 DEF ringVars, History!historyVars
  <2> QED
    BY <2>2, <2>3, <2>4 DEF RingStep
<1> QED
  BY <1>1, <1>2, RingInvariant, PTL DEF ReleaseSpec, IsHistory, History!HistorySpec

-----------------------------------------------------------------------------
\* The ring's newest sample is the last of the touch, so the age that a lift
\* tests is the time for which the finger has rested.
Newest ==
  /\ touch \in Seq(Sample)
  /\ touching => touch # << >> /\ touch[Len(touch)] = NthOldest(count - 1)

Rested ==
  /\ verdict # "none" => ~touching
  /\ verdict = "start" => liftAt - touch[Len(touch)].ts <= Stale

LEMMA NewestOfRecent ==
  ASSUME RingTypeOK, Recent # << >>
  PROVE  NthOldest(count - 1) = Recent[Len(Recent)]
  BY DEF Recent, RingTypeOK

LEMMA LandingRests ==
  ASSUME RingInv, RingInv', Newest, Rested, NEW p \in Positions, Land(p)
  PROVE  Newest' /\ Rested'
<1> DEFINE s == [x |-> ptr, ts |-> clock]
<1>1. ptr \in Positions /\ clock \in Times /\ RingTypeOK /\ RingTypeOK'
  BY ClockIsTime DEF RingInv, FingerOK
<1>2. Recent' = <<s>>
  BY <1>1, HistoryBegins DEF Land
<1>3. s \in Sample
  BY <1>1 DEF Sample
<1>4. touch' = <<s>> /\ verdict' = "none"
  BY DEF Land
<1> HIDE DEF s
<1>5. NthOldest(count - 1)' = s
  <2>1. RingTypeOK' /\ (Recent # << >>)' => (NthOldest(count - 1) = Recent[Len(Recent)])'
    BY NewestOfRecent, PTL
  <2> QED
    BY <1>1, <1>2, <2>1
<1> QED
  BY <1>3, <1>4, <1>5 DEF Newest, Rested

LEMMA ReportRests ==
  ASSUME RingInv, RingInv', Newest, Rested, touching,
         NEW p \in Positions, Report(p)
  PROVE  Newest' /\ Rested'
<1> DEFINE s == [x |-> p, ts |-> clock]
<1>1. clock \in Times /\ RingTypeOK /\ RingTypeOK'
  BY ClockIsTime DEF RingInv
<1>2. Recent' # << >> /\ Recent'[Len(Recent')] = s
  BY <1>1, HistoryGrows DEF Report
<1>3. s \in Sample
  BY <1>1 DEF Sample
<1>4. touch' = Append(touch, s) /\ verdict' = verdict /\ verdict = "none"
  BY DEF Report, Rested
<1> HIDE DEF s
<1>5. NthOldest(count - 1)' = s
  <2>1. RingTypeOK' /\ (Recent # << >>)' => (NthOldest(count - 1) = Recent[Len(Recent)])'
    BY NewestOfRecent, PTL
  <2> QED
    BY <1>1, <1>2, <2>1
<1>6. touch' \in Seq(Sample) /\ touch' # << >> /\ touch'[Len(touch')] = s
  BY <1>3, <1>4 DEF Newest
<1> QED
  BY <1>4, <1>5, <1>6 DEF Newest, Rested

LEMMA LiftRests ==
  ASSUME RingInv, Newest, Rested, Lift
  PROVE  Newest' /\ Rested'
<1>1. UNCHANGED <<ringVars, touch>> /\ liftAt' = clock /\ touching' = FALSE
  BY DEF Lift
<1>2. verdict' = "start" => IsFresh(count - 1, clock)
  BY DEF Lift, Decide, HasVelocity
<1>3. touch[Len(touch)] = NthOldest(count - 1) /\ touch[Len(touch)] \in Sample
  BY DEF Lift, Newest
<1>4. touch[Len(touch)].ts \in Nat /\ clock \in Nat /\ Stale \in Nat
  BY <1>3, RingAssumption, ReleaseAssumption
  DEF RingAssumption, ReleaseAssumption, Sample, RingInv, FingerOK
<1>5. verdict' = "start" => clock - touch[Len(touch)].ts <= Stale
  BY <1>2, <1>3, <1>4 DEF IsFresh, SaturatingSub
<1> QED
  BY <1>1, <1>5 DEF Newest, Rested

LEMMA RestSteps ==
  ASSUME RingInv, RingInv', Newest, Rested, [ReleaseNext]_<<ringVars, fingerVars>>
  PROVE  Newest' /\ Rested'
<1>1. ASSUME NEW p \in Positions, Land(p) PROVE Newest' /\ Rested'
  BY <1>1, LandingRests
<1>2. ASSUME NEW p \in Positions, MoveFinger(p) PROVE Newest' /\ Rested'
  BY <1>2, ReportRests DEF MoveFinger
<1>3. CASE ReportLanding
  BY <1>3, ReportRests DEF ReportLanding, RingInv, FingerOK
<1>4. CASE Lift
  BY <1>4, LiftRests
<1>5. CASE Poll \/ Wait \/ UNCHANGED <<ringVars, fingerVars>>
  <2>1. UNCHANGED <<ringVars, touching, liftAt, verdict, touch>>
    BY <1>5 DEF Poll, Wait, fingerVars
  <2> QED
    BY <2>1 DEF Newest, Rested, NthOldest, ringVars
<1> QED
  BY <1>1, <1>2, <1>3, <1>4, <1>5 DEF ReleaseNext

\* A finger that came to rest before it was lifted leaves no inertia
\* (touchpad.rs:184-187, 219-222).
THEOREM RestMeansNoStart == ReleaseSpec => []RestedFingerStays
<1>1. ReleaseInit => Newest /\ Rested
  BY DEF ReleaseInit, Newest, Rested
<1>2. RingInv /\ RingInv' /\ Newest /\ Rested /\ [ReleaseNext]_<<ringVars, fingerVars>>
        => Newest' /\ Rested'
  BY RestSteps
<1>3. Rested => RestedFingerStays
  BY DEF Rested, RestedFingerStays
<1> QED
  BY <1>1, <1>2, <1>3, RingInvariant, PTL DEF ReleaseSpec

=============================================================================
