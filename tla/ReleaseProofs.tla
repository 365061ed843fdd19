---------------------------- MODULE ReleaseProofs ----------------------------
(***************************************************************************)
(* The decision at a lift, taken from the ring, is the one that the whole  *)
(* touch calls for, and a steady movement starts inertia; for all windows, *)
(* limits and ring sizes.  Paths are sums, so there is first what sums     *)
(* are, which takes an induction.                                          *)
(***************************************************************************)
EXTENDS RingProofs, SequenceTheorems, WellFoundedInduction

\* The library's induction theorems take an operator; this one takes a set,
\* and follows from the least element of the numbers outside it.
LEMMA Induction ==
  ASSUME NEW S, 0 \in S, \A n \in Nat : n \in S => n + 1 \in S
  PROVE  \A n \in Nat : n \in S
<1> SUFFICES ASSUME \E n \in Nat : n \notin S PROVE FALSE
  OBVIOUS
<1> DEFINE outside == {n \in Nat : n \notin S}
           less == OpToRel(<, Nat)
<1>1. PICK m \in outside : \A k \in outside : <<k, m>> \notin less
  <2>1. outside \subseteq Nat /\ outside # {}
    OBVIOUS
  <2>2. IsWellFoundedOn(less, Nat)
    BY NatLessThanWellFounded
  <2> HIDE DEF outside, less
  <2> QED
    BY <2>1, <2>2, WFMin
<1>2. m \in Nat /\ m # 0
  OBVIOUS
<1>3. <<m - 1, m>> \in less
  BY <1>2 DEF OpToRel
<1>4. m - 1 \notin outside
  BY <1>1, <1>3
<1> QED
  BY <1>2, <1>4

\* f holds the sums of the first lengths, up to the n-th.
Sums(f, lengths, n) ==
  /\ f[0] = 0
  /\ \A k \in 1 .. n : f[k] = f[k - 1] + lengths[k]

LEMMA SumsExist ==
  ASSUME NEW lengths, NEW n \in Nat
  PROVE  \E f : Sums(f, lengths, n)
<1> DEFINE S == {m \in Nat : \E f : Sums(f, lengths, m)}
<1>1. 0 \in S
  <2>1. Sums([k \in {0} |-> 0], lengths, 0)
    BY DEF Sums
  <2> QED
    BY <2>1
<1>2. ASSUME NEW m \in Nat, m \in S
      PROVE  m + 1 \in S
  <2>1. PICK f : Sums(f, lengths, m)
    BY <1>2
  <2> DEFINE g == [k \in 0 .. m + 1 |-> IF k = m + 1 THEN f[m] + lengths[m + 1]
                                                     ELSE f[k]]
  <2>2. g[0] = 0 /\ \A k \in 1 .. m : g[k] = f[k] /\ g[k - 1] = f[k - 1]
    BY <2>1 DEF Sums
  <2>3. g[m + 1] = f[m] + lengths[m + 1] /\ g[m] = f[m]
    OBVIOUS
  <2> HIDE DEF g
  <2>4. ASSUME NEW k \in 1 .. m + 1
        PROVE  g[k] = g[k - 1] + lengths[k]
    <3>1. CASE k = m + 1
      <4>1. k - 1 = m
        BY <3>1
      <4> QED
        BY <2>3, <3>1, <4>1
    <3>2. CASE k \in 1 .. m
      BY <2>1, <2>2, <3>2 DEF Sums
    <3> QED
      BY <3>1, <3>2
  <2> QED
    BY <2>2, <2>4 DEF Sums
<1> HIDE DEF S
<1>3. n \in S
  BY <1>1, <1>2, Induction
<1> QED
  BY <1>3 DEF S

LEMMA SumsAgree ==
  ASSUME NEW lengths, NEW others, NEW f, NEW g, NEW n \in Nat, NEW m \in Nat,
         Sums(f, lengths, n), Sums(g, others, m),
         NEW k \in Nat, k <= n, k <= m,
         \A i \in 1 .. k : lengths[i] = others[i]
  PROVE  f[k] = g[k]
<1> DEFINE S == {i \in Nat : i <= k => f[i] = g[i]}
<1>1. 0 \in S
  BY DEF Sums
<1>2. ASSUME NEW i \in Nat, i \in S
      PROVE  i + 1 \in S
  <2> SUFFICES ASSUME i + 1 <= k PROVE f[i + 1] = g[i + 1]
    OBVIOUS
  <2>1. f[i] = g[i] /\ (i + 1) - 1 = i
    BY <1>2
  <2>2. i + 1 \in 1 .. n /\ i + 1 \in 1 .. m /\ i + 1 \in 1 .. k
    OBVIOUS
  <2> QED
    BY <2>1, <2>2 DEF Sums
<1> HIDE DEF S
<1>3. k \in S
  BY <1>1, <1>2, Induction
<1> QED
  BY <1>3 DEF S

\* Total is what its recursive definition says.
LEMMA TotalUnfolds ==
  ASSUME NEW lengths, NEW n \in Nat
  PROVE  /\ Total(lengths, 0) = 0
         /\ Total(lengths, n + 1) = Total(lengths, n) + lengths[n + 1]
<1> DEFINE best(k) == CHOOSE f : Sums(f, lengths, k)
           sums == [k \in Nat |-> best(k)[k]]
           Rec(f) == [k \in Nat |-> IF k = 0 THEN 0 ELSE f[k - 1] + lengths[k]]
<1>1. \A k \in Nat : Sums(best(k), lengths, k)
  BY SumsExist
<1>2. sums[0] = 0
  BY <1>1 DEF Sums
<1>3. ASSUME NEW k \in Nat, k # 0
      PROVE  sums[k] = sums[k - 1] + lengths[k]
  <2>1. k \in 1 .. k /\ k - 1 \in Nat /\ k - 1 <= k
    BY <1>3
  <2>2. best(k)[k] = best(k)[k - 1] + lengths[k]
    BY <1>1, <2>1 DEF Sums
  <2>3. best(k)[k - 1] = best(k - 1)[k - 1]
    <3>1. Sums(best(k), lengths, k) /\ Sums(best(k - 1), lengths, k - 1)
      BY <1>1, <2>1
    <3> HIDE DEF best
    <3> QED
      BY <2>1, <3>1, SumsAgree
  <2> HIDE DEF best
  <2> QED
    BY <2>1, <2>2, <2>3
<1>4. sums = Rec(sums)
  <2> HIDE DEF best
  <2>1. \A k \in Nat : sums[k] = Rec(sums)[k]
    BY <1>2, <1>3
  <2> QED
    BY <2>1
<1> HIDE DEF sums
<1> DEFINE sum == CHOOSE f : f = Rec(f)
<1>5. sum = Rec(sum)
  BY <1>4
<1>6. \A k : Total(lengths, k) = sum[k]
  BY DEF Total
<1> HIDE DEF sum
<1> QED
  <2>1. Rec(sum)[0] = 0
    OBVIOUS
  <2>2. Rec(sum)[n + 1] = sum[n] + lengths[n + 1]
    OBVIOUS
  <2> HIDE DEF Rec
  <2> QED
    BY <1>5, <1>6, <2>1, <2>2

\* Sums of equal lengths are equal, sums of distances are distances, and a sum
\* of n lengths c is c * n.
LEMMA TotalAgrees ==
  ASSUME NEW lengths, NEW others, NEW n \in Nat,
         \A i \in 1 .. n : lengths[i] = others[i]
  PROVE  Total(lengths, n) = Total(others, n)
<1> DEFINE S == {k \in Nat : k <= n => Total(lengths, k) = Total(others, k)}
<1>1. 0 \in S
  BY TotalUnfolds
<1>2. ASSUME NEW k \in Nat, k \in S
      PROVE  k + 1 \in S
  BY <1>2, TotalUnfolds
<1> HIDE DEF S
<1>3. n \in S
  BY <1>1, <1>2, Induction
<1> QED
  BY <1>3 DEF S

LEMMA TotalOfEqual ==
  ASSUME NEW lengths, NEW n \in Nat, NEW c \in Int,
         \A i \in 1 .. n : lengths[i] = c
  PROVE  Total(lengths, n) = c * n
<1> DEFINE S == {k \in Nat : k <= n => Total(lengths, k) = c * k}
<1>1. 0 \in S
  BY TotalUnfolds
<1>2. ASSUME NEW k \in Nat, k \in S
      PROVE  k + 1 \in S
  <2> SUFFICES ASSUME k + 1 <= n PROVE Total(lengths, k + 1) = c * (k + 1)
    OBVIOUS
  <2>1. Total(lengths, k) = c * k /\ lengths[k + 1] = c
    BY <1>2
  <2>2. c * (k + 1) = c * k + c
    OBVIOUS
  <2> QED
    BY <2>1, <2>2, TotalUnfolds
<1> HIDE DEF S
<1>3. n \in S
  BY <1>1, <1>2, Induction
<1> QED
  BY <1>3 DEF S

\* The path of a touch grows by one step with every sample.
LEMMA PathStarts ==
  ASSUME NEW s
  PROVE  PathOf(<<s>>) = 0
  BY TotalUnfolds DEF PathOf

LEMMA PathGrows ==
  ASSUME NEW h \in Seq(Sample), h # << >>, NEW s \in Sample
  PROVE  PathOf(Append(h, s)) = PathOf(h) + Gap(h[Len(h)], s)
<1> DEFINE n == Len(h) - 1
           g == Append(h, s)
           old == [i \in 1 .. n |-> Gap(h[i], h[i + 1])]
           new == [i \in 1 .. n + 1 |-> Gap(g[i], g[i + 1])]
<1>1. n \in Nat /\ Len(g) = n + 2
  OBVIOUS
<1>2. \A i \in 1 .. n : new[i] = old[i]
  <2> SUFFICES ASSUME NEW i \in 1 .. n PROVE new[i] = old[i]
    OBVIOUS
  <2>1. g[i] = h[i] /\ g[i + 1] = h[i + 1]
    OBVIOUS
  <2> QED
    BY <2>1
<1>3. new[n + 1] = Gap(h[Len(h)], s)
  <2>1. g[n + 1] = h[Len(h)] /\ g[n + 2] = s
    OBVIOUS
  <2>2. n + 1 \in 1 .. n + 1 /\ (n + 1) + 1 = n + 2
    BY <1>1
  <2> HIDE DEF n, g
  <2> QED
    BY <2>1, <2>2
<1>4. PathOf(h) = Total(old, n)
  BY DEF PathOf
<1>5. PathOf(g) = Total(new, n + 1)
  BY <1>1 DEF PathOf
<1> HIDE DEF n, g, old, new
<1>6. Total(new, n + 1) = Total(new, n) + new[n + 1]
  BY <1>1, TotalUnfolds
<1>7. Total(new, n) = Total(old, n)
  BY <1>1, <1>2, TotalAgrees
<1> QED
  BY <1>3, <1>4, <1>5, <1>6, <1>7 DEF g

-----------------------------------------------------------------------------
\* The ring holds the end of the touch, its counters are about all of it, and
\* time never goes back in it.
WholeTouch ==
  /\ count = IF Len(touch) < RingSize THEN Len(touch) ELSE RingSize
  /\ \A n \in 0 .. (count - 1) : NthOldest(n) = touch[Len(touch) - count + 1 + n]
  /\ touch # << >> => totalDistance = PathOf(touch) /\ touchStart = touch[1].ts
  /\ \A i \in 1 .. Len(touch) : touch[i].ts <= clock
  /\ \A i, j \in 1 .. Len(touch) : i <= j => touch[i].ts <= touch[j].ts

LEMMA RecentIs ==
  ASSUME RingTypeOK
  PROVE  /\ Recent \in Seq(Sample) /\ Len(Recent) = count
         /\ \A n \in 0 .. (count - 1) : NthOldest(n) = Recent[n + 1]
<1>1. \A n \in 0 .. (count - 1) : NthOldest(n) \in Sample
  BY PlaceOf DEF RingTypeOK, NthOldest, Place
<1> QED
  BY <1>1 DEF Recent, RingTypeOK

LEMMA LandingIsWhole ==
  ASSUME RingInv, RingInv', NEW p \in Positions, Land(p)
  PROVE  WholeTouch'
<1> DEFINE s == [x |-> ptr, ts |-> clock]
<1>1. ptr \in Positions /\ clock \in Times /\ RingTypeOK /\ RingTypeOK'
  BY ClockIsTime DEF RingInv, FingerOK
<1>2. Recent' = <<s>>
  BY <1>1, HistoryBegins DEF Land
<1>3. touch' = <<s>> /\ touchStart' = clock /\ totalDistance' = 0 /\ count' = 1
      /\ clock' = clock
  BY DEF Land, Begin
<1>4. NthOldest(0)' = s
  <2>1. \A n \in 0 .. (count' - 1) : NthOldest(n)' = Recent'[n + 1]
    <3>1. RingTypeOK' => (\A n \in 0 .. (count - 1) : NthOldest(n) = Recent[n + 1])'
      BY RecentIs, PTL
    <3> QED
      BY <1>1, <3>1
  <2> HIDE DEF s
  <2> QED
    BY <1>2, <1>3, <2>1
<1>5. RingSize \in Nat \ {0} /\ clock \in Nat
  BY <1>1, RingAssumption DEF RingAssumption
<1>6. s.ts = clock
  OBVIOUS
<1> HIDE DEF s
<1>7. PathOf(touch') = 0
  BY <1>3, PathStarts
<1>8. count' = IF Len(touch') < RingSize THEN Len(touch') ELSE RingSize
  BY <1>3, <1>5
<1>9. \A n \in 0 .. (count' - 1) : NthOldest(n)' = touch'[Len(touch') - count' + 1 + n]
  BY <1>3, <1>4
<1>10. \A i \in 1 .. Len(touch') : touch'[i] = s
  BY <1>3
<1>11. touchStart' = touch'[1].ts /\ touch' # << >>
  BY <1>3, <1>6
<1> QED
  BY <1>3, <1>5, <1>6, <1>7, <1>8, <1>9, <1>10, <1>11 DEF WholeTouch

LEMMA ReportIsWhole ==
  ASSUME RingInv, RingInv', Newest, WholeTouch, touching,
         NEW p \in Positions, Report(p)
  PROVE  WholeTouch'
<1> DEFINE s == [x |-> p, ts |-> clock]
           m == Len(touch)
<1>1. clock \in Times /\ RingTypeOK /\ RingTypeOK'
  BY ClockIsTime DEF RingInv
<1>2. Push(p, clock) /\ touch' = Append(touch, s) /\ touchStart' = touchStart
      /\ clock' = clock
  BY DEF Report
<1>3. Recent' = IF Len(Recent) < RingSize THEN Append(Recent, s)
                                          ELSE Append(Tail(Recent), s)
  BY <1>1, <1>2, PushedRecent
<1>4. touch \in Seq(Sample) /\ touch # << >> /\ m \in Nat \ {0}
  BY DEF Newest
<1>5. RingSize \in Nat \ {0} /\ clock \in Nat /\ s \in Sample /\ s.ts = clock
  BY <1>1, RingAssumption DEF RingAssumption, Sample
<1>6. Recent \in Seq(Sample) /\ Len(Recent) = count
      /\ \A n \in 0 .. (count - 1) : NthOldest(n) = Recent[n + 1]
  BY <1>1, RecentIs
<1>7. Len(Recent') = count'
      /\ \A n \in 0 .. (count' - 1) : NthOldest(n)' = Recent'[n + 1]
  <2>1. RingTypeOK' => (/\ Len(Recent) = count
                        /\ \A n \in 0 .. (count - 1) : NthOldest(n) = Recent[n + 1])'
    BY RecentIs, PTL
  <2> QED
    BY <1>1, <2>1
<1>8. count' = IF count < RingSize THEN count + 1 ELSE count
  BY <1>2 DEF Push
<1>9. count = IF m < RingSize THEN m ELSE RingSize
  BY DEF WholeTouch
<1>w. \A k \in 0 .. (count - 1) : NthOldest(k) = touch[m - count + 1 + k]
  BY DEF WholeTouch
<1>10. totalDistance' = totalDistance + Gap(touch[m], s)
  <2>1. /\ count - 1 \in 0 .. (count - 1) /\ count > 0
        /\ m - count + 1 + (count - 1) = m
    BY <1>4, <1>5, <1>9
  <2>2. NthOldest(count - 1) = touch[m]
    BY <1>w, <2>1
  <2>3. totalDistance' = totalDistance +
          (IF count > 0 THEN Gap(NthOldest(count - 1), s) ELSE 0)
    BY <1>2 DEF Push
  <2> HIDE DEF s, m
  <2> QED
    BY <2>1, <2>2, <2>3
<1> HIDE DEF s
<1>11. Len(touch') = m + 1 /\ touch'[m + 1] = s
       /\ \A i \in 1 .. m : touch'[i] = touch[i]
  BY <1>2, <1>4, <1>5
<1>12. ASSUME NEW n \in 0 .. (count' - 1)
       PROVE  NthOldest(n)' = touch'[Len(touch') - count' + 1 + n]
  <2>1. CASE m < RingSize
    <3>1. Recent' = Append(Recent, s) /\ count = m /\ count' = m + 1
      BY <1>3, <1>6, <1>8, <1>9, <2>1
    <3>2. CASE n = m
      BY <1>5, <1>6, <1>7, <1>11, <1>12, <3>1, <3>2
    <3>3. CASE n < m
      <4>1. NthOldest(n)' = Recent[n + 1]
        BY <1>4, <1>5, <1>6, <1>7, <1>12, <3>1, <3>3
      <4>2. Recent[n + 1] = touch[1 + n]
        <5>1. n \in 0 .. (count - 1)
          BY <1>4, <1>12, <3>1, <3>3
        <5>2. m - count + 1 + n = 1 + n
          BY <1>4, <3>1
        <5> QED
          BY <1>6, <1>w, <5>1, <5>2
      <4> QED
        BY <1>4, <1>11, <3>1, <3>3, <4>1, <4>2
    <3> QED
      BY <1>4, <3>1, <3>2, <3>3
  <2>2. CASE m >= RingSize
    <3>1. Recent' = Append(Tail(Recent), s) /\ count = RingSize /\ count' = RingSize
      BY <1>3, <1>4, <1>5, <1>6, <1>8, <1>9, <2>2
    <3>2. Tail(Recent) \in Seq(Sample) /\ Len(Tail(Recent)) = RingSize - 1
          /\ \A i \in 1 .. RingSize - 1 : Tail(Recent)[i] = Recent[i + 1]
      <4>1. Recent # << >>
        BY <1>5, <1>6, <3>1
      <4> QED
        BY <1>6, <3>1, <4>1
    <3>3. CASE n = RingSize - 1
      BY <1>4, <1>5, <1>7, <1>11, <3>1, <3>2, <3>3
    <3>4. CASE n < RingSize - 1
      <4>1. n + 1 \in 1 .. RingSize - 1 /\ n + 1 \in 0 .. (count - 1)
        BY <1>5, <3>1, <3>4
      <4>2. NthOldest(n)' = Recent[n + 2]
        BY <1>5, <1>7, <3>1, <3>2, <4>1
      <4>3. Recent[n + 2] = touch[m - RingSize + 1 + (n + 1)]
        BY <1>6, <1>w, <3>1, <4>1
      <4> QED
        BY <1>4, <1>5, <1>11, <2>2, <3>1, <4>1, <4>2, <4>3
    <3> QED
      BY <1>5, <3>1, <3>3, <3>4
  <2> QED
    BY <1>4, <1>5, <2>1, <2>2
<1>13. count' = IF Len(touch') < RingSize THEN Len(touch') ELSE RingSize
  BY <1>4, <1>5, <1>8, <1>9, <1>11
<1>14. totalDistance' = PathOf(touch')
  BY <1>2, <1>4, <1>5, <1>10, PathGrows DEF WholeTouch
<1>15. touchStart' = touch'[1].ts
  BY <1>2, <1>4, <1>11 DEF WholeTouch
<1>16. ASSUME NEW i \in 1 .. Len(touch')
       PROVE  touch'[i].ts <= clock'
  <2>1. i \in 1 .. m \/ i = m + 1
    BY <1>4, <1>11
  <2> QED
    BY <1>2, <1>5, <1>11, <2>1 DEF WholeTouch
<1>17. ASSUME NEW i \in 1 .. Len(touch'), NEW j \in 1 .. Len(touch'), i <= j
       PROVE  touch'[i].ts <= touch'[j].ts
  <2>1. CASE j = m + 1
    BY <1>2, <1>5, <1>11, <1>16, <2>1
  <2>2. CASE j # m + 1
    <3>1. i \in 1 .. m /\ j \in 1 .. m
      BY <1>4, <1>11, <1>17, <2>2
    <3> QED
      BY <1>11, <1>17, <3>1 DEF WholeTouch
  <2> QED
    BY <2>1, <2>2
<1> QED
  BY <1>12, <1>13, <1>14, <1>15, <1>16, <1>17 DEF WholeTouch

LEMMA WholeTouchInit == ReleaseInit => WholeTouch
  BY RingAssumption DEF RingAssumption, ReleaseInit, RingInit, WholeTouch

LEMMA WholeTouchSteps ==
  ASSUME RingInv, RingInv', Newest, WholeTouch,
         [ReleaseNext]_<<ringVars, fingerVars>>
  PROVE  WholeTouch'
<1>1. ASSUME NEW p \in Positions, Land(p) PROVE WholeTouch'
  BY <1>1, LandingIsWhole
<1>2. ASSUME NEW p \in Positions, MoveFinger(p) PROVE WholeTouch'
  BY <1>2, ReportIsWhole DEF MoveFinger
<1>3. CASE ReportLanding
  BY <1>3, ReportIsWhole DEF ReportLanding, RingInv, FingerOK
<1>4. CASE Lift \/ Poll \/ Wait \/ UNCHANGED <<ringVars, fingerVars>>
  <2>1. UNCHANGED <<ringVars, touch, touchStart>>
        /\ (clock' = clock \/ clock' = clock + 1)
    BY <1>4 DEF Lift, Poll, Wait, fingerVars
  <2>2. \A n : NthOldest(n)' = NthOldest(n)
    BY <2>1 DEF ringVars, NthOldest
  <2>3. ASSUME NEW i \in 1 .. Len(touch)
        PROVE  touch[i].ts <= clock'
    <3>1. touch[i] \in Sample
      BY DEF Newest
    <3>2. touch[i].ts \in Nat /\ clock \in Nat
      <4>1. touch[i].ts \in Times /\ Times \subseteq Nat
        BY <3>1, RingAssumption DEF RingAssumption, Sample
      <4>2. clock \in Nat
        BY ReleaseAssumption DEF ReleaseAssumption, RingInv, FingerOK
      <4> QED
        BY <4>1, <4>2
    <3> QED
      BY <2>1, <3>2 DEF WholeTouch
  <2> QED
    BY <2>1, <2>2, <2>3 DEF WholeTouch, ringVars
<1> QED
  BY <1>1, <1>2, <1>3, <1>4 DEF ReleaseNext

-----------------------------------------------------------------------------
\* What the ring says of samples a to b is what the touch says of them.
Piece(a, b) == SubSeq(touch, Len(touch) - count + 1 + a, Len(touch) - count + 1 + b)

Judged == RingInv /\ Newest /\ WholeTouch /\ touch # << >>

LEMMA PieceOf ==
  ASSUME Judged, NEW a \in 0 .. (count - 1), NEW b \in a .. (count - 1)
  PROVE  /\ Piece(a, b) \in Seq(Sample)
         /\ Len(Piece(a, b)) = b - a + 1
         /\ \A i \in 1 .. (b - a + 1) : Piece(a, b)[i] = NthOldest(a + i - 1)
<1> DEFINE k == Len(touch) - count + 1
<1>1. touch \in Seq(Sample) /\ count \in Nat /\ Len(touch) \in Nat
      /\ RingSize \in Nat
  BY RingAssumption DEF RingAssumption, Judged, RingInv, RingTypeOK, Newest
<1>2. count = (IF Len(touch) < RingSize THEN Len(touch) ELSE RingSize)
      /\ \A n \in 0 .. (count - 1) : NthOldest(n) = touch[k + n]
  BY DEF Judged, WholeTouch
<1>3. a \in Nat /\ b \in Nat /\ a <= b /\ b < count /\ k \in Nat \ {0}
      /\ k + b <= Len(touch)
  BY <1>1, <1>2
<1> HIDE DEF k
<1>4. \A i \in (k + a) .. (k + b) : touch[i] \in Sample
  BY <1>1, <1>3
<1>5. /\ SubSeq(touch, k + a, k + b) \in Seq(Sample)
      /\ Len(SubSeq(touch, k + a, k + b)) = b - a + 1
      /\ \A i \in 1 .. (b - a + 1) : SubSeq(touch, k + a, k + b)[i] = touch[k + a + i - 1]
  <2> DEFINE m == k + a
             n == k + b
  <2>1. m \in Int /\ n \in Int /\ m <= n /\ n - m + 1 = b - a + 1
    BY <1>3
  <2>2. \A i \in m .. n : touch[i] \in Sample
    BY <1>4
  <2> HIDE DEF m, n
  <2>3. /\ SubSeq(touch, m, n) \in Seq(Sample)
        /\ Len(SubSeq(touch, m, n)) = n - m + 1
        /\ \A i \in 1 .. (n - m + 1) : SubSeq(touch, m, n)[i] = touch[m + i - 1]
    BY <2>1, <2>2, SubSeqProperties
  <2> QED
    BY <2>1, <2>3 DEF m, n
<1>6. ASSUME NEW i \in 1 .. (b - a + 1)
      PROVE  SubSeq(touch, k + a, k + b)[i] = NthOldest(a + i - 1)
  <2>1. a + i - 1 \in 0 .. (count - 1) /\ k + (a + i - 1) = k + a + i - 1
    BY <1>1, <1>3
  <2> QED
    BY <1>2, <1>5, <2>1
<1>7. Piece(a, b) = SubSeq(touch, k + a, k + b)
  BY DEF Piece, k
<1> QED
  BY <1>5, <1>6, <1>7

\* The samples of a piece are in the order of time.
LEMMA PieceInOrder ==
  ASSUME Judged, NEW a \in 0 .. (count - 1), NEW b \in a .. (count - 1)
  PROVE  /\ NthOldest(a).ts \in Nat /\ NthOldest(b).ts \in Nat
         /\ NthOldest(a).ts <= NthOldest(b).ts /\ NthOldest(b).ts <= clock
         /\ NthOldest(a).x \in Int /\ NthOldest(b).x \in Int
<1> DEFINE k == Len(touch) - count + 1
<1>1. touch \in Seq(Sample) /\ count \in Nat /\ Len(touch) \in Nat
      /\ RingSize \in Nat
  BY RingAssumption DEF RingAssumption, Judged, RingInv, RingTypeOK, Newest
<1>2. count = (IF Len(touch) < RingSize THEN Len(touch) ELSE RingSize)
      /\ \A n \in 0 .. (count - 1) : NthOldest(n) = touch[k + n]
  BY DEF Judged, WholeTouch
<1>3. k + a \in 1 .. Len(touch) /\ k + b \in 1 .. Len(touch) /\ k + a <= k + b
      /\ b \in 0 .. (count - 1)
  BY <1>1, <1>2
<1>4. NthOldest(a) = touch[k + a] /\ NthOldest(b) = touch[k + b]
  BY <1>2, <1>3
<1> HIDE DEF k
<1>5. touch[k + a] \in Sample /\ touch[k + b] \in Sample
  BY <1>1, <1>3
<1>6. Positions \subseteq Int /\ Times \subseteq Nat
  BY RingAssumption DEF RingAssumption
<1>7. touch[k + a].ts <= touch[k + b].ts /\ touch[k + b].ts <= clock
  BY <1>3 DEF Judged, WholeTouch
<1> QED
  BY <1>4, <1>5, <1>6, <1>7 DEF Sample

LEMMA PieceSummary ==
  ASSUME Judged, NEW a \in 0 .. (count - 1), NEW b \in a .. (count - 1)
  PROVE  SummaryBetween(a, b) = Summary(Piece(a, b))
<1> DEFINE p == Piece(a, b)
           steps == [i \in 1 .. (Len(p) - 1) |-> Gap(p[i], p[i + 1])]
           ringSteps == [i \in 1 .. (b - a) |->
                           Gap(NthOldest(a + i - 1), NthOldest(a + i))]
<1>0. a \in Nat /\ b \in Nat /\ a <= b
  BY DEF Judged, RingInv, RingTypeOK
<1>1. Len(p) = b - a + 1
      /\ \A i \in 1 .. (b - a + 1) : p[i] = NthOldest(a + i - 1)
  BY PieceOf
<1> HIDE DEF p
<1>2. p[1] = NthOldest(a) /\ p[Len(p)] = NthOldest(b)
  <2>1. a + 1 - 1 = a /\ a + (b - a + 1) - 1 = b
        /\ 1 \in 1 .. (b - a + 1) /\ b - a + 1 \in 1 .. (b - a + 1)
    BY <1>0
  <2> QED
    BY <1>1, <2>1
<1>3. steps = ringSteps /\ Len(p) - 1 = b - a
  <2>1. Len(p) - 1 = b - a
    BY <1>0, <1>1
  <2>2. ASSUME NEW i \in 1 .. (b - a)
        PROVE  p[i] = NthOldest(a + i - 1) /\ p[i + 1] = NthOldest(a + i)
    <3>1. i \in 1 .. (b - a + 1) /\ i + 1 \in 1 .. (b - a + 1)
          /\ a + (i + 1) - 1 = a + i
      BY <1>0
    <3> QED
      BY <1>1, <3>1
  <2> QED
    BY <2>1, <2>2
<1>4. SaturatingSub(NthOldest(b).ts, NthOldest(a).ts)
        = NthOldest(b).ts - NthOldest(a).ts
  BY PieceInOrder DEF SaturatingSub
<1>5. PathOf(p) = Total(ringSteps, b - a)
  BY <1>3 DEF PathOf
<1>6. SummaryBetween(a, b) = [dx       |-> NthOldest(b).x - NthOldest(a).x,
                              duration |-> NthOldest(b).ts - NthOldest(a).ts,
                              path     |-> Total(ringSteps, b - a)]
  BY <1>4 DEF SummaryBetween
<1> HIDE DEF ringSteps, steps
<1>7. Summary(p) = [dx       |-> NthOldest(b).x - NthOldest(a).x,
                    duration |-> NthOldest(b).ts - NthOldest(a).ts,
                    path     |-> Total(ringSteps, b - a)]
  BY <1>2, <1>5 DEF Summary
<1> QED
  BY <1>6, <1>7 DEF p

\* The windows of the touch are pieces of it.
LEMMA SubSeqOfPrefix ==
  ASSUME NEW h \in Seq(Sample), NEW m \in 1 .. Len(h),
         NEW i \in 1 .. m, NEW j \in i .. m
  PROVE  SubSeq(SubSeq(h, 1, m), i, j) = SubSeq(h, i, j)
<1> DEFINE g == SubSeq(h, 1, m)
<1>1. m \in Nat /\ i \in Nat /\ j \in Nat /\ 1 <= i /\ i <= j /\ j <= m /\ m <= Len(h)
  OBVIOUS
<1>2. g \in Seq(Sample) /\ Len(g) = m /\ \A n \in 1 .. m : g[n] = h[n]
  <2>1. \A n \in 1 .. m : h[n] \in Sample
    BY <1>1
  <2>2. /\ g \in Seq(Sample) /\ Len(g) = m - 1 + 1
        /\ \A n \in 1 .. m - 1 + 1 : g[n] = h[1 + n - 1]
    BY <1>1, <2>1, SubSeqProperties
  <2> HIDE DEF g
  <2> QED
    BY <1>1, <2>2
<1> HIDE DEF g
<1>3. /\ SubSeq(g, i, j) \in Seq(Sample) /\ Len(SubSeq(g, i, j)) = j - i + 1
      /\ \A n \in 1 .. j - i + 1 : SubSeq(g, i, j)[n] = g[i + n - 1]
  <2>1. \A n \in i .. j : g[n] \in Sample
    BY <1>1, <1>2
  <2> QED
    BY <1>1, <2>1, SubSeqProperties
<1>4. /\ SubSeq(h, i, j) \in Seq(Sample) /\ Len(SubSeq(h, i, j)) = j - i + 1
      /\ \A n \in 1 .. j - i + 1 : SubSeq(h, i, j)[n] = h[i + n - 1]
  <2>1. \A n \in i .. j : h[n] \in Sample
    BY <1>1
  <2> QED
    BY <1>1, <2>1, SubSeqProperties
<1>5. \A n \in 1 .. j - i + 1 : g[i + n - 1] = h[i + n - 1]
  BY <1>1, <1>2
<1>6. SubSeq(g, i, j) = SubSeq(h, i, j)
  <2> DEFINE left == SubSeq(g, i, j)  right == SubSeq(h, i, j)
  <2>1. left \in Seq(Sample) /\ right \in Seq(Sample) /\ Len(left) = Len(right)
        /\ \A n \in 1 .. Len(left) : left[n] = right[n]
    BY <1>3, <1>4, <1>5
  <2> HIDE DEF left, right
  <2>2. left = right
    BY <2>1
  <2> QED
    BY <2>2 DEF left, right
<1> QED
  BY <1>6 DEF g

LEMMA WholeIsPiece ==
  ASSUME NEW h \in Seq(Sample)
  PROVE  SubSeq(h, 1, Len(h)) = h
<1> DEFINE g == SubSeq(h, 1, Len(h))
<1>1. /\ g \in Seq(Sample) /\ Len(g) = Len(h)
      /\ \A i \in 1 .. Len(h) : g[i] = h[i]
  <2>1. \A n \in 1 .. Len(h) : h[n] \in Sample
    OBVIOUS
  <2>2. /\ g \in Seq(Sample)
        /\ Len(g) = IF 1 <= Len(h) THEN Len(h) - 1 + 1 ELSE 0
        /\ \A n \in 1 .. Len(h) - 1 + 1 : g[n] = h[1 + n - 1]
    BY <2>1, SubSeqProperties
  <2>3. Len(h) \in Nat
    OBVIOUS
  <2> HIDE DEF g
  <2> QED
    BY <2>2, <2>3
<1> HIDE DEF g
<1>2. g = h
  BY <1>1
<1> QED
  BY <1>2 DEF g

LEMMA LastOfPiece ==
  ASSUME Judged, Len(touch) >= 2
  PROVE  LastOf(touch, VelocityWindow)
           = Piece(IF VelocityWindow <= count THEN count - VelocityWindow ELSE 0,
                   count - 1)
<1>1. touch \in Seq(Sample) /\ Len(touch) \in Nat
      /\ RingSize \in Nat /\ VelocityWindow \in Nat /\ VelocityWindow >= 2
      /\ LiftTail \in Nat /\ VelocityWindow + LiftTail <= RingSize
      /\ count = IF Len(touch) < RingSize THEN Len(touch) ELSE RingSize
  BY RingAssumption, ReleaseAssumption
  DEF RingAssumption, ReleaseAssumption, Judged, Newest, WholeTouch
<1>2. CASE VelocityWindow < Len(touch)
  <2>1. LastOf(touch, VelocityWindow)
          = SubSeq(touch, Len(touch) - VelocityWindow + 1, Len(touch))
    BY <1>2 DEF LastOf
  <2>2. /\ VelocityWindow <= count
        /\ Len(touch) - count + 1 + (count - VelocityWindow)
             = Len(touch) - VelocityWindow + 1
        /\ Len(touch) - count + 1 + (count - 1) = Len(touch)
    BY <1>1, <1>2
  <2> QED
    BY <2>1, <2>2 DEF Piece
<1>3. CASE VelocityWindow >= Len(touch)
  <2>1. LastOf(touch, VelocityWindow) = touch
    BY <1>1, <1>3 DEF LastOf
  <2>2. count = Len(touch)
    BY <1>1, <1>3
  <2>3. /\ (IF VelocityWindow <= count THEN count - VelocityWindow ELSE 0) = 0
        /\ Len(touch) - count + 1 + 0 = 1
        /\ Len(touch) - count + 1 + (count - 1) = Len(touch)
    BY <1>1, <1>3, <2>2
  <2>4. SubSeq(touch, 1, Len(touch)) = touch
    BY <1>1, WholeIsPiece
  <2> QED
    BY <2>1, <2>3, <2>4 DEF Piece
<1> QED
  BY <1>1, <1>2, <1>3

\* The last samples of the first m.
LEMMA LastOfPrefix ==
  ASSUME NEW h \in Seq(Sample), NEW m \in 1 .. Len(h),
         NEW w \in 1 .. m
  PROVE  LastOf(SubSeq(h, 1, m), w) = SubSeq(h, m - w + 1, m)
<1> DEFINE before == SubSeq(h, 1, m)
<1>1. m \in Nat /\ w \in Nat /\ 1 <= w /\ w <= m /\ 1 <= m /\ m <= Len(h)
  OBVIOUS
<1>2. Len(before) = m
  <2>1. \A n \in 1 .. m : h[n] \in Sample
    BY <1>1
  <2>2. Len(SubSeq(h, 1, m)) = IF 1 <= m THEN m - 1 + 1 ELSE 0
    BY <1>1, <2>1, SubSeqProperties
  <2> QED
    BY <1>1, <2>2
<1>3. CASE w < m
  <2>1. LastOf(before, w) = SubSeq(before, m - w + 1, m)
    <3> HIDE DEF before
    <3> QED
      BY <1>2, <1>3 DEF LastOf
  <2>2. m - w + 1 \in 1 .. m /\ m \in (m - w + 1) .. m
    BY <1>1
  <2> QED
    BY <2>1, <2>2, SubSeqOfPrefix
<1>4. CASE w = m
  <2>1. LastOf(before, w) = before
    <3> HIDE DEF before
    <3> QED
      BY <1>1, <1>2, <1>4 DEF LastOf
  <2>2. m - w + 1 = 1
    BY <1>1, <1>4
  <2> QED
    BY <2>1, <2>2
<1> QED
  BY <1>1, <1>3, <1>4

\* The trimmed window and the tail, in a touch long enough to have both.
LEMMA TailPieces ==
  ASSUME Judged, Len(touch) >= VelocityWindow + LiftTail
  PROVE  /\ count >= VelocityWindow + LiftTail
         /\ LastOf(touch, LiftTail) = Piece(count - LiftTail, count - 1)
         /\ LastOf(SubSeq(touch, 1, Len(touch) - LiftTail), VelocityWindow)
              = Piece(count - LiftTail - VelocityWindow, count - LiftTail - 1)
<1> DEFINE m == Len(touch) - LiftTail
           before == SubSeq(touch, 1, m)
<1>1. touch \in Seq(Sample) /\ Len(touch) \in Nat
      /\ RingSize \in Nat /\ VelocityWindow \in Nat /\ VelocityWindow >= 2
      /\ LiftTail \in Nat /\ LiftTail >= 2 /\ VelocityWindow + LiftTail <= RingSize
      /\ count = IF Len(touch) < RingSize THEN Len(touch) ELSE RingSize
  BY RingAssumption, ReleaseAssumption
  DEF RingAssumption, ReleaseAssumption, Judged, Newest, WholeTouch
<1>2. count >= VelocityWindow + LiftTail
  BY <1>1
<1>3. LastOf(touch, LiftTail) = Piece(count - LiftTail, count - 1)
  <2>1. LiftTail < Len(touch)
    BY <1>1
  <2>2. /\ Len(touch) - count + 1 + (count - LiftTail) = Len(touch) - LiftTail + 1
        /\ Len(touch) - count + 1 + (count - 1) = Len(touch)
    BY <1>1
  <2> QED
    BY <2>1, <2>2 DEF LastOf, Piece
<1>4. m \in 1 .. Len(touch) /\ VelocityWindow \in 1 .. m
  BY <1>1
<1>5. LastOf(before, VelocityWindow) = SubSeq(touch, m - VelocityWindow + 1, m)
  <2> HIDE DEF m
  <2> QED
    BY <1>1, <1>4, LastOfPrefix
<1>6. /\ Len(touch) - count + 1 + (count - LiftTail - VelocityWindow)
           = m - VelocityWindow + 1
      /\ Len(touch) - count + 1 + (count - LiftTail - 1) = m
  BY <1>1
<1> QED
  BY <1>2, <1>3, <1>5, <1>6 DEF Piece

\* compute_release_velocity uses the samples that it should.
LEMMA UsedAreThose ==
  ASSUME Judged, Len(touch) >= 2
  PROVE  /\ FirstUsed \in 0 .. (count - 1) /\ LastUsed \in FirstUsed .. (count - 1)
         /\ FirstUsed < LastUsed
         /\ UsedSamples(touch) = Piece(FirstUsed, LastUsed)
<1>1. touch \in Seq(Sample) /\ Len(touch) \in Nat
      /\ RingSize \in Nat /\ VelocityWindow \in Nat /\ VelocityWindow >= 2
      /\ LiftTail \in Nat /\ LiftTail >= 2 /\ VelocityWindow + LiftTail <= RingSize
      /\ count = IF Len(touch) < RingSize THEN Len(touch) ELSE RingSize
  BY RingAssumption, ReleaseAssumption
  DEF RingAssumption, ReleaseAssumption, Judged, Newest, WholeTouch
<1> DEFINE ringSlow == TailIsSlow(SummaryBetween(count - LiftTail, count - 1),
                         SummaryBetween(count - LiftTail - VelocityWindow,
                                        count - LiftTail - 1))
           slow == TailIsSlow(Summary(LastOf(touch, LiftTail)),
                     Summary(LastOf(SubSeq(touch, 1, Len(touch) - LiftTail),
                                    VelocityWindow)))
           long == Len(touch) >= VelocityWindow + LiftTail
<1>2. long => ringSlow = slow
  <2> SUFFICES ASSUME long PROVE ringSlow = slow
    OBVIOUS
  <2>1. count >= VelocityWindow + LiftTail
    BY TailPieces
  <2>2. /\ count - LiftTail \in 0 .. (count - 1)
        /\ count - 1 \in (count - LiftTail) .. (count - 1)
        /\ count - LiftTail - VelocityWindow \in 0 .. (count - 1)
        /\ count - LiftTail - 1
             \in (count - LiftTail - VelocityWindow) .. (count - 1)
    BY <1>1, <2>1
  <2>3. SummaryBetween(count - LiftTail, count - 1)
          = Summary(LastOf(touch, LiftTail))
    BY <2>2, TailPieces, PieceSummary
  <2>4. SummaryBetween(count - LiftTail - VelocityWindow, count - LiftTail - 1)
          = Summary(LastOf(SubSeq(touch, 1, Len(touch) - LiftTail), VelocityWindow))
    BY <2>2, TailPieces, PieceSummary
  <2> QED
    BY <2>3, <2>4
<1>3. long <=> count >= VelocityWindow + LiftTail
  BY <1>1
<1>4. LastUsed = IF long /\ slow THEN count - LiftTail - 1 ELSE count - 1
  BY <1>2, <1>3 DEF LastUsed
<1>5. UsedSamples(touch) =
        IF long /\ slow
        THEN LastOf(SubSeq(touch, 1, Len(touch) - LiftTail), VelocityWindow)
        ELSE LastOf(touch, VelocityWindow)
  BY DEF UsedSamples
<1> HIDE DEF slow, long, ringSlow
<1>6. CASE long /\ slow
  <2>1. count >= VelocityWindow + LiftTail /\ LastUsed = count - LiftTail - 1
    BY <1>3, <1>4, <1>6
  <2>2. FirstUsed = count - LiftTail - VelocityWindow
    BY <1>1, <2>1 DEF FirstUsed
  <2>3. UsedSamples(touch)
          = Piece(count - LiftTail - VelocityWindow, count - LiftTail - 1)
    BY <1>5, <1>6, TailPieces DEF long
  <2> QED
    BY <1>1, <2>1, <2>2, <2>3
<1>7. CASE ~(long /\ slow)
  <2>1. LastUsed = count - 1
    BY <1>4, <1>7
  <2>2. FirstUsed = IF VelocityWindow <= count THEN count - VelocityWindow ELSE 0
    BY <1>1, <2>1 DEF FirstUsed
  <2>3. UsedSamples(touch) = Piece(FirstUsed, LastUsed)
    BY <1>5, <1>7, <2>1, <2>2, LastOfPiece
  <2>4. count >= 2
    BY <1>1
  <2> QED
    BY <1>1, <2>1, <2>2, <2>3, <2>4
<1> QED
  BY <1>6, <1>7

\* Judged from the ring or from the whole touch, a lift starts inertia or not.
LEMMA SameVerdict ==
  ASSUME Judged
  PROVE  (Decide(clock) = "start") = Qualifies(touch, clock)
<1> DEFINE used == UsedSamples(touch)
           sum == Summary(used)
<1>1. /\ touch \in Seq(Sample) /\ Len(touch) \in Nat \ {0}
      /\ RingSize \in Nat /\ RingSize >= 4
      /\ count = IF Len(touch) < RingSize THEN Len(touch) ELSE RingSize
      /\ MinVelocity \in Nat /\ MinTouch \in Nat /\ Stale \in Nat
      /\ MinDistance \in Nat /\ clock \in Nat
  <2>1. MinVelocity \in Nat /\ MinTouch \in Nat /\ Stale \in Nat
        /\ MinDistance \in Nat /\ MaxTime \in Nat
    BY ReleaseAssumption DEF ReleaseAssumption
  <2>2. RingSize \in Nat /\ RingSize >= 4
    BY RingAssumption, ReleaseAssumption DEF RingAssumption, ReleaseAssumption
  <2>3. clock \in Nat
    BY <2>1 DEF Judged, RingInv, FingerOK
  <2>4. touch \in Seq(Sample) /\ Len(touch) \in Nat \ {0}
        /\ count = IF Len(touch) < RingSize THEN Len(touch) ELSE RingSize
    BY DEF Judged, Newest, WholeTouch
  <2> QED
    BY <2>1, <2>2, <2>3, <2>4
<1>2. SaturatingSub(clock, touchStart) = clock - touch[1].ts
  <2>1. touch[1] \in Sample /\ 1 \in 1 .. Len(touch)
    BY <1>1
  <2>2. touch[1].ts \in Nat
    BY <2>1, RingAssumption DEF RingAssumption, Sample
  <2>3. touchStart = touch[1].ts /\ touch[1].ts <= clock
    BY <2>1 DEF Judged, WholeTouch
  <2> QED
    BY <1>1, <2>2, <2>3 DEF SaturatingSub
<1>3. totalDistance = PathOf(touch)
  BY DEF Judged, WholeTouch
<1>4. CASE Len(touch) < 2
  <2>1. ~HasVelocity(clock)
    BY <1>1, <1>4 DEF HasVelocity
  <2>2. Decide(clock) # "start"
    BY <2>1 DEF Decide
  <2>3. ~Qualifies(touch, clock)
    BY <1>1, <1>4 DEF Qualifies
  <2> QED
    BY <2>2, <2>3 DEF Qualifies
<1>5. CASE Len(touch) >= 2
  <2>1. /\ FirstUsed \in 0 .. (count - 1) /\ LastUsed \in FirstUsed .. (count - 1)
        /\ FirstUsed < LastUsed /\ used = Piece(FirstUsed, LastUsed)
    BY <1>5, UsedAreThose
  <2>2. SummaryBetween(FirstUsed, LastUsed) = sum
    BY <2>1, PieceSummary
  <2>3. count - 1 \in 0 .. (count - 1) /\ count - 1 \in LastUsed .. (count - 1)
        /\ LastUsed \in 0 .. (count - 1)
    <3>1. count \in Nat /\ count >= 2
      BY <1>1, <1>5
    <3> QED
      BY <2>1, <3>1
  <2>4. used[Len(used)] = NthOldest(LastUsed)
    <3>1. FirstUsed \in Nat /\ LastUsed \in Nat /\ FirstUsed <= LastUsed
      BY <1>1, <2>1
    <3>2. Len(used) = LastUsed - FirstUsed + 1
          /\ \A i \in 1 .. (LastUsed - FirstUsed + 1) :
               used[i] = NthOldest(FirstUsed + i - 1)
      BY <2>1, PieceOf
    <3> HIDE DEF used
    <3>3. LastUsed - FirstUsed + 1 \in 1 .. (LastUsed - FirstUsed + 1)
          /\ FirstUsed + (LastUsed - FirstUsed + 1) - 1 = LastUsed
      BY <3>1
    <3> QED
      BY <3>2, <3>3
  <2>5. /\ NthOldest(LastUsed).ts \in Nat /\ NthOldest(count - 1).ts \in Nat
        /\ NthOldest(LastUsed).ts <= NthOldest(count - 1).ts
        /\ NthOldest(count - 1).ts <= clock
    BY <2>3, PieceInOrder
  <2>6. /\ NthOldest(FirstUsed).ts \in Nat
        /\ NthOldest(FirstUsed).ts <= NthOldest(LastUsed).ts
        /\ NthOldest(FirstUsed).x \in Int /\ NthOldest(LastUsed).x \in Int
    BY <2>1, PieceInOrder
  <2>7. sum.dx \in Int /\ sum.duration \in Nat
    BY <2>2, <2>5, <2>6 DEF SummaryBetween, SaturatingSub
  <2>8. (/\ IsFresh(count - 1, clock)
         /\ IsFresh(LastUsed, clock)) <=> clock - used[Len(used)].ts <= Stale
    BY <1>1, <2>4, <2>5 DEF IsFresh, SaturatingSub
  <2> HIDE DEF sum, used
  <2>9. HasVelocity(clock) <=> /\ clock - used[Len(used)].ts <= Stale
                               /\ sum.duration > 0
    BY <1>1, <1>5, <2>2, <2>7, <2>8 DEF HasVelocity
  <2>10. ~((IF sum.dx < 0 THEN -sum.dx ELSE sum.dx) < MinVelocity * sum.duration)
          <=> \/ sum.dx >= MinVelocity * sum.duration
              \/ -sum.dx >= MinVelocity * sum.duration
    <3>1. MinVelocity * sum.duration \in Nat
      BY <1>1, <2>7
    <3> QED
      BY <2>7, <3>1
  <2>11. PathOf(touch) \in Int
    BY <1>3 DEF Judged, RingInv, RingTypeOK
  <2>12. clock - touch[1].ts \in Int
    <3>1. touch[1] \in Sample
      BY <1>1
    <3>2. touch[1].ts \in Nat
      BY <3>1, RingAssumption DEF RingAssumption, Sample
    <3> QED
      BY <1>1, <3>2
  <2>13. Decide(clock) = "start" <=>
           /\ ~(SaturatingSub(clock, touchStart) < MinTouch)
           /\ ~(totalDistance < MinDistance)
           /\ HasVelocity(clock)
           /\ ~((IF sum.dx < 0 THEN -sum.dx ELSE sum.dx) < MinVelocity * sum.duration)
    BY <2>2 DEF Decide
  <2>14. Qualifies(touch, clock) <=>
           /\ clock - touch[1].ts >= MinTouch
           /\ PathOf(touch) >= MinDistance
           /\ clock - used[Len(used)].ts <= Stale
           /\ sum.duration > 0
           /\ \/ sum.dx >= MinVelocity * sum.duration
              \/ -sum.dx >= MinVelocity * sum.duration
    BY <1>5 DEF Qualifies, used, sum
  <2>15. Qualifies(touch, clock) <=> Decide(clock) = "start"
    BY <1>1, <1>2, <1>3, <2>9, <2>10, <2>11, <2>12, <2>13, <2>14
  <2> QED
    BY <2>15 DEF Qualifies
<1> QED
  BY <1>1, <1>4, <1>5

\* A lift starts inertia exactly if its own touch qualifies, judged from all
\* its samples (touchpad.rs:174-249, 699-819).
THEOREM OwnTouchDecides == ReleaseSpec => []VerdictIsOfThisTouch
<1> DEFINE Inv == Newest /\ Rested /\ WholeTouch /\ VerdictIsOfThisTouch
<1>1. ReleaseInit => Inv
  BY WholeTouchInit DEF ReleaseInit, Newest, Rested, VerdictIsOfThisTouch, Lifted
<1>2. RingInv /\ RingInv' /\ Inv /\ [ReleaseNext]_<<ringVars, fingerVars>> => Inv'
  <2> SUFFICES ASSUME RingInv, RingInv', Inv,
                      [ReleaseNext]_<<ringVars, fingerVars>>
               PROVE  Inv'
    OBVIOUS
  <2>1. WholeTouch'
    BY WholeTouchSteps
  <2>2. Newest' /\ Rested'
    BY RestSteps
  <2> SUFFICES VerdictIsOfThisTouch'
    BY <2>1, <2>2
  <2>3. ASSUME NEW p \in Positions, Land(p) PROVE VerdictIsOfThisTouch'
    BY <2>3 DEF Land, VerdictIsOfThisTouch, Lifted
  <2>4. ASSUME touching, verdict' = verdict PROVE VerdictIsOfThisTouch'
    BY <2>4 DEF Rested, VerdictIsOfThisTouch, Lifted
  <2>5. CASE (\E p \in Positions : MoveFinger(p)) \/ ReportLanding
    BY <2>4, <2>5 DEF MoveFinger, ReportLanding, Report
  <2>6. CASE Lift
    <3>1. Judged
      BY <2>6 DEF Judged, Lift, Newest
    <3>2. (Decide(clock) = "start") = Qualifies(touch, clock)
      BY <3>1, SameVerdict
    <3>3. verdict' = Decide(clock) /\ touch' = touch /\ liftAt' = clock
      BY <2>6 DEF Lift
    <3>4. Qualifies(touch', liftAt') = Qualifies(touch, clock)
      BY <3>3
    <3> QED
      BY <3>2, <3>3, <3>4 DEF VerdictIsOfThisTouch
  <2>7. CASE Poll \/ Wait \/ UNCHANGED <<ringVars, fingerVars>>
    <3>1. UNCHANGED <<verdict, touch, liftAt>>
      BY <2>7 DEF Poll, Wait, fingerVars
    <3> QED
      BY <3>1 DEF VerdictIsOfThisTouch, Lifted
  <2> QED
    BY <2>3, <2>5, <2>6, <2>7 DEF ReleaseNext
<1>3. Inv => VerdictIsOfThisTouch
  OBVIOUS
<1> QED
  BY <1>1, <1>2, <1>3, RingInvariant, PTL DEF ReleaseSpec

-----------------------------------------------------------------------------
\* A movement of v in every unit of time.
Steady(h, v) ==
  \A i \in 2 .. Len(h) : /\ h[i].ts = h[i - 1].ts + 1
                         /\ h[i].x = h[i - 1].x + v

Size(v) == IF v < 0 THEN -v ELSE v

LEMMA SampleTypes ==
  ASSUME NEW s \in Sample
  PROVE  s.ts \in Int /\ s.x \in Int
<1>1. Positions \subseteq Int /\ Times \subseteq Int
  BY RingAssumption DEF RingAssumption
<1>2. s.ts \in Times /\ s.x \in Positions
  BY DEF Sample
<1> QED
  BY <1>1, <1>2

LEMMA SteadySample ==
  ASSUME NEW h \in Seq(Sample), NEW v \in Int, Steady(h, v), NEW n \in 1 .. Len(h)
  PROVE  h[n].ts = h[1].ts + (n - 1) /\ h[n].x = h[1].x + v * (n - 1)
<1> DEFINE S == {k \in Nat : k + 1 <= Len(h) => /\ h[k + 1].ts = h[1].ts + k
                                                /\ h[k + 1].x = h[1].x + v * k}
<1>1. h[1].ts \in Int /\ h[1].x \in Int
  <2>1. h[1] \in Sample
    OBVIOUS
  <2> QED
    BY <2>1, SampleTypes
<1>2. 0 \in S
  BY <1>1
<1>3. ASSUME NEW k \in Nat, k \in S
      PROVE  k + 1 \in S
  <2> SUFFICES ASSUME k + 2 <= Len(h)
               PROVE  /\ h[k + 2].ts = h[1].ts + (k + 1)
                      /\ h[k + 2].x = h[1].x + v * (k + 1)
    OBVIOUS
  <2>1. h[k + 1].ts = h[1].ts + k /\ h[k + 1].x = h[1].x + v * k
    BY <1>3
  <2>2. k + 2 \in 2 .. Len(h) /\ (k + 2) - 1 = k + 1
    OBVIOUS
  <2>3. h[k + 2].ts = h[k + 1].ts + 1 /\ h[k + 2].x = h[k + 1].x + v
    BY <2>2 DEF Steady
  <2>4. v * (k + 1) = v * k + v /\ v * k \in Int
    OBVIOUS
  <2> DEFINE vk == v * k
  <2>5. v * (k + 1) = vk + v /\ vk \in Int
    BY <2>4
  <2>6. h[k + 1].x = h[1].x + vk
    BY <2>1
  <2> HIDE DEF vk
  <2>7. h[k + 2].x = h[1].x + (vk + v)
    BY <1>1, <2>3, <2>5, <2>6
  <2>8. h[k + 2].ts = h[1].ts + (k + 1)
    <3>1. h[k + 1].ts = h[1].ts + k
      BY <2>1
    <3>2. h[k + 2].ts = (h[1].ts + k) + 1
      BY <2>3, <3>1
    <3> QED
      BY <1>1, <3>2
  <2> QED
    BY <2>5, <2>7, <2>8
<1> HIDE DEF S
<1>4. n - 1 \in S /\ (n - 1) + 1 = n
  BY <1>2, <1>3, Induction
<1> QED
  BY <1>4 DEF S

LEMMA SteadyGap ==
  ASSUME NEW h \in Seq(Sample), NEW v \in Int, Steady(h, v),
         NEW i \in 1 .. (Len(h) - 1)
  PROVE  Gap(h[i], h[i + 1]) = Size(v)
<1>1. h[i] \in Sample
  OBVIOUS
<1>2. h[i].x \in Int
  BY <1>1, SampleTypes
<1>3. i + 1 \in 2 .. Len(h) /\ (i + 1) - 1 = i
  OBVIOUS
<1>4. h[i + 1].x = h[i].x + v
  BY <1>3 DEF Steady
<1> QED
  BY <1>2, <1>4 DEF Gap, Size

\* Every piece of a steady movement has its speed.
LEMMA SteadyPiece ==
  ASSUME NEW h \in Seq(Sample), NEW v \in Int, Steady(h, v),
         NEW a \in 1 .. Len(h), NEW b \in a .. Len(h)
  PROVE  LET piece == SubSeq(h, a, b) IN
         /\ piece[Len(piece)] = h[b]
         /\ Summary(piece) = [dx       |-> v * (b - a),
                              duration |-> b - a,
                              path     |-> Size(v) * (b - a)]
<1> DEFINE g == SubSeq(h, a, b)
           steps == [i \in 1 .. (Len(g) - 1) |-> Gap(g[i], g[i + 1])]
<1>1. a \in Nat /\ b \in Nat /\ 1 <= a /\ a <= b /\ b <= Len(h) /\ Len(h) \in Nat
  OBVIOUS
<1>2. Len(g) = b - a + 1 /\ \A i \in 1 .. (b - a + 1) : g[i] = h[a + i - 1]
  <2>1. \A i \in a .. b : h[i] \in Sample
    BY <1>1
  <2> QED
    BY <1>1, <2>1, SubSeqProperties
<1> HIDE DEF g
<1>3. g[1] = h[a] /\ g[Len(g)] = h[b]
  <2>1. /\ 1 \in 1 .. (b - a + 1) /\ a + 1 - 1 = a
        /\ b - a + 1 \in 1 .. (b - a + 1) /\ a + (b - a + 1) - 1 = b
    BY <1>1
  <2> QED
    BY <1>2, <2>1
<1>4. Len(g) - 1 = b - a /\ b - a \in Nat
  BY <1>1, <1>2
<1>5. ASSUME NEW i \in 1 .. (b - a)
      PROVE  steps[i] = Size(v)
  <2>1. /\ i \in 1 .. (b - a + 1) /\ i + 1 \in 1 .. (b - a + 1)
        /\ a + (i + 1) - 1 = (a + i - 1) + 1
        /\ a + i - 1 \in 1 .. (Len(h) - 1)
    BY <1>1
  <2>2. g[i] = h[a + i - 1] /\ g[i + 1] = h[(a + i - 1) + 1]
    BY <1>2, <2>1
  <2>3. Gap(h[a + i - 1], h[(a + i - 1) + 1]) = Size(v)
    BY <2>1, SteadyGap
  <2> QED
    BY <1>4, <2>2, <2>3
<1> HIDE DEF steps
<1>6. PathOf(g) = Size(v) * (b - a)
  <2>1. PathOf(g) = Total(steps, b - a)
    BY <1>4 DEF PathOf, steps
  <2>2. Size(v) \in Int
    BY DEF Size
  <2> QED
    BY <1>4, <1>5, <2>1, <2>2, TotalOfEqual
<1>7. h[b].ts - h[a].ts = b - a /\ h[b].x - h[a].x = v * (b - a)
  <2>1. h[1].ts \in Int /\ h[1].x \in Int
    <3>1. h[1] \in Sample
      BY <1>1
    <3> QED
      BY <3>1, SampleTypes
  <2>2. b \in 1 .. Len(h)
    BY <1>1
  <2>3. /\ h[a].ts = h[1].ts + (a - 1) /\ h[a].x = h[1].x + v * (a - 1)
        /\ h[b].ts = h[1].ts + (b - 1) /\ h[b].x = h[1].x + v * (b - 1)
    BY <2>2, SteadySample
  <2>4. v * (b - 1) - v * (a - 1) = v * (b - a)
        /\ v * (b - 1) \in Int /\ v * (a - 1) \in Int
    BY <1>1
  <2> DEFINE va == v * (a - 1)
             vb == v * (b - 1)
  <2>5. h[a].x = h[1].x + va /\ h[b].x = h[1].x + vb /\ vb - va = v * (b - a)
        /\ va \in Int /\ vb \in Int
    BY <2>3, <2>4
  <2> HIDE DEF va, vb
  <2>6. h[b].x - h[a].x = v * (b - a)
    BY <2>1, <2>5
  <2>7. h[b].ts - h[a].ts = b - a
    <3>1. h[a].ts = h[1].ts + (a - 1) /\ h[b].ts = h[1].ts + (b - 1)
      BY <2>3
    <3> QED
      BY <1>1, <2>1, <3>1
  <2> QED
    BY <2>6, <2>7
<1>8. Summary(g) = [dx |-> v * (b - a), duration |-> b - a,
                    path |-> Size(v) * (b - a)]
  BY <1>3, <1>6, <1>7 DEF Summary
<1> QED
  BY <1>3, <1>8 DEF g

\* Two pieces of one speed of 2 * MinVelocity or more are not a movement and
\* its slow tail.
LEMMA SameSpeedIsNotSlow ==
  ASSUME NEW s \in Nat, s >= 2 * MinVelocity, NEW t \in Nat \ {0},
         NEW p \in Nat \ {0}, NEW tail, NEW previous,
         tail.path = s * t, tail.duration = t,
         previous.path = s * p, previous.duration = p
  PROVE  ~TailIsSlow(tail, previous)
<1>0. MinVelocity \in Nat
  BY ReleaseAssumption DEF ReleaseAssumption
<1>1. PathSpeed(tail) = <<s * t, t>> /\ PathSpeed(previous) = <<s * p, p>>
  BY DEF PathSpeed
<1>2. ~Less(<<s * t, t>>, Times9By20(<<s * p, p>>))
  <2>1. (s * t) * (20 * p) = 20 * ((s * t) * p)
    OBVIOUS
  <2>2. (9 * (s * p)) * t = 9 * ((s * t) * p)
    OBVIOUS
  <2>3. (s * t) * p \in Nat
    OBVIOUS
  <2>4. ~((s * t) * (20 * p) < (9 * (s * p)) * t)
    BY <2>1, <2>2, <2>3
  <2> QED
    BY <2>4 DEF Less, Times9By20
<1>3. ~Less(<<s * t, t>>, <<2 * MinVelocity, 1>>)
  <2>1. (2 * MinVelocity) * t <= s * t
    <3>1. s - 2 * MinVelocity \in Nat
      BY <1>0
    <3>2. (s - 2 * MinVelocity) * t \in Nat
      BY <3>1
    <3>3. (s - 2 * MinVelocity) * t = s * t - (2 * MinVelocity) * t
      BY <1>0
    <3>4. s * t \in Int /\ (2 * MinVelocity) * t \in Int
      BY <1>0
    <3> QED
      BY <3>2, <3>3, <3>4
  <2>2. (s * t) * 1 = s * t /\ s * t \in Int /\ (2 * MinVelocity) * t \in Int
    BY <1>0
  <2>3. ~((s * t) * 1 < (2 * MinVelocity) * t)
    BY <2>1, <2>2
  <2> QED
    BY <2>3 DEF Less
<1> QED
  BY <1>1, <1>2, <1>3 DEF TailIsSlow, Faster

\* A steady movement is used as it is, none of it taken for a slow tail.
LEMMA SteadyQualifies ==
  ASSUME NEW h \in Seq(Sample), Len(h) >= 2,
         NEW v \in Int, Steady(h, v),
         v >= 2 * MinVelocity \/ -v >= 2 * MinVelocity,
         NEW at \in Int, at - h[1].ts >= MinTouch, PathOf(h) >= MinDistance,
         at - h[Len(h)].ts <= Stale
  PROVE  Qualifies(h, at)
<1> DEFINE n == Len(h)
           first == IF VelocityWindow < n THEN n - VelocityWindow + 1 ELSE 1
           used == SubSeq(h, first, n)
           tail == LastOf(h, LiftTail)
           before == SubSeq(h, 1, n - LiftTail)
           previous == LastOf(before, VelocityWindow)
<1>1. /\ n \in Nat /\ n >= 2 /\ MinVelocity \in Nat
      /\ VelocityWindow \in Nat /\ VelocityWindow >= 2
      /\ LiftTail \in Nat /\ LiftTail >= 2
  BY ReleaseAssumption DEF ReleaseAssumption
<1>2. Size(v) \in Nat /\ Size(v) >= 2 * MinVelocity
  BY <1>1 DEF Size
<1>3. n >= VelocityWindow + LiftTail => ~TailIsSlow(Summary(tail), Summary(previous))
  <2> SUFFICES ASSUME n >= VelocityWindow + LiftTail
               PROVE  ~TailIsSlow(Summary(tail), Summary(previous))
    OBVIOUS
  <2> DEFINE m == n - LiftTail
             i == m - VelocityWindow + 1
  <2>1. /\ m \in Nat /\ m \in 1 .. n /\ i \in 1 .. m /\ m \in i .. m
        /\ i \in 1 .. n /\ m \in i .. n
        /\ m + 1 \in 1 .. n /\ n \in (m + 1) .. n
        /\ n - (m + 1) = LiftTail - 1 /\ m - i = VelocityWindow - 1
        /\ VelocityWindow <= m /\ LiftTail < n /\ n - LiftTail + 1 = m + 1
    BY <1>1
  <2>2. tail = SubSeq(h, m + 1, n)
    BY <2>1 DEF LastOf
  <2>3. previous = SubSeq(h, i, m)
    <3>1. VelocityWindow \in 1 .. m
      BY <1>1, <2>1
    <3> HIDE DEF m
    <3> QED
      BY <2>1, <3>1, LastOfPrefix DEF n, m
  <2>4. Summary(tail).path = Size(v) * (LiftTail - 1)
        /\ Summary(tail).duration = LiftTail - 1
    <3> HIDE DEF tail, m, n, i
    <3>1. Summary(SubSeq(h, m + 1, n)) = [dx |-> v * (n - (m + 1)),
             duration |-> n - (m + 1), path |-> Size(v) * (n - (m + 1))]
      BY <2>1, SteadyPiece DEF n
    <3> QED
      BY <2>1, <2>2, <3>1
  <2>5. Summary(previous).path = Size(v) * (VelocityWindow - 1)
        /\ Summary(previous).duration = VelocityWindow - 1
    <3> HIDE DEF previous, m, n, i
    <3>1. Summary(SubSeq(h, i, m)) = [dx |-> v * (m - i),
             duration |-> m - i, path |-> Size(v) * (m - i)]
      BY <2>1, SteadyPiece DEF n
    <3> QED
      BY <2>1, <2>3, <3>1
  <2>6. LiftTail - 1 \in Nat \ {0} /\ VelocityWindow - 1 \in Nat \ {0}
    BY <1>1
  <2> HIDE DEF tail, previous
  <2> QED
    BY <1>2, <2>4, <2>5, <2>6, SameSpeedIsNotSlow
<1>4. UsedSamples(h) = used
  <2>1. UsedSamples(h) = LastOf(h, VelocityWindow)
    BY <1>3 DEF UsedSamples
  <2>2. SubSeq(h, 1, n) = h
    BY WholeIsPiece
  <2> QED
    BY <1>1, <2>1, <2>2 DEF LastOf
<1>5. first \in 1 .. n /\ n \in first .. n /\ n - first \in Nat \ {0}
  BY <1>1
<1>6. used[Len(used)] = h[n] /\ Summary(used).dx = v * (n - first)
      /\ Summary(used).duration = n - first
  <2> HIDE DEF first, n
  <2>1. LET piece == SubSeq(h, first, n) IN
        /\ piece[Len(piece)] = h[n]
        /\ Summary(piece) = [dx |-> v * (n - first), duration |-> n - first,
                             path |-> Size(v) * (n - first)]
    BY <1>5, SteadyPiece DEF n
  <2> QED
    BY <2>1
<1> HIDE DEF first, used
<1>7. \/ v * (n - first) >= MinVelocity * (n - first)
      \/ -(v * (n - first)) >= MinVelocity * (n - first)
  <2> DEFINE d == n - first
  <2>1. d \in Nat
    BY <1>5
  <2> HIDE DEF d
  <2>2. CASE v >= 2 * MinVelocity
    <3>1. v - MinVelocity \in Nat
      BY <1>1, <2>2
    <3>2. (v - MinVelocity) * d \in Nat
      BY <2>1, <3>1
    <3>3. (v - MinVelocity) * d = v * d - MinVelocity * d
      BY <1>1, <2>1
    <3>4. v * d \in Int /\ MinVelocity * d \in Int
      BY <1>1, <2>1
    <3>5. v * d >= MinVelocity * d
      BY <3>2, <3>3, <3>4
    <3> QED
      BY <3>5 DEF d
  <2>3. CASE -v >= 2 * MinVelocity
    <3>1. -v - MinVelocity \in Nat
      BY <1>1, <2>3
    <3>2. (-v - MinVelocity) * d \in Nat
      BY <2>1, <3>1
    <3>3. (-v - MinVelocity) * d = -(v * d) - MinVelocity * d
      BY <1>1, <2>1
    <3>4. v * d \in Int /\ MinVelocity * d \in Int
      BY <1>1, <2>1
    <3>5. -(v * d) >= MinVelocity * d
      BY <3>2, <3>3, <3>4
    <3> QED
      BY <3>5 DEF d
  <2> QED
    BY <2>2, <2>3
<1>8. Summary(used).duration > 0
  BY <1>5, <1>6
<1> QED
  BY <1>4, <1>6, <1>7, <1>8 DEF Qualifies

\* A steady movement that is fast and long enough and ends at the lift starts
\* inertia, however many samples it has and whatever the ring keeps of them
\* (touchpad.rs:189-226, 782-794).
THEOREM SteadyStarts == ReleaseSpec => []SteadyMotionStarts
<1> DEFINE Inv == Newest /\ Rested /\ liftAt \in Nat
<1>1. ReleaseInit => Inv
  BY DEF ReleaseInit, Newest, Rested
<1>2. RingInv /\ RingInv' /\ Inv /\ [ReleaseNext]_<<ringVars, fingerVars>> => Inv'
  <2> SUFFICES ASSUME RingInv, RingInv', Inv,
                      [ReleaseNext]_<<ringVars, fingerVars>>
               PROVE  Inv'
    OBVIOUS
  <2>1. Newest' /\ Rested'
    BY RestSteps
  <2>2. liftAt' = liftAt \/ liftAt' = clock
    BY DEF ReleaseNext, Land, MoveFinger, ReportLanding, Report, Lift, Poll, Wait,
           fingerVars
  <2>3. clock \in Nat
    BY ReleaseAssumption DEF ReleaseAssumption, RingInv, FingerOK
  <2> QED
    BY <2>1, <2>2, <2>3
<1>3. Inv /\ VerdictIsOfThisTouch => SteadyMotionStarts
  <2> SUFFICES ASSUME Inv, VerdictIsOfThisTouch,
                      Lifted, Len(touch) >= 2,
                      NEW v, v = touch[2].x - touch[1].x,
                      v >= 2 * MinVelocity \/ -v >= 2 * MinVelocity,
                      Steady(touch, v),
                      liftAt - touch[1].ts >= MinTouch,
                      PathOf(touch) >= MinDistance,
                      liftAt - touch[Len(touch)].ts <= Stale
               PROVE  verdict = "start"
    BY DEF SteadyMotionStarts, Steady
  <2>1. touch \in Seq(Sample) /\ touch[1] \in Sample /\ touch[2] \in Sample
    BY DEF Newest
  <2>2. v \in Int /\ liftAt \in Int
    BY <2>1, SampleTypes
  <2>3. Qualifies(touch, liftAt)
    BY <2>1, <2>2, SteadyQualifies
  <2> QED
    BY <2>3 DEF VerdictIsOfThisTouch
<1> QED
  BY <1>1, <1>2, <1>3, OwnTouchDecides, RingInvariant, PTL DEF ReleaseSpec

=============================================================================
