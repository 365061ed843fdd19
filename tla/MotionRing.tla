----------------------------- MODULE MotionRing -----------------------------
(***************************************************************************)
(* MotionRing (src/touchpad.rs): the ring buffer in which the listener     *)
(* keeps the latest samples of a touch.  clear() resets the counters and   *)
(* leaves the slots as they are, so a wrong index reads a sample of an     *)
(* earlier touch.  A sample has one coordinate; the length of a step is    *)
(* then a difference where the code takes a square root.                   *)
(***************************************************************************)
EXTENDS Integers, Sequences

CONSTANTS
  RingSize,    \* RING_SIZE
  Positions,   \* values of ABS_X / ABS_Y
  Times        \* time stamps

ASSUME RingAssumption ==
  /\ RingSize \in Nat \ {0}
  /\ Positions \subseteq Int
  /\ 0 \in Positions
  /\ Times \subseteq Nat
  /\ 0 \in Times

VARIABLES buf, pos, count, totalCount, totalDistance

ringVars == <<buf, pos, count, totalCount, totalDistance>>

Sample == [x : Positions, ts : Times]
Slots  == 0 .. (RingSize - 1)

RingTypeOK ==
  /\ buf \in [Slots -> Sample]
  /\ pos \in Slots
  /\ count \in 0 .. RingSize
  /\ totalCount \in Nat
  /\ totalDistance \in Nat

RingInit ==
  /\ buf = [i \in Slots |-> [x |-> 0, ts |-> 0]]
  /\ pos = 0
  /\ count = 0
  /\ totalCount = 0
  /\ totalDistance = 0

\* Mutant of NthOldest: the start is not moved round the end of the ring.
NthOldestUnwrapped(n) ==
  LET start == IF pos >= count THEN pos - count ELSE 0
  IN  buf[(start + n) % RingSize]

NthOldest(n) ==
  LET start == IF pos >= count THEN pos - count ELSE RingSize - (count - pos)
  IN  buf[(start + n) % RingSize]

Gap(a, b) == IF a.x <= b.x THEN b.x - a.x ELSE a.x - b.x

\* clear(), which is only ever followed by a push()
Begin(x, ts) ==
  /\ buf' = [buf EXCEPT ![0] = [x |-> x, ts |-> ts]]
  /\ pos' = 1 % RingSize
  /\ count' = 1
  /\ totalCount' = 1
  /\ totalDistance' = 0

Push(x, ts) ==
  LET s == [x |-> x, ts |-> ts] IN
  /\ totalDistance' = totalDistance +
                        (IF count > 0 THEN Gap(NthOldest(count - 1), s) ELSE 0)
  /\ buf' = [buf EXCEPT ![pos] = s]
  /\ pos' = (pos + 1) % RingSize
  /\ totalCount' = totalCount + 1
  /\ count' = IF count < RingSize THEN count + 1 ELSE count

-----------------------------------------------------------------------------
\* The samples in the ring, oldest first.
Recent == [i \in 1 .. count |-> NthOldest(i - 1)]

History == INSTANCE MotionHistory
             WITH Capacity <- RingSize, recent <- Recent,
                  travelled <- totalDistance, taken <- totalCount

\* The ring is a bounded history: read through nth_oldest it holds the latest
\* samples of this touch in their order, whatever the slots held before and
\* wherever the write position is, and no distance of an earlier touch is left
\* in the total (touchpad.rs:95-120, 242-249).
IsHistory == History!HistorySpec

=============================================================================
