--------------------------- MODULE MotionHistory ----------------------------
(***************************************************************************)
(* What the listener wants of its memory of a touch: the latest samples,   *)
(* oldest first and at most Capacity of them, and what has accumulated     *)
(* since the touch began, forgotten samples included.                      *)
(***************************************************************************)
EXTENDS Integers, Sequences

CONSTANTS
  Positions,   \* coordinates of the pad; one axis stands for both
  Times,       \* time stamps
  Capacity     \* how many samples are remembered

VARIABLES
  recent,      \* the latest samples, oldest first
  travelled,   \* length of the path through all samples of the touch
  taken        \* number of samples of the touch

historyVars == <<recent, travelled, taken>>

Sample == [x : Positions, ts : Times]

\* Length of one step of the path.
Gap(a, b) == IF a.x <= b.x THEN b.x - a.x ELSE a.x - b.x

HistoryInit ==
  /\ recent = <<>>
  /\ travelled = 0
  /\ taken = 0

Begin(s) ==
  /\ recent' = <<s>>
  /\ travelled' = 0
  /\ taken' = 1

Remember(s) ==
  /\ recent' = IF Len(recent) < Capacity THEN Append(recent, s)
                                         ELSE Append(Tail(recent), s)
  /\ travelled' = IF recent = <<>> THEN travelled
                  ELSE travelled + Gap(recent[Len(recent)], s)
  /\ taken' = taken + 1

\* Every step is about a sample, which is the latest one after it.
Latest == recent[Len(recent)]

HistoryNext ==
  /\ recent' # <<>> /\ Latest' \in Sample
  /\ Begin(Latest') \/ Remember(Latest')

HistorySpec == HistoryInit /\ [][HistoryNext]_historyVars

=============================================================================
