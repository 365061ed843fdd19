---------------------------- MODULE PointerBlock ----------------------------
(***************************************************************************)
(* PointerBlockDetector (src/x11_pointer.rs), which asks the X server      *)
(* where the cursor is, to notice that emitted movement has no effect; and *)
(* the X server with a screen of one dimension, as far as it matters here. *)
(***************************************************************************)
EXTENDS Integers

CONSTANTS
  Edge,           \* the cursor can be at 0 .. Edge
  BlockedLimit,   \* BLOCKED_SAMPLE_LIMIT
  ReconnectDelay, \* RECONNECT_DELAY
  MaxXChanges     \* bound: how often the X server goes away or comes back

ASSUME BlockAssumption ==
  /\ {Edge, BlockedLimit, ReconnectDelay} \subseteq Nat \ {0}
  /\ MaxXChanges \in Nat

VARIABLES
  cursor,         \* where the cursor is
  xUp,            \* the X server runs
  xChanges,       \* how often that has changed
  session,        \* session: "none", "live", or "broken" and not yet noticed
  attemptAge,     \* time since last_connect_attempt, up to ReconnectDelay
  lastPosition,   \* last_position
  pendingMotion,  \* pending_motion
  blockedSamples  \* blocked_samples

screenVars   == <<cursor, xUp, xChanges>>
detectorVars == <<session, attemptAge, lastPosition, pendingMotion,
                  blockedSamples>>

NoPosition == -1

BlockTypeOK ==
  /\ cursor \in 0 .. Edge
  /\ xUp \in BOOLEAN
  /\ xChanges \in Nat
  /\ session \in {"none", "live", "broken"}
  /\ attemptAge \in 0 .. ReconnectDelay
  /\ lastPosition \in {NoPosition} \cup 0 .. Edge
  /\ pendingMotion \in BOOLEAN
  /\ blockedSamples \in Nat

BlockInit ==
  /\ cursor \in 0 .. Edge
  /\ xUp \in BOOLEAN
  /\ xChanges = 0
  /\ session = "none"
  /\ attemptAge = ReconnectDelay   \* None: the first attempt is free
  /\ lastPosition = NoPosition
  /\ pendingMotion = FALSE
  /\ blockedSamples = 0

\* ensure_connected tries to connect only some time after the last attempt.
MayConnect == session = "none" /\ attemptAge >= ReconnectDelay

\* The session that a query leaves: a broken one is found out and dropped.
NextSession ==
  IF session = "live" \/ (MayConnect /\ xUp) THEN "live" ELSE "none"

\* query_position: the answer, and what it does to the session.
Answer == IF NextSession = "live" THEN cursor ELSE NoPosition
Query ==
  /\ session' = NextSession
  /\ attemptAge' = IF MayConnect THEN 0 ELSE attemptAge

\* Mutant of Reset: the glide starts without a position to compare with.
ResetWithoutPosition ==
  /\ pendingMotion' = FALSE
  /\ blockedSamples' = 0
  /\ lastPosition' = NoPosition
  /\ Query

Reset ==
  /\ pendingMotion' = FALSE
  /\ blockedSamples' = 0
  /\ lastPosition' = Answer
  /\ Query

\* Mutant of Observes: a tick without an emission is counted as well.
ObservesAlways == TRUE

\* pointer_is_blocked looks at the cursor only if something was emitted.
Observes == pendingMotion

SamplesNow ==
  IF Answer # NoPosition /\ lastPosition = Answer THEN blockedSamples + 1 ELSE 0

\* pointer_is_blocked: its result and its effect.
IsBlocked == Observes /\ Answer # NoPosition /\ SamplesNow >= BlockedLimit
Ask ==
  IF Observes
  THEN /\ pendingMotion' = FALSE
       /\ lastPosition' = Answer
       /\ blockedSamples' = SamplesNow
       /\ Query
  ELSE UNCHANGED detectorVars

\* The X server goes away, with every session, or comes back with its cursor
\* where it likes.
XServerChanges ==
  /\ xChanges < MaxXChanges
  /\ xChanges' = xChanges + 1
  /\ xUp' = ~xUp
  /\ session' = IF session = "live" THEN "broken" ELSE session
  /\ IF xUp THEN UNCHANGED cursor ELSE cursor' \in 0 .. Edge
  /\ UNCHANGED <<attemptAge, lastPosition, pendingMotion, blockedSamples>>

TimePasses ==
  /\ attemptAge < ReconnectDelay
  /\ attemptAge' = attemptAge + 1
  /\ UNCHANGED <<screenVars, session, lastPosition, pendingMotion, blockedSamples>>

=============================================================================
