------------------------------- MODULE Engine -------------------------------
(***************************************************************************)
(* run_engine (src/momentum.rs) as the other threads see it: which         *)
(* messages it takes, when it is moving the pointer on its own, and what   *)
(* it reports on the status channel.  A velocity is reduced to how many    *)
(* more ticks the speed can at most stay above POINTER_STOP_SPEED; a tick  *)
(* that comes late takes more than one of them away.  Momentum models the  *)
(* same function in detail and implements this module.                     *)
(***************************************************************************)
EXTENDS Channels

CONSTANT GlideTicks   \* most ticks until a fresh velocity has decayed

ASSUME EngineAssumption == GlideTicks \in Nat \ {0}

VARIABLES
  mode,     \* EngineState, or "Exited" after run_engine returned
  ticking,  \* recv_timeout has expired and its tick is being worked out
  glide     \* most ticks left until the speed is below the stop speed

engineVars == <<mode, ticking, glide>>

EngineTypeOK ==
  /\ mode \in {"Idle", "PointerMomentum", "Exited"}
  /\ ticking \in BOOLEAN
  /\ glide \in 0..GlideTicks

EngineInit ==
  /\ mode = "Idle"
  /\ ticking = FALSE
  /\ glide = 0

Receives(m) ==
  /\ mode # "Exited" /\ ~ticking
  /\ chan # <<>>
  /\ Head(chan) = m
  /\ chan' = Tail(chan)
  /\ UNCHANGED <<senders, statusOpen>>

\* Mutant of Settle: the listener is not told.
SettleSilently ==
  /\ mode' = "Idle"
  /\ ticking' = FALSE
  /\ glide' = 0
  /\ UNCHANGED status

\* Every way of leaving PointerMomentum: velocity zeroed, listener told.
Settle ==
  /\ mode' = "Idle"
  /\ ticking' = FALSE
  /\ glide' = 0
  /\ SendStatus("PointerIdle")

\* StartPointer starts or restarts the glide.
ReceiveStart ==
  /\ Receives("StartPointer")
  /\ mode' = "PointerMomentum"
  /\ glide' \in 1 .. GlideTicks
  /\ SendStatus("PointerActive")
  /\ UNCHANGED ticking

\* Mutant of ReceiveStop: acknowledges, and glides on.
ReceiveStopGliding ==
  /\ Receives("Stop")
  /\ SendStatus("PointerIdle")
  /\ UNCHANGED engineVars

\* Stop is acknowledged in both states.
ReceiveStop ==
  /\ Receives("Stop")
  /\ Settle

\* ContinuePointer moves the pointer by the finger's own motion; a glide
\* that is still running ends first.
ReceiveContinue ==
  /\ Receives("ContinuePointer")
  /\ IF mode = "PointerMomentum" THEN Settle
                                 ELSE UNCHANGED <<engineVars, status>>

\* recv_timeout expires: the queue was empty for a whole tick.  Messages sent
\* from here on wait until the tick has been worked out.
Timeout ==
  /\ mode = "PointerMomentum" /\ ~ticking
  /\ chan = <<>>
  /\ senders > 0
  /\ ticking' = TRUE
  /\ UNCHANGED <<mode, glide, channelVars>>

\* Mutant of GlideOn: the test for the stop speed is lost.
GlideOnForever ==
  /\ ticking
  /\ glide' = glide - 1
  /\ ticking' = FALSE
  /\ UNCHANGED <<mode, channelVars>>

\* the glide goes on and moves the pointer
GlideOn ==
  /\ ticking
  /\ glide' \in 1 .. (glide - 1)
  /\ ticking' = FALSE
  /\ UNCHANGED <<mode, channelVars>>

\* the pointer is blocked, the maximum duration is over, or the speed has
\* decayed
GlideEnds ==
  /\ ticking
  /\ Settle
  /\ UNCHANGED <<chan, senders, statusOpen>>

\* recv fails: every Sender is gone and the queue is empty
Disconnected ==
  /\ mode # "Exited" /\ ~ticking
  /\ chan = <<>>
  /\ senders = 0
  /\ mode' = "Exited"
  /\ UNCHANGED <<ticking, glide, channelVars>>

EngineStep ==
  \/ ReceiveStart \/ ReceiveStop \/ ReceiveContinue
  \/ Timeout \/ GlideOn \/ GlideEnds \/ Disconnected

=============================================================================
