---------------------------- MODULE EnginePeers -----------------------------
(***************************************************************************)
(* What the engine can expect of the other threads, whoever they are: any  *)
(* message at any time, reports read late or never, and Senders cloned and *)
(* dropped one by one, with or without the Receiver of the reports.        *)
(***************************************************************************)
EXTENDS Channels

PeerSends ==
  /\ senders > 0
  /\ \E m \in MomentumMessage : Send(m)
  /\ UNCHANGED <<status, senders, statusOpen>>

PeerReads ==
  /\ status # <<>>
  /\ status' = Tail(status)
  /\ UNCHANGED <<chan, senders, statusOpen>>

\* Only a thread that owns a Sender can give another thread a clone.
PeerSpawns ==
  /\ senders > 0
  /\ senders' = senders + 1
  /\ UNCHANGED <<chan, status, statusOpen>>

PeerLeaves ==
  /\ senders > 0
  /\ senders' = senders - 1
  /\ statusOpen' \in {statusOpen, FALSE}
  /\ UNCHANGED <<chan, status>>

PeerStep == PeerSends \/ PeerReads \/ PeerSpawns \/ PeerLeaves

=============================================================================
