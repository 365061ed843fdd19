------------------------------ MODULE Channels ------------------------------
(***************************************************************************)
(* The two mpsc channels that main() creates and hands to the threads      *)
(* (src/main.rs).                                                          *)
(*                                                                         *)
(*   chan     MomentumMessage: listener, confirm timers and button thread  *)
(*            to the engine;                                               *)
(*   status   EngineStatus: engine to the listener;                        *)
(*   senders  how many clones of the message Sender are alive.  A channel  *)
(*            disconnects when the last clone is dropped;                  *)
(*   statusOpen  the listener still owns the status Receiver.              *)
(*                                                                         *)
(* A channel is an unbounded FIFO queue.  Payloads (velocities, motion     *)
(* deltas) do not steer any control decision of the receiver, so a message *)
(* is its variant.                                                         *)
(***************************************************************************)
EXTENDS Naturals, Sequences

VARIABLES chan, status, senders, statusOpen

channelVars == <<chan, status, senders, statusOpen>>

MomentumMessage == {"StartPointer", "ContinuePointer", "Stop"}
EngineStatus    == {"PointerActive", "PointerIdle"}

ChannelsTypeOK ==
  /\ chan       \in Seq(MomentumMessage)
  /\ status     \in Seq(EngineStatus)
  /\ senders    \in Nat
  /\ statusOpen \in BOOLEAN

\* Mutant of ChannelsInit: main() clones tx for the listener and keeps its own.
ChannelsInitKeepingOne(threads) ==
  /\ chan       = <<>>
  /\ status     = <<>>
  /\ senders    = threads + 1
  /\ statusOpen = TRUE

\* main() keeps no Sender: `tx` moves into the listener and one clone goes to
\* the button thread when there is one.
ChannelsInit(threads) ==
  /\ chan       = <<>>
  /\ status     = <<>>
  /\ senders    = threads
  /\ statusOpen = TRUE

\* tx.send(m); its result is ignored everywhere.
Send(m) == chan' = Append(chan, m)

\* send_status: the error of a send to a dropped Receiver is ignored.
SendStatus(s) == status' = IF statusOpen THEN Append(status, s) ELSE status

=============================================================================
