---------------------------- MODULE EngineAlone -----------------------------
(***************************************************************************)
(* The engine with arbitrary peers: on one side what the daemon makes of   *)
(* it (Daemon implements this specification), on the other what the        *)
(* detailed engine of Momentum implements.                                 *)
(***************************************************************************)
EXTENDS Engine, EnginePeers

CONSTANT Threads   \* threads that start with a Sender

aloneVars == <<channelVars, engineVars>>

AloneInit == ChannelsInit(Threads) /\ EngineInit

AloneNext ==
  \/ EngineStep
  \/ PeerStep /\ UNCHANGED engineVars

AloneSpec == AloneInit /\ [][AloneNext]_aloneVars

=============================================================================
