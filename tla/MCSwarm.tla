------------------------------ MODULE MCSwarm ------------------------------
(***************************************************************************)
(* Instances of Swarm for TLC: one downloader with an honest and a corrupt *)
(* source; two downloaders whose only seed may leave.                      *)
(***************************************************************************)
EXTENDS Swarm, TLC

CONSTANTS a, b, s, t, c1, c2

SourcePairs == {{a, s}, {a, t}}
SourceKinds == {"loss", "slow", "silence", "close", "reconnect", "disk"}
LeavePairs  == {{a, b}, {a, s}, {b, s}}
LeaveKinds  == {"loss", "restart"}
=============================================================================
