------------------------------ MODULE MCBridge ------------------------------
(***************************************************************************)
(* Instances of Bridge for TLC.  A stream has two connections, as when a   *)
(* peer reconnects before its old connection is reported closed.           *)
(***************************************************************************)
EXTENDS Bridge, TLC

CONSTANTS s1, s2, u1, u2, u3

\* Identity: u3 has no SDK label, and its endpoint signs with either name.
IdentityLabels == u1 :> {s1} @@ u2 :> {s2} @@ u3 :> {}
IdentityClaims == u1 :> {s1} @@ u2 :> {s2} @@ u3 :> {s1, s2}

\* Queueing: two connections of one stream, labelled and signed alike.
QueueLabels == u1 :> {s1} @@ u2 :> {s1}
=============================================================================
