----------------------------- MODULE MCHandoff -----------------------------
(***************************************************************************)
(* Instances of Handoff for TLC: a handoff h1 with one peer and two        *)
(* readers; then a handoff and two dms for one peer, queued in any order.  *)
(***************************************************************************)
EXTENDS Handoff, TLC

CONSTANTS h1, d1, d2, p1, ra, rb

AllToOne == [i \in Items |-> p1]
=============================================================================
