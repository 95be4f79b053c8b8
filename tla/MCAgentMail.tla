----------------------------- MODULE MCAgentMail -----------------------------
(***************************************************************************)
(* Instances of AgentMail for TLC.                                         *)
(***************************************************************************)
EXTENDS AgentMail, TLC

CONSTANTS ra, rb
=============================================================================
