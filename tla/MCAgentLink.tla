---------------------------- MODULE MCAgentLink ----------------------------
(***************************************************************************)
(* Instances of AgentLink for TLC.                                         *)
(***************************************************************************)
EXTENDS AgentLink
=============================================================================
