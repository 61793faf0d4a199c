----------------------------- MODULE MCAgentRelay -----------------------------
(***************************************************************************)
(* AgentRelay for TLC.                                                     *)
(***************************************************************************)
EXTENDS AgentRelay, TLC

Symmetry == Permutations(Clients)
=============================================================================
