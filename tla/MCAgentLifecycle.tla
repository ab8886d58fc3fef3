-------------------------- MODULE MCAgentLifecycle --------------------------
(* AgentLifecycle for TLC. *)
EXTENDS AgentLifecycle

=============================================================================
