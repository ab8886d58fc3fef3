-------------------------- MODULE MCTunnelSessions --------------------------
(* TunnelSessions for TLC. *)
EXTENDS TunnelSessions, TLC

\* Domains and connections are interchangeable.
Symmetry == Permutations(Domain) \cup Permutations(Conn)
=============================================================================
