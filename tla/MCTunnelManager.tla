-------------------------- MODULE MCTunnelManager --------------------------
(* TunnelManager for TLC. *)
EXTENDS TunnelManager, TLC

\* Domains, connections and gateway goroutines are interchangeable.
Symmetry == Permutations(Domain) \cup Permutations(Conn) \cup Permutations(Stream)
=============================================================================
