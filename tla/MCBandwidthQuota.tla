-------------------------- MODULE MCBandwidthQuota --------------------------
(* BandwidthQuota for TLC. *)
EXTENDS BandwidthQuota, TLC

\* Domains, connections and payments are interchangeable.
Symmetry == Permutations(Domain) \cup Permutations(Conn) \cup Permutations(Topup)
=============================================================================
