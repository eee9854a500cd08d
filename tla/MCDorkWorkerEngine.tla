-------------------------- MODULE MCDorkWorkerEngine --------------------------
(* Small instances of DorkWorkerEngine for TLC. The constants are model      *)
(* values; the runs with a liveness property use no symmetry.                *)
EXTENDS DorkWorkerEngine, TLC

\* Leases and request identities are interchangeable.
Symmetry == Permutations(Leases) \cup Permutations(RequestIds)

=============================================================================
