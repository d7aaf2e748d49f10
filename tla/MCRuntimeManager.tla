-------------------------- MODULE MCRuntimeManager --------------------------
(* Finite instances of RuntimeManager for TLC. *)
EXTENDS RuntimeManager, TLC

\* Goroutine slots and core identities are interchangeable.
Symmetry == Permutations(Workers) \cup Permutations(ProxyCores) \cup Permutations(FwdCores)

=============================================================================
