--------------------------- MODULE MCCoexistence ---------------------------
(* Finite instances of Coexistence for TLC. *)
EXTENDS Coexistence, TLC

\* Goroutine slots and core identities are interchangeable.
CoSymmetry == Permutations(Workers) \cup Permutations(ProxyCores) \cup Permutations(FwdCores)
=============================================================================
