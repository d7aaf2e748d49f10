----------------------------- MODULE MCSysProxy -----------------------------
(* Finite instances of SysProxy for TLC. *)
EXTENDS SysProxy, TLC

\* Nothing chooses one rule list, or one port of the system's, rather than another.
SSymmetry == Permutations(Rules) \cup Permutations(Ephemeral)
=============================================================================
