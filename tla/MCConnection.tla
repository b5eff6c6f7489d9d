---------------------------- MODULE MCConnection ----------------------------
(* Instances of Connection for TLC. *)
EXTENDS Connection, TLC

Symmetry == Permutations(Calls) \cup Permutations(Hosts) \cup Permutations(Keys)
=============================================================================
