----------------------------- MODULE MCTerminal -----------------------------
(* Instances of Terminal for TLC. *)
EXTENDS Terminal, TLC

Symmetry == Permutations(Shells) \cup Permutations(Calls)
=============================================================================
