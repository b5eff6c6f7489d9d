----------------------------- MODULE MCWorkspace -----------------------------
(* Instances of Workspace for TLC. *)
EXTENDS Workspace, TLC

Symmetry == Permutations(Shells) \cup Permutations(Calls)

\* Once calls have overlapped and scripts raced, no property says any more, and
\* nothing undoes it: such a state is checked, what comes after it is not.
Telling == ~(overlapped /\ raced)
=============================================================================
