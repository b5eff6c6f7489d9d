---------------------------- MODULE MCProxmoxTask ----------------------------
(* Instances of ProxmoxTask for TLC. *)
EXTENDS ProxmoxTask, TLC

Symmetry == Permutations(Ops)

\* A bound: a state in which a fault has occurred and operations were mixed is
\* checked, what comes after it is not.
OneTrouble == ~(mixed /\ faults > 0)
=============================================================================
