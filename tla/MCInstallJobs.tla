--------------------------- MODULE MCInstallJobs ---------------------------
(* Instances of InstallJobs for TLC. *)
EXTENDS InstallJobs, TLC

Symmetry == Permutations(Jobs)
=============================================================================
