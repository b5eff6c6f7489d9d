--------------------------- MODULE MCSSHSessions ---------------------------
(* Instances of SSHSessions for TLC, and the bugs its properties rule out. *)
EXTENDS SSHSessions, TLC

Symmetry == Permutations(Profiles) \cup Permutations(Conns)
              \cup Permutations(Terminals) \cup Permutations(Listeners)
              \cup Permutations(Tasks)
=============================================================================
