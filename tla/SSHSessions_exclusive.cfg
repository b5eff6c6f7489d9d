\* Two profiles; the callers never overlap two _connect of one profile.
CONSTANTS
  Profiles = {p1, p2}
  Conns = {c1, c2}
  Terminals = {x1}
  Listeners = {l1, l2}
  Tasks = {t1, t2, t3}
  None = None
  ExclusiveConnect = TRUE
  LateListener = FALSE
SPECIFICATION Spec
SYMMETRY Symmetry
INVARIANTS
  TypeOK
  NoOrphanConnection
  DisconnectedMeansClosed
