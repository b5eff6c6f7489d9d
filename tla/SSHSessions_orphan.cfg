\* Two overlapping _connect of one profile.
CONSTANTS
  Profiles = {p1}
  Conns = {c1, c2}
  Terminals = {x1}
  Listeners = {l1}
  Tasks = {t1, t2}
  None = None
  ExclusiveConnect = FALSE
  LateListener = FALSE
SPECIFICATION Spec
INVARIANT DisconnectedMeansClosed
