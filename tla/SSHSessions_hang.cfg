\* A client stays connected to a forward while its session is disconnected.
CONSTANTS
  Profiles = {p1}
  Conns = {c1}
  Terminals = {x1}
  Listeners = {l1, l2}
  Tasks = {t1, t2}
  None = None
  ExclusiveConnect = TRUE
  LateListener = FALSE
SPECIFICATION LoopSpec
PROPERTY TeardownCompletes
