\* One profile; any calls overlap, as they do once a caller has timed out. The
\* clients of the forwards leave in the end.
CONSTANTS
  Profiles = {p1}
  Conns = {c1, c2}
  Terminals = {x1}
  Listeners = {l1, l2}
  Tasks = {t1, t2}
  None = None
  ExclusiveConnect = FALSE
  LateListener = TRUE
SPECIFICATION ClientsLeaveSpec
INVARIANTS
  TeardownIsExclusive
  OpenListenersAreReachable
  RunningShellsAreReachable
PROPERTIES
  SessionsNeverReturn
  TeardownCompletes
