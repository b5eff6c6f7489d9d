\* Two threads and three calls; connections, losses and restarts of the program.
CONSTANTS
  Calls = {c1, c2}
  Shells = {s1, s2}
  None = None
  MaxCalls = 3
  MaxSessions = 3
  MaxExits = 1
SPECIFICATION Spec
SYMMETRY Symmetry
CONSTRAINT Telling
INVARIANTS
  TypeOK
  OneInstance
  InstanceIsKnown
  StoredForwardServes
  ListenersAreAccounted
PROPERTIES
  ClosedMeansStopped
