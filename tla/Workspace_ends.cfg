\* One thread and two calls: what an answered close has ended.
CONSTANTS
  Calls = {c1}
  Shells = {s1, s2}
  None = None
  MaxCalls = 2
  MaxSessions = 1
  MaxExits = 0
SPECIFICATION Spec
PROPERTIES
  ClosedMeansEnded
