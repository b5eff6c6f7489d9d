\* Two shells, three requests: one is handled or answered while another terminal is open.
CONSTANTS
  Shells = {x1, x2}
  Calls = {c1, c2, c3}
  None = None
  MaxBuffer = 1
  MaxPieces = 1
  MaxKeys = 0
  MaxFaults = 1
SPECIFICATION Spec
SYMMETRY Symmetry
INVARIANTS
  ShownOnce
  
  EveryShellIsHeld
