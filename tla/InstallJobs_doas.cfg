\* A VM with doas and no sudo, an account that is not root.
CONSTANTS
  Jobs = {j1}
  MaxWorkers = 2
  MaxPlan = 1
  MaxCrashes = 0
  MaxFaults = 0
SPECIFICATION Spec
INVARIANT DoasIsManual
CHECK_DEADLOCK FALSE
