\* One worker and two jobs, so that one waits; a kill and a write that fails.
CONSTANTS
  Jobs = {j1, j2}
  MaxWorkers = 1
  MaxPlan = 2
  MaxCrashes = 1
  MaxFaults = 1
SPECIFICATION FairSpec
INVARIANTS
  TypeOK
  CommandsAreAnnounced
  RowAgreesWithAudit
PROPERTIES
  StopsAtTheFirstFailure
  LedgerSpec
  EveryJobEnds
CHECK_DEADLOCK FALSE
