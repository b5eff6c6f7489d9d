\* Two operations of the user, one fault, two polls at most.
CONSTANTS
  Ops = {o1, o2}
  Canceller = cancel
  None = None
  MaxPolls = 2
  MaxFaults = 1
SPECIFICATION Spec
SYMMETRY Symmetry
CONSTRAINT OneTrouble
INVARIANTS
  TypeOK
  DoneIsTrue
  ErrorsAreReal
  PanelIsHonest
  CancelHitsItsOwn
  AuditAgrees
  ListenersAreClosed
