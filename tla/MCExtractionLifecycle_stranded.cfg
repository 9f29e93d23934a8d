\* A process that exits between the claim and the final statement of a call.
SPECIFICATION Spec
CONSTANTS
  Articles = {a1}
  Calls = {c1, c2}
  NoCall = NoCall
  Faults = {"crash"}
INVARIANTS
  PendingMeansInProgress
CHECK_DEADLOCK FALSE
