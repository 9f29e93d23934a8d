\* Two extractions finish in one order and commit in the other; no failures.
SPECIFICATION Spec
CONSTANTS
  Articles = {1, 2, 3}
  Keys = {"k1", "k2"}
  KeyOf <- TwoClusters
  MaxTime = 3
  MaxFailures = 0
INVARIANTS
  NewResultsAreClustered
