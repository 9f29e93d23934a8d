\* Three extractions, four clock readings, two failed statements or restarts.
SPECIFICATION FairSpec
CONSTANTS
  Articles = {1, 2, 3}
  Keys = {"k1", "k2"}
  KeyOf <- TwoClusters
  MaxTime = 4
  MaxFailures = 2
INVARIANTS
  FoldedExactlyOnce
  CursorPassesOnlyClustered
  SeenBoundsExact
PROPERTIES
  ImplementsFoldOnce
  CursorNeverMovesBack
  ListedGetsClustered
