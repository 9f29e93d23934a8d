\* One article per page, two per batch; the listing may change, a page request or
\* a statement may fail, a dispatch may fail as a whole and the context may be
\* cancelled.
SPECIFICATION FairSpec
CONSTANTS
  a1 = a1
  a2 = a2
  a3 = a3
  Articles <- MCArticles
  Convertible <- MCConvertible
  Listing <- MCListing
  PageSize = 1
  MaxPagesPerCycle = 3
  BatchSize = 2
  DispatchConcurrency = 2
  RateLimitThreshold = 1
  RunnerErrors = {"plain", "limited"}
  Cancellable = TRUE
  MaxShifts = 1
  MaxFaults = 1
INVARIANTS
  CycleAccounting
  ThrottleFollowsFreshLimits
  ExtractedByOneItem
PROPERTIES
  ListedGetsAttempted
  StopsWhenCanceled
