\* Texts are cut beyond 12 characters (15000 in the code) with sentence ends in
\* reach of 2 (200), a fragment needs 2 words (5).  Steps of 50 ms: initial delay
\* 250 ms, cap 1.2 s so that it is reached, four attempts.  300 s stands for a
\* Retry-After that wraps around to a negative wait, 410 s for one that wraps around
\* to a short one, and 5000 for a time in the body that no duration holds.
SPECIFICATION FairRunSpec
CONSTANTS
  MaxTotalChars = 12
  HeadTailJoiner <- Ellipsis
  SentenceCutTolerance = 2
  MinWords = 2
  SymbolPercent = 50
  Articles <- MCArticles
  retryInitialDelay = 5
  retryMaxDelay = 23
  retryMaxAttempts = 4
  Second = 20
  DurationLimit = 4096
  NamedSeconds = {1, 30, 300, 410}
  NamedDelays = {0, 3, 5000}
  Cancellable = TRUE
INVARIANTS
  InputIsHeadAndTail
  SentencesSurvive
  RetriesOnlyTransient
  WaitsRespectProvider
  CancelEndsRetries
PROPERTIES
  RunReturns
\* One call of Run, which returns.
CHECK_DEADLOCK FALSE
