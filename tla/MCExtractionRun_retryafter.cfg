\* A plain article, and Retry-After headers of 30 s, which exceeds the cap, and of
\* 410 s, which is beyond the range of a duration (213 years in the code, 204 s here).
SPECIFICATION RunSpec
CONSTANTS
  MaxTotalChars = 12
  HeadTailJoiner <- Ellipsis
  SentenceCutTolerance = 2
  MinWords = 2
  SymbolPercent = 50
  Articles <- MCOneArticle
  retryInitialDelay = 5
  retryMaxDelay = 23
  retryMaxAttempts = 4
  Second = 20
  DurationLimit = 4096
  NamedSeconds = {30, 410}
  NamedDelays = {}
  Cancellable = TRUE
INVARIANT
  RetryAfterHonored
\* One call of Run, which returns.
CHECK_DEADLOCK FALSE
