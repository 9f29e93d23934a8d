\* A request that lists an article twice and is cut off by its limit races a
\* scheduler batch; every fault of the environment is allowed.
SPECIFICATION FairSpec
CONSTANTS
  a1 = a1
  a2 = a2
  http = http
  cron = cron
  Articles <- MCArticles
  Batches <- MCBatches
  ArticlesOf <- Overlapping
  Concurrency <- TwoAndOne
  StopAfter = 2
  NoCall = NoCall
  Faults = {"db", "cancel", "crash"}
INVARIANTS
  ReturnedItemsComplete
  OneFreshResultPerArticle
  SettledWhenReturned
PROPERTIES
  BatchesReturn
