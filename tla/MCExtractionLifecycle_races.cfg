\* Three calls on two articles, every fault of the environment allowed.
SPECIFICATION FairSpec
CONSTANTS
  Articles = {a1, a2}
  Calls = {c1, c2, c3}
  NoCall = NoCall
  Faults = {"db", "cancel", "crash"}
INVARIANTS
  TypeOK
  OneRunPerArticle
  StrandedOnlyByFaults
  RepliesAgreeWithRow
  RowsComeFromRuns
PROPERTIES
  SettledForever
  ImplementsClaimOnce
  CallsReturn
  PendingSettles
\* Every call has returned or is lost: the instance is used up.
CHECK_DEADLOCK FALSE
