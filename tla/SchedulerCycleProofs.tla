------------------------ MODULE SchedulerCycleProofs ------------------------
(***************************************************************************)
(* Accounting and throttling of the extraction scheduler, for any          *)
(* articles, listings, page and batch sizes, concurrency and threshold:    *)
(* the theorems about SchedulerCycle.                                      *)
(***************************************************************************)
EXTENDS SchedulerCycle, FiniteSetTheorems, SequenceTheorems, TLAPS

-----------------------------------------------------------------------------
(* The invariant                                                           *)

Stats == [newly: Nat, done: Nat, pending: Nat, alreadyFailed: Nat, failed: Nat, limited: Nat]

Typed ==
  /\ listing \in Seq(Articles) /\ collected \in Seq(Articles)
  /\ stats \in Stats /\ limitedRuns \in Nat /\ hidden \in Nat
  /\ chunk \in Nat \ {0} /\ page \in Nat
  /\ throttled \in BOOLEAN /\ cooled \in BOOLEAN

\* There are items while a batch runs, one per article of the batch.
BatchItems ==
  IF pc = "run"
  THEN chunk <= Chunks /\ work \in [1..Len(Chunk(chunk)) -> ItemStates]
  ELSE work = <<>>

\* Nothing has been dispatched before the last page is in.
PagesFirst == pc = "fetch" => chunk = 1

Total(s) == s.newly + s.done + s.pending + s.alreadyFailed + s.failed

Accounted == Total(stats) = Handled

\* The counter lags behind the batch that is running, and misses what is hidden.
LimitsCounted == limitedRuns = hidden + stats.limited + Items("limited")

ThrottledWhenDue ==
  /\ throttled <=> stats.limited >= RateLimitThreshold
  /\ cooled => throttled

IInv ==
  /\ Typed /\ BatchItems /\ PagesFirst /\ Accounted
  /\ LimitsCounted /\ ThrottledWhenDue /\ ThrottleFollowsFreshLimits

-----------------------------------------------------------------------------
(* Sizes                                                                   *)

LEMMA Positive ==
  /\ PageSize \in Nat \ {0} /\ BatchSize \in Nat \ {0} /\ RateLimitThreshold \in Nat \ {0}
BY CycleAssumption

LEMMA SliceTyped ==
  ASSUME NEW s \in Seq(Articles), NEW from \in Nat \ {0}, NEW size \in Nat \ {0}
  PROVE  /\ Slice(s, from, size) \in Seq(Articles)
         /\ from <= Len(s) => Len(Slice(s, from, size)) = Least(from + size - 1, Len(s)) - from + 1
<1> DEFINE to == Least(from + size - 1, Len(s))
<1>1. to \in Int /\ to <= Len(s) /\ from \in Int
  BY DEF Least
<1>2. \A i \in from..to : s[i] \in Articles
  BY <1>1
<1>3. /\ SubSeq(s, from, to) \in Seq(Articles)
      /\ Len(SubSeq(s, from, to)) = IF from <= to THEN to - from + 1 ELSE 0
  <2> HIDE DEF to
  <2> QED
    BY <1>1, <1>2, SubSeqProperties
<1>4. from <= Len(s) => from <= to
  BY DEF Least
<1> HIDE DEF to
<1>5. /\ SubSeq(s, from, to) \in Seq(Articles)
      /\ from <= Len(s) => Len(SubSeq(s, from, to)) = to - from + 1
  BY <1>3, <1>4
<1> QED
  BY <1>5 DEF Slice, to

\* Rounding up: the batch before the last one is full.
LEMMA RoundUp ==
  ASSUME NEW n \in Nat, NEW size \in Nat \ {0}, NEW k \in Nat \ {0}, k <= (n + size - 1) \div size
  PROVE  (k - 1) * size \in Nat /\ (k - 1) * size < n
<1> DEFINE q == (n + size - 1) \div size
<1>1. q \in Nat /\ size * q <= n + size - 1
  OBVIOUS
<1>2. k * size <= size * q
  <2> HIDE DEF q
  <2>1. k \in Nat /\ k <= q
    BY DEF q
  <2>2. k * size <= q * size
    BY <1>1, <2>1
  <2> QED
    BY <1>1, <2>2
<1>3. (k - 1) * size = k * size - size
  OBVIOUS
<1>4. (k - 1) * size \in Nat
  OBVIOUS
<1> HIDE DEF q
<1> QED
  BY <1>1, <1>2, <1>3, <1>4

\* A batch is what is between two values of Handled.
LEMMA ChunkFits ==
  ASSUME Typed, chunk <= Chunks
  PROVE  /\ Chunk(chunk) \in Seq(Articles)
         /\ Len(Chunk(chunk)) \in Nat
         /\ Handled + Len(Chunk(chunk)) = Least(chunk * BatchSize, Len(collected))
<1>1. collected \in Seq(Articles) /\ chunk \in Nat \ {0} /\ Len(collected) \in Nat
  BY DEF Typed
<1> DEFINE before == (chunk - 1) * BatchSize
<1>2. before \in Nat /\ before < Len(collected)
  BY <1>1, Positive, RoundUp DEF Chunks
<1>3. before + BatchSize = chunk * BatchSize
  BY <1>1, Positive
<1> DEFINE c == Slice(collected, before + 1, BatchSize)
<1> HIDE DEF before
<1>4. before + 1 \in Nat \ {0} /\ before + 1 <= Len(collected)
  BY <1>1, <1>2
<1>5. /\ c \in Seq(Articles)
      /\ Len(c) = Least(before + 1 + BatchSize - 1, Len(collected)) - (before + 1) + 1
  BY <1>1, <1>4, Positive, SliceTyped
<1>6. before + 1 + BatchSize - 1 = before + BatchSize
  BY <1>2, Positive
<1>7. Least(before + BatchSize, Len(collected)) \in Nat
  BY <1>1, <1>2, Positive DEF Least
<1>8. Len(c) = Least(before + BatchSize, Len(collected)) - before
  BY <1>2, <1>5, <1>6, <1>7
<1>9. Len(c) \in Nat
  BY <1>5
<1>10. Least(before, Len(collected)) = before
  BY <1>1, <1>2 DEF Least
<1> HIDE DEF c
<1>11. before + Len(c) = Least(chunk * BatchSize, Len(collected))
  BY <1>2, <1>3, <1>7, <1>8
<1> QED
  BY <1>5, <1>9, <1>10, <1>11 DEF Handled, Chunk, before, c

-----------------------------------------------------------------------------
(* Counting items                                                          *)

LEMMA TwoParts ==
  ASSUME NEW S, NEW T, IsFiniteSet(S), IsFiniteSet(T), S \cap T = {}
  PROVE  /\ IsFiniteSet(S \cup T)
         /\ Cardinality(S \cup T) = Cardinality(S) + Cardinality(T)
         /\ Cardinality(S) \in Nat /\ Cardinality(T) \in Nat
<1>1. Cardinality(S \cap T) = 0
  BY FS_EmptySet
<1>2. /\ IsFiniteSet(S \cup T)
      /\ Cardinality(S \cup T) = Cardinality(S) + Cardinality(T) - Cardinality(S \cap T)
  BY FS_Union
<1>3. Cardinality(S) \in Nat /\ Cardinality(T) \in Nat
  BY FS_CardinalityType
<1> QED
  BY <1>1, <1>2, <1>3

\* Every item has one outcome.
LEMMA OutcomesAddUp ==
  ASSUME NEW n \in Nat, NEW w, DOMAIN w = 1..n, \A i \in 1..n : w[i] \in ItemOutcomes
  PROVE  LET part(o) == {i \in DOMAIN w : w[i] = o} IN
         /\ \A o \in ItemOutcomes : Cardinality(part(o)) \in Nat
         /\ Cardinality(part("newly")) + Cardinality(part("already_done"))
              + Cardinality(part("already_pending")) + Cardinality(part("already_failed"))
              + Cardinality(part("failed")) + Cardinality(part("limited")) = n
<1> DEFINE part(o) == {i \in DOMAIN w : w[i] = o}
<1>1. IsFiniteSet(1..n) /\ Cardinality(1..n) = n
  BY FS_Interval
<1>2. \A o \in ItemOutcomes : IsFiniteSet(part(o)) /\ Cardinality(part(o)) \in Nat
  <2> SUFFICES ASSUME NEW o \in ItemOutcomes PROVE IsFiniteSet(part(o)) /\ Cardinality(part(o)) \in Nat
    OBVIOUS
  <2>1. part(o) \in SUBSET (1..n)
    OBVIOUS
  <2> HIDE DEF part
  <2> QED
    BY <1>1, <2>1, FS_Subset, FS_CardinalityType
<1> DEFINE A == part("newly")
           B == part("already_done")
           C == part("already_pending")
           D == part("already_failed")
           E == part("failed")
           F == part("limited")
<1>3. /\ A \cap B = {} /\ (A \cup B) \cap C = {} /\ (A \cup B \cup C) \cap D = {}
      /\ (A \cup B \cup C \cup D) \cap E = {} /\ (A \cup B \cup C \cup D \cup E) \cap F = {}
  OBVIOUS
<1>4. A \cup B \cup C \cup D \cup E \cup F = 1..n
  BY DEF ItemOutcomes
<1>5. /\ IsFiniteSet(A) /\ IsFiniteSet(B) /\ IsFiniteSet(C)
      /\ IsFiniteSet(D) /\ IsFiniteSet(E) /\ IsFiniteSet(F)
  BY <1>2 DEF ItemOutcomes
<1> HIDE DEF part, A, B, C, D, E, F
<1>6. IsFiniteSet(A \cup B) /\ Cardinality(A \cup B) = Cardinality(A) + Cardinality(B)
  BY <1>3, <1>5, TwoParts
<1>7. IsFiniteSet(A \cup B \cup C) /\ Cardinality(A \cup B \cup C) = Cardinality(A \cup B) + Cardinality(C)
  BY <1>3, <1>5, <1>6, TwoParts
<1>8. IsFiniteSet(A \cup B \cup C \cup D)
      /\ Cardinality(A \cup B \cup C \cup D) = Cardinality(A \cup B \cup C) + Cardinality(D)
  BY <1>3, <1>5, <1>7, TwoParts
<1>9. IsFiniteSet(A \cup B \cup C \cup D \cup E)
      /\ Cardinality(A \cup B \cup C \cup D \cup E) = Cardinality(A \cup B \cup C \cup D) + Cardinality(E)
  BY <1>3, <1>5, <1>8, TwoParts
<1>10. Cardinality(1..n) = Cardinality(A \cup B \cup C \cup D \cup E) + Cardinality(F)
  BY <1>3, <1>4, <1>5, <1>9, TwoParts
<1>11. Cardinality(A) + Cardinality(B) + Cardinality(C) + Cardinality(D) + Cardinality(E) + Cardinality(F) = n
  BY <1>1, <1>6, <1>7, <1>8, <1>9, <1>10
<1> QED
  BY <1>2, <1>11 DEF part, A, B, C, D, E, F

\* One item gets its outcome.
LEMMA ItemsMove ==
  ASSUME NEW n \in Nat, work \in [1..n -> ItemStates], NEW i \in 1..n, NEW v \in ItemStates,
         work' = [work EXCEPT ![i] = v], NEW q, work[i] # q
  PROVE  /\ work' \in [1..n -> ItemStates] /\ Items(q) \in Nat
         /\ Items(q)' = IF v = q THEN Items(q) + 1 ELSE Items(q)
<1> DEFINE old == {j \in DOMAIN work : work[j] = q}
           new == {j \in DOMAIN work' : work'[j] = q}
<1>1. work' \in [1..n -> ItemStates]
  OBVIOUS
<1>2. IsFiniteSet(old) /\ Cardinality(old) \in Nat
  <2>1. old \in SUBSET (1..n) /\ IsFiniteSet(1..n)
    BY FS_Interval
  <2> HIDE DEF old
  <2> QED
    BY <2>1, FS_Subset, FS_CardinalityType
<1>3. i \notin old /\ new = IF v = q THEN old \cup {i} ELSE old
  OBVIOUS
<1>4. Items(q) = Cardinality(old) /\ Items(q)' = Cardinality(new)
  BY DEF Items
<1> HIDE DEF old, new
<1>5. Cardinality(old \cup {i}) = Cardinality(old) + 1
  BY <1>2, <1>3, FS_AddElement
<1> QED
  BY <1>1, <1>2, <1>3, <1>4, <1>5

-----------------------------------------------------------------------------
(* Steps                                                                   *)

LEMMA NothingCounted == NoStats \in Stats /\ <<>> \in Seq(Articles)
<1>1. NoStats \in Stats
  BY DEF NoStats, Stats
<1> QED
  BY <1>1

LEMMA InitInv == Init => IInv
<1> SUFFICES ASSUME Init PROVE IInv
  OBVIOUS
<1>1. Typed
  <2>1. Listing \in Seq(Articles)
    BY CycleAssumption
  <2>2. page \in Nat /\ chunk \in Nat \ {0} /\ limitedRuns \in Nat /\ hidden \in Nat
    BY DEF Init
  <2>3. throttled \in BOOLEAN /\ cooled \in BOOLEAN
    BY DEF Init
  <2>4. stats \in Stats /\ collected \in Seq(Articles) /\ listing \in Seq(Articles)
    BY <2>1, NothingCounted DEF Init
  <2> QED
    BY <2>2, <2>3, <2>4 DEF Typed
<1>2. BatchItems /\ PagesFirst
  BY DEF Init, BatchItems, PagesFirst
<1>3. Accounted
  BY Positive DEF Init, Accounted, Total, Handled, NoStats, Least
<1>4. LimitsCounted /\ ThrottledWhenDue
  <2>1. Items("limited") = 0
    BY FS_EmptySet DEF Init, Items
  <2> QED
    BY <2>1, Positive DEF Init, LimitsCounted, ThrottledWhenDue, NoStats
<1>5. ThrottleFollowsFreshLimits
  BY DEF Init, ThrottleFollowsFreshLimits
<1> QED
  BY <1>1, <1>2, <1>3, <1>4, <1>5 DEF IInv

\* A new cycle counts from nothing.
LEMMA TickInv ==
  ASSUME IInv, Tick
  PROVE  IInv'
<1>1. Typed'
  <2>1. listing' = listing /\ listing \in Seq(Articles)
    BY DEF IInv, Tick, Typed
  <2>2. /\ page' = 0 /\ collected' = <<>> /\ chunk' = 1 /\ stats' = NoStats /\ limitedRuns' = 0 /\ hidden' = 0
        /\ throttled' = FALSE /\ cooled' = FALSE
    BY DEF Tick, BeginCycle
  <2>3. page' \in Nat /\ chunk' \in Nat \ {0} /\ limitedRuns' \in Nat /\ hidden' \in Nat
    BY <2>2
  <2>4. throttled' \in BOOLEAN /\ cooled' \in BOOLEAN
    BY <2>2
  <2>5. stats' \in Stats /\ collected' \in Seq(Articles) /\ listing' \in Seq(Articles)
    BY <2>1, <2>2, NothingCounted
  <2> QED
    BY <2>3, <2>4, <2>5 DEF Typed
<1>2. BatchItems' /\ PagesFirst'
  BY DEF Tick, BeginCycle, BatchItems, PagesFirst
<1>3. Accounted'
  BY Positive DEF Tick, BeginCycle, Accounted, Total, Handled, NoStats, Least
<1>4. LimitsCounted' /\ ThrottledWhenDue'
  <2>1. work' = <<>> /\ limitedRuns' = 0 /\ hidden' = 0 /\ stats'.limited = 0 /\ ~throttled' /\ ~cooled'
    BY DEF Tick, BeginCycle, NoStats
  <2>2. Items("limited")' = 0
    BY <2>1, FS_EmptySet DEF Items
  <2> QED
    BY <2>1, <2>2, Positive DEF LimitsCounted, ThrottledWhenDue
<1>5. ThrottleFollowsFreshLimits'
  BY DEF Tick, BeginCycle, ThrottleFollowsFreshLimits
<1> QED
  BY <1>1, <1>2, <1>3, <1>4, <1>5 DEF IInv

\* Nothing is handled while pages come in.
LEMMA FetchInv ==
  ASSUME IInv, FetchPage
  PROVE  IInv'
<1> DEFINE data == Slice(listing, page * PageSize + 1, PageSize)
<1>1. data \in Seq(Articles)
  <2>1. page * PageSize + 1 \in Nat \ {0} /\ listing \in Seq(Articles)
    BY Positive DEF IInv, Typed
  <2> QED
    BY <2>1, Positive, SliceTyped
<1>2. /\ collected' = collected \o data /\ page' = page + 1 /\ pc = "fetch" /\ pc' \in {"chunk", "fetch"}
      /\ UNCHANGED <<listing, chunk, throttled, cooled, stats, work, dispatch, limitedRuns, hidden>>
  BY DEF FetchPage
<1> HIDE DEF data
<1>3. Typed'
  BY <1>1, <1>2 DEF IInv, Typed
<1>4. chunk = 1
  BY <1>2 DEF IInv, PagesFirst
<1>5. BatchItems' /\ PagesFirst'
  BY <1>2, <1>4 DEF IInv, BatchItems, PagesFirst
<1>6. Accounted'
  <2>1. Handled = 0 /\ Handled' = 0
    BY <1>2, <1>3, <1>4, Positive DEF Handled, Least, Typed, IInv
  <2> QED
    BY <1>2, <2>1 DEF IInv, Accounted, Total
<1>7. LimitsCounted' /\ ThrottledWhenDue' /\ ThrottleFollowsFreshLimits'
  BY <1>2 DEF IInv, LimitsCounted, Items, ThrottledWhenDue, ThrottleFollowsFreshLimits
<1> QED
  BY <1>3, <1>5, <1>6, <1>7 DEF IInv

\* Steps that change nothing the invariant is about but the place of the loop.
LEMMA PlaceInv ==
  ASSUME IInv, UNCHANGED <<page, collected, chunk, throttled, stats, work, dispatch, limitedRuns, hidden>>,
         listing' \in Seq(Articles), cooled' \in BOOLEAN, cooled' => throttled,
         pc' = pc \/ (pc # "run" /\ pc' \notin {"run", "fetch"})
  PROVE  IInv'
<1>1. Typed' /\ PagesFirst'
  BY DEF IInv, Typed, PagesFirst
<1>2. BatchItems'
  BY DEF IInv, BatchItems, Chunk, Chunks
<1>3. Accounted' /\ LimitsCounted' /\ ThrottledWhenDue' /\ ThrottleFollowsFreshLimits'
  BY DEF IInv, Accounted, Handled, LimitsCounted, Items, ThrottledWhenDue, ThrottleFollowsFreshLimits
<1> QED
  BY <1>1, <1>2, <1>3 DEF IInv

-----------------------------------------------------------------------------
(* Batches                                                                 *)

LEMMA NextHandled ==
  ASSUME Typed, chunk <= Chunks, chunk' = chunk + 1, collected' = collected
  PROVE  /\ Handled \in Nat /\ Len(Chunk(chunk)) \in Nat
         /\ Handled' = Handled + Len(Chunk(chunk))
<1>1. chunk \in Nat \ {0} /\ collected \in Seq(Articles)
  BY DEF Typed
<1>2. (chunk - 1) * BatchSize \in Nat /\ chunk' - 1 = chunk
  BY <1>1, Positive
<1>3. Handled' = Least(chunk * BatchSize, Len(collected))
  BY <1>2 DEF Handled
<1>4. Handled \in Nat
  BY <1>1, <1>2 DEF Handled, Least
<1> QED
  BY <1>3, <1>4, ChunkFits

\* The type of the counters, one by one.
LEMMA Counters ==
  ASSUME Typed
  PROVE  /\ stats.newly \in Nat /\ stats.done \in Nat /\ stats.pending \in Nat
         /\ stats.alreadyFailed \in Nat /\ stats.failed \in Nat /\ stats.limited \in Nat
         /\ limitedRuns \in Nat /\ hidden \in Nat
BY DEF Typed, Stats

\* A batch that is skipped or fails as a whole counts as failed.
FailedBatch(hit) ==
  /\ pc = "chunk" /\ chunk <= Chunks
  /\ chunk' = chunk + 1 /\ cooled' = FALSE
  /\ stats' = [stats EXCEPT !.failed = @ + Len(Chunk(chunk)), !.limited = @ + hit]
  /\ limitedRuns' = limitedRuns + hit
  /\ throttled' = (throttled \/ stats.limited + hit >= RateLimitThreshold)
  /\ UNCHANGED <<listing, pc, page, collected, work, hidden>>

LEMMA FailedBatchInv ==
  ASSUME IInv, NEW hit \in Nat, FailedBatch(hit), ThrottleFollowsFreshLimits'
  PROVE  IInv'
<1> DEFINE n == Len(Chunk(chunk))
<1>1. Typed
  BY DEF IInv
<1>2. /\ stats.newly \in Nat /\ stats.done \in Nat /\ stats.pending \in Nat
      /\ stats.alreadyFailed \in Nat /\ stats.failed \in Nat /\ stats.limited \in Nat
      /\ limitedRuns \in Nat /\ hidden \in Nat
  BY <1>1, Counters
<1>3. Handled \in Nat /\ n \in Nat /\ Handled' = Handled + n
  BY <1>1, NextHandled DEF FailedBatch
<1> HIDE DEF n
<1>4. stats' = [stats EXCEPT !.failed = @ + n, !.limited = @ + hit] /\ stats \in Stats
  BY <1>1 DEF FailedBatch, Typed, n
<1>5. /\ stats'.newly = stats.newly /\ stats'.done = stats.done /\ stats'.pending = stats.pending
      /\ stats'.alreadyFailed = stats.alreadyFailed /\ stats'.failed = stats.failed + n
      /\ stats'.limited = stats.limited + hit
  BY <1>4 DEF Stats
<1>6. Typed'
  <2>1. stats' \in Stats
    <3>1. stats.failed + n \in Nat /\ stats.limited + hit \in Nat
      BY <1>2, <1>3
    <3> QED
      BY <1>4, <3>1 DEF Stats
  <2>2. chunk' \in Nat \ {0} /\ limitedRuns' \in Nat /\ hidden' \in Nat
    <3>1. chunk' = chunk + 1 /\ limitedRuns' = limitedRuns + hit /\ hidden' = hidden
      BY DEF FailedBatch
    <3>2. chunk \in Nat \ {0} /\ limitedRuns \in Nat /\ hidden \in Nat
      BY <1>1 DEF Typed
    <3> QED
      BY <3>1, <3>2
  <2>3. cooled' \in BOOLEAN /\ throttled' \in BOOLEAN
    BY <1>1 DEF Typed, FailedBatch
  <2>4. listing' \in Seq(Articles) /\ collected' \in Seq(Articles) /\ page' \in Nat
    BY <1>1 DEF Typed, FailedBatch
  <2> QED
    BY <2>1, <2>2, <2>3, <2>4 DEF Typed
<1>7. Accounted'
  <2>1. Total(stats) = Handled
    BY DEF IInv, Accounted
  <2>2. Total(stats') = Total(stats) + n
    BY <1>2, <1>3, <1>5 DEF Total
  <2> QED
    BY <1>3, <2>1, <2>2 DEF Accounted
<1>8. BatchItems' /\ PagesFirst'
  BY DEF IInv, BatchItems, PagesFirst, FailedBatch
<1>9. LimitsCounted'
  <2>1. Items("limited") = 0 /\ Items("limited")' = 0
    BY FS_EmptySet DEF IInv, BatchItems, Items, FailedBatch
  <2> QED
    BY <1>2, <1>5, <2>1 DEF IInv, LimitsCounted, FailedBatch
<1>10. ThrottledWhenDue'
  <2>1. throttled <=> stats.limited >= RateLimitThreshold
    BY DEF IInv, ThrottledWhenDue
  <2>2. throttled' <=> (throttled \/ stats.limited + hit >= RateLimitThreshold)
    BY DEF FailedBatch
  <2>3. throttled' <=> stats'.limited >= RateLimitThreshold
    BY <1>2, <1>5, <2>1, <2>2, Positive
  <2> QED
    BY <2>3 DEF ThrottledWhenDue, FailedBatch
<1> QED
  BY <1>6, <1>7, <1>8, <1>9, <1>10 DEF IInv

\* What is recorded of a dispatch.
LEMMA DispatchedWhenDue ==
  ASSUME IInv, AtBatch, Dispatched
  PROVE  ThrottleFollowsFreshLimits'
<1>1. dispatch' = [concurrency |-> effectiveConcurrency, cooled |-> cooled,
                   limitedBefore |-> limitedRuns, hiddenBefore |-> hidden]
  BY DEF Dispatched
<1>2. limitedRuns - hidden = stats.limited
  <2>1. Items("limited") = 0
    BY FS_EmptySet DEF IInv, AtBatch, BatchItems, Items
  <2>2. stats.limited \in Nat /\ hidden \in Nat
    BY Counters DEF IInv
  <2> QED
    BY <2>1, <2>2 DEF IInv, LimitsCounted
<1>3. cooled = (limitedRuns - hidden >= RateLimitThreshold) /\ throttled = cooled
  BY <1>2 DEF IInv, Typed, ThrottledWhenDue, AtBatch
<1> QED
  BY <1>1, <1>3 DEF ThrottleFollowsFreshLimits, effectiveConcurrency, throttledConcurrency

LEMMA DispatchInv ==
  ASSUME IInv, Dispatch
  PROVE  IInv'
<1>1. AtBatch /\ Dispatched /\ pc' = "run" /\ work' = [i \in DOMAIN Chunk(chunk) |-> "queued"]
      /\ UNCHANGED <<listing, page, collected, chunk, throttled, cooled, stats, limitedRuns, hidden>>
  BY DEF Dispatch
<1>2. Typed' /\ PagesFirst' /\ Accounted' /\ ThrottledWhenDue'
  BY <1>1 DEF IInv, Typed, PagesFirst, Accounted, Handled, ThrottledWhenDue
<1>3. Chunk(chunk) \in Seq(Articles) /\ chunk <= Chunks
  BY <1>1, ChunkFits DEF IInv, AtBatch
<1>4. work' \in [1..Len(Chunk(chunk)) -> ItemStates]
  BY <1>1, <1>3 DEF ItemStates
<1>5. BatchItems'
  BY <1>1, <1>3, <1>4 DEF BatchItems, Chunk, Chunks
<1>6. LimitsCounted'
  <2>1. Items("limited") = 0 /\ Items("limited")' = 0
    <3>1. work = <<>>
      BY <1>1 DEF IInv, BatchItems, AtBatch
    <3>2. {i \in DOMAIN work' : work'[i] = "limited"} = {} /\ {i \in DOMAIN work : work[i] = "limited"} = {}
      BY <1>1, <3>1
    <3> QED
      BY <3>2, FS_EmptySet DEF Items
  <2> QED
    BY <1>1, <2>1 DEF IInv, LimitsCounted
<1>7. ThrottleFollowsFreshLimits'
  BY <1>1, DispatchedWhenDue
<1> QED
  BY <1>2, <1>5, <1>6, <1>7 DEF IInv

\* What the claim and the extraction of an item have in common; lost is 1 if a
\* rate limit was met and could not be stored.
ItemMoves(i, v, lost) ==
  /\ pc = "run" /\ work[i] # "limited"
  /\ work' = [work EXCEPT ![i] = v]
  /\ limitedRuns' = limitedRuns + lost + (IF v = "limited" THEN 1 ELSE 0)
  /\ hidden' = hidden + lost
  /\ UNCHANGED <<listing, pc, page, collected, chunk, throttled, cooled, stats, dispatch>>

LEMMA ItemInv ==
  ASSUME IInv, NEW i \in DOMAIN work, NEW v \in ItemStates, NEW lost \in Nat, ItemMoves(i, v, lost)
  PROVE  IInv'
<1> DEFINE n == Len(Chunk(chunk))
           hit == IF v = "limited" THEN 1 ELSE 0
<1>1. chunk <= Chunks /\ work \in [1..n -> ItemStates] /\ i \in 1..n /\ pc = "run"
  BY DEF IInv, BatchItems, ItemMoves
<1>2. n \in Nat
  BY <1>1, ChunkFits DEF IInv
<1>3. /\ UNCHANGED <<listing, pc, page, collected, chunk, throttled, cooled, stats, dispatch>>
      /\ limitedRuns' = limitedRuns + lost + hit /\ hit \in Nat /\ work' = [work EXCEPT ![i] = v]
      /\ hidden' = hidden + lost
  BY DEF ItemMoves
<1> HIDE DEF n
<1>4. /\ work' \in [1..n -> ItemStates]
      /\ Items("limited") \in Nat
      /\ Items("limited")' = Items("limited") + hit
  <2>1. work[i] # "limited"
    BY DEF ItemMoves
  <2>2. /\ work' \in [1..n -> ItemStates] /\ Items("limited") \in Nat
        /\ Items("limited")' = IF v = "limited" THEN Items("limited") + 1 ELSE Items("limited")
    BY <1>1, <1>2, <1>3, <2>1, ItemsMove
  <2> QED
    BY <2>2
<1>5. n' = n
  BY <1>3 DEF n, Chunk
<1> HIDE DEF hit
<1>6. Typed'
  <2>1. limitedRuns' \in Nat /\ hidden' \in Nat
    BY <1>3 DEF IInv, Typed
  <2> QED
    BY <1>3, <2>1 DEF IInv, Typed
<1>7. BatchItems'
  BY <1>1, <1>3, <1>4, <1>5 DEF BatchItems, Chunks, n
<1>8. PagesFirst' /\ Accounted' /\ ThrottledWhenDue' /\ ThrottleFollowsFreshLimits'
  BY <1>3 DEF IInv, PagesFirst, Accounted, Handled, ThrottledWhenDue, ThrottleFollowsFreshLimits
<1>9. LimitsCounted'
  <2>1. stats.limited \in Nat /\ limitedRuns \in Nat /\ hidden \in Nat
    BY Counters DEF IInv
  <2>2. stats'.limited = stats.limited
    BY <1>3
  <2>3. limitedRuns = hidden + stats.limited + Items("limited")
    BY DEF IInv, LimitsCounted
  <2>4. limitedRuns + lost + hit = (hidden + lost) + stats.limited + (Items("limited") + hit)
    <3>1. \A r, h, l, m, x, y \in Nat : r = h + l + m => r + x + y = (h + x) + l + (m + y)
      OBVIOUS
    <3>2. hit \in Nat /\ Items("limited") \in Nat
      BY <1>3, <1>4
    <3> QED
      BY <2>1, <2>3, <3>1, <3>2
  <2> QED
    BY <1>3, <1>4, <2>2, <2>4 DEF LimitsCounted
<1> QED
  BY <1>6, <1>7, <1>8, <1>9 DEF IInv

\* A claim gives its item an outcome, or lets it extract, and meets no rate limit.
LEMMA ClaimMoves ==
  ASSUME IInv, NEW i \in DOMAIN work, Claim(i)
  PROVE  \E v \in ItemStates \ {"limited"} : ItemMoves(i, v, 0)
<1>1. limitedRuns \in Nat /\ hidden \in Nat
  BY Counters DEF IInv
<1>2. \A s : Existing(s) \in ItemStates /\ Existing(s) # "limited"
  BY DEF Existing, ItemStates, ItemOutcomes
<1>3. \E v \in ItemStates \ {"limited"} : work' = [work EXCEPT ![i] = v]
  BY <1>2 DEF Claim, ClaimFails, ItemStates, ItemOutcomes
<1>4. PICK v \in ItemStates \ {"limited"} : work' = [work EXCEPT ![i] = v]
  BY <1>3
<1>5. ItemMoves(i, v, 0)
  BY <1>1, <1>4 DEF Claim, ItemMoves
<1> QED
  BY <1>5

\* A rate limit that is lost leaves its item failed.
LEMMA SettleMoves ==
  ASSUME IInv, NEW i \in DOMAIN work, Settle(i)
  PROVE  \E v \in {"newly", "failed", "limited"}, lost \in {0, 1} :
           ItemMoves(i, v, lost) /\ (lost = 1 => v = "failed")
<1>1. limitedRuns \in Nat /\ hidden \in Nat
  BY Counters DEF IInv
<1>2. PICK outcome \in {"newly", "failed", "limited"} :
        /\ limitedRuns' = limitedRuns + (IF outcome = "limited" THEN 1 ELSE 0)
        /\ \/ work' = [work EXCEPT ![i] = outcome] /\ hidden' = hidden
           \/ /\ work' = [work EXCEPT ![i] = "failed"]
              /\ hidden' = hidden + (IF outcome = "limited" THEN 1 ELSE 0)
  BY DEF Settle
<1>3. \E v \in {"newly", "failed", "limited"}, lost \in {0, 1} :
        /\ work' = [work EXCEPT ![i] = v]
        /\ limitedRuns' = limitedRuns + lost + (IF v = "limited" THEN 1 ELSE 0)
        /\ hidden' = hidden + lost /\ (lost = 1 => v = "failed")
  BY <1>1, <1>2
<1> QED
  BY <1>3 DEF Settle, ItemMoves

LEMMA ClaimInv ==
  ASSUME IInv, NEW i \in DOMAIN work, Claim(i)
  PROVE  IInv'
BY ClaimMoves, ItemInv

LEMMA SettleInv ==
  ASSUME IInv, NEW i \in DOMAIN work, Settle(i)
  PROVE  IInv'
<1>1. PICK v \in {"newly", "failed", "limited"}, lost \in {0, 1} : ItemMoves(i, v, lost)
  BY SettleMoves
<1>2. v \in ItemStates /\ lost \in Nat
  BY DEF ItemStates, ItemOutcomes
<1> QED
  BY <1>1, <1>2, ItemInv

LEMMA SumsOfParts ==
  \A a, b, c, d, e, f, g, h, i, j, k \in Nat :
    (a + f) + (b + g) + (c + h) + (d + i) + (e + j + k) = (a + b + c + d + e) + (f + g + h + i + j + k)
OBVIOUS

LEMMA ReturnInv ==
  ASSUME IInv, BatchReturns
  PROVE  IInv'
<1> DEFINE n == Len(Chunk(chunk))
<1>1. /\ pc = "run" /\ pc' = "chunk" /\ chunk' = chunk + 1 /\ cooled' = FALSE /\ work' = <<>>
      /\ stats' = countBatchOutcomes
      /\ throttled' = (throttled \/ stats.limited + countRateLimitedItems >= RateLimitThreshold)
      /\ UNCHANGED <<listing, page, collected, dispatch, limitedRuns, hidden>>
  BY DEF BatchReturns, NextBatch, Throttle
<1>2. Typed /\ chunk <= Chunks /\ work \in [1..n -> ItemStates]
  BY <1>1 DEF IInv, BatchItems
<1>3. Handled \in Nat /\ n \in Nat /\ Handled' = Handled + n
  BY <1>1, <1>2, NextHandled
<1> HIDE DEF n
<1> DEFINE A == Items("newly")
           B == Items("already_done")
           C == Items("already_pending")
           D == Items("already_failed")
           E == Items("failed")
           F == Items("limited")
<1>4. /\ A \in Nat /\ B \in Nat /\ C \in Nat /\ D \in Nat /\ E \in Nat /\ F \in Nat
      /\ A + B + C + D + E + F = n
  <2>1. DOMAIN work = 1..n /\ \A i \in 1..n : work[i] \in ItemOutcomes
    BY <1>2 DEF BatchReturns
  <2> QED
    BY <1>3, <2>1, OutcomesAddUp DEF Items, ItemOutcomes
<1>5. stats' = [newly |-> stats.newly + A, done |-> stats.done + B, pending |-> stats.pending + C,
                alreadyFailed |-> stats.alreadyFailed + D, failed |-> stats.failed + E + F,
                limited |-> stats.limited + F]
  BY <1>1 DEF countBatchOutcomes, countRateLimitedItems
<1>6. throttled' = (throttled \/ stats.limited + F >= RateLimitThreshold)
  BY <1>1 DEF countRateLimitedItems
<1>7. Items("limited")' = 0
  BY <1>1, FS_EmptySet DEF Items
<1> HIDE DEF A, B, C, D, E
<1>8. limitedRuns = hidden + stats.limited + F
  BY DEF IInv, LimitsCounted
<1> HIDE DEF F
<1>9. /\ stats.newly \in Nat /\ stats.done \in Nat /\ stats.pending \in Nat
      /\ stats.alreadyFailed \in Nat /\ stats.failed \in Nat /\ stats.limited \in Nat
      /\ limitedRuns \in Nat /\ hidden \in Nat
  BY <1>2, Counters
<1>10. /\ stats'.newly = stats.newly + A /\ stats'.done = stats.done + B /\ stats'.pending = stats.pending + C
       /\ stats'.alreadyFailed = stats.alreadyFailed + D /\ stats'.failed = stats.failed + E + F
       /\ stats'.limited = stats.limited + F
  BY <1>5
<1>11. Typed'
  <2>1. stats' \in Stats
    <3>1. /\ stats.newly + A \in Nat /\ stats.done + B \in Nat /\ stats.pending + C \in Nat
          /\ stats.alreadyFailed + D \in Nat /\ stats.failed + E + F \in Nat /\ stats.limited + F \in Nat
      BY <1>4, <1>9
    <3> QED
      BY <1>5, <3>1 DEF Stats
  <2>2. chunk' \in Nat \ {0}
    <3>1. chunk \in Nat \ {0}
      BY <1>2 DEF Typed
    <3> QED
      BY <1>1, <3>1
  <2>3. cooled' \in BOOLEAN /\ throttled' \in BOOLEAN
    BY <1>1
  <2>4. /\ listing' \in Seq(Articles) /\ collected' \in Seq(Articles) /\ page' \in Nat
        /\ limitedRuns' \in Nat /\ hidden' \in Nat
    BY <1>1, <1>2 DEF Typed
  <2> QED
    BY <2>1, <2>2, <2>3, <2>4 DEF Typed
<1>12. Accounted'
  <2>1. Total(stats) = Handled
    BY DEF IInv, Accounted
  <2>2. Total(stats') = Total(stats) + n
    <3>1. Total(stats') = (stats.newly + A) + (stats.done + B) + (stats.pending + C)
                            + (stats.alreadyFailed + D) + (stats.failed + E + F)
      BY <1>10 DEF Total
    <3>2. Total(stats) = stats.newly + stats.done + stats.pending + stats.alreadyFailed + stats.failed
      BY DEF Total
    <3> QED
      BY <1>4, <1>9, <3>1, <3>2, SumsOfParts
  <2> QED
    BY <1>3, <2>1, <2>2 DEF Accounted
<1>13. BatchItems' /\ PagesFirst'
  BY <1>1 DEF BatchItems, PagesFirst
<1>14. LimitsCounted'
  BY <1>1, <1>4, <1>7, <1>8, <1>9, <1>10 DEF LimitsCounted
<1>15. ThrottledWhenDue'
  <2>1. throttled <=> stats.limited >= RateLimitThreshold
    BY DEF IInv, ThrottledWhenDue
  <2>2. throttled' <=> (throttled \/ stats.limited + F >= RateLimitThreshold)
    BY <1>6
  <2>3. throttled' <=> stats'.limited >= RateLimitThreshold
    BY <1>4, <1>9, <1>10, <2>1, <2>2, Positive
  <2> QED
    BY <1>1, <2>3 DEF ThrottledWhenDue
<1>16. ThrottleFollowsFreshLimits'
  BY <1>1 DEF IInv, ThrottleFollowsFreshLimits
<1> QED
  BY <1>11, <1>12, <1>13, <1>14, <1>15, <1>16 DEF IInv

-----------------------------------------------------------------------------
(* The theorems                                                            *)

LEMMA WholeBatchFails ==
  ASSUME IInv, ConversionFails \/ DispatchFails
  PROVE  IInv'
<1>1. stats.limited \in Nat /\ limitedRuns \in Nat
  BY Counters DEF IInv
<1>2. stats \in Stats /\ throttled \in BOOLEAN
  BY DEF IInv, Typed
<1>3. CASE ConversionFails
  <2>1. ThrottleFollowsFreshLimits'
    BY <1>3 DEF ConversionFails, IInv, ThrottleFollowsFreshLimits
  <2>2. limitedRuns' = limitedRuns + 0
    BY <1>1, <1>3 DEF ConversionFails
  <2>3. stats' = [stats EXCEPT !.failed = @ + Len(Chunk(chunk)), !.limited = @ + 0]
    <3> DEFINE x == stats.failed + Len(Chunk(chunk))
    <3>1. stats' = [stats EXCEPT !.failed = x]
      BY <1>3 DEF ConversionFails
    <3>2. stats.limited + 0 = stats.limited
      BY <1>1
    <3> HIDE DEF x
    <3>3. [stats EXCEPT !.failed = x, !.limited = stats.limited] = [stats EXCEPT !.failed = x]
      BY <1>2 DEF Stats
    <3> QED
      BY <3>1, <3>2, <3>3 DEF x
  <2>4. throttled' = (throttled \/ stats.limited + 0 >= RateLimitThreshold)
    BY <1>1, <1>2, <1>3 DEF ConversionFails, IInv, ThrottledWhenDue
  <2>5. FailedBatch(0)
    BY <1>3, <2>2, <2>3, <2>4 DEF ConversionFails, FailedBatch, AtBatch, NextBatch
  <2> QED
    BY <2>1, <2>5, FailedBatchInv
<1>4. CASE DispatchFails
  <2>1. ThrottleFollowsFreshLimits'
    BY <1>4, DispatchedWhenDue DEF DispatchFails
  <2>2. Len(Chunk(chunk)) \in Nat
    BY <1>4, ChunkFits DEF DispatchFails, AtBatch, IInv
  <2>3. \E hit \in Nat : FailedBatch(hit)
    BY <1>4, <2>2 DEF DispatchFails, FailedBatch, AtBatch, NextBatch, Throttle
  <2> QED
    BY <2>1, <2>3, FailedBatchInv
<1> QED
  BY <1>3, <1>4

\* The invariant of the loop: every counter stands for what has been handled,
\* and the throttle for the rate limits that have been counted.
THEOREM Inductive == Spec => []IInv
<1>1. IInv /\ [Next]_vars => IInv'
  <2> SUFFICES ASSUME IInv, [Next]_vars PROVE IInv'
    OBVIOUS
  <2>1. CASE Shift
    <3>1. listing' \in Seq(Articles)
      <4>1. listing \in Seq(Articles)
        BY DEF IInv, Typed
      <4>2. ASSUME NEW i \in DOMAIN listing
            PROVE  SubSeq(listing, 1, i - 1) \o SubSeq(listing, i + 1, Len(listing)) \in Seq(Articles)
        <5>1. SubSeq(listing, 1, i - 1) \in Seq(Articles)
          <6>1. \A j \in 1..(i - 1) : listing[j] \in Articles
            BY <4>1
          <6> QED
            BY <4>1, <6>1, SubSeqProperties
        <5>2. SubSeq(listing, i + 1, Len(listing)) \in Seq(Articles)
          <6>1. \A j \in (i + 1)..Len(listing) : listing[j] \in Articles
            BY <4>1
          <6> QED
            BY <4>1, <6>1, SubSeqProperties
        <5> QED
          BY <5>1, <5>2
      <4>3. \A a \in Articles : <<a>> \o listing \in Seq(Articles)
        BY <4>1
      <4> QED
        BY <2>1, <4>2, <4>3 DEF Shift
    <3>2. UNCHANGED <<page, collected, chunk, throttled, cooled, stats, work, dispatch, limitedRuns, hidden, pc>>
      BY <2>1 DEF Shift, cycleVars
    <3>3. cooled' \in BOOLEAN /\ (cooled' => throttled)
      BY <3>2 DEF IInv, Typed, ThrottledWhenDue
    <3> QED
      BY <3>1, <3>2, <3>3, PlaceInv
  <2>2. CASE Cancel \/ Stop \/ FetchFails \/ EndCycle \/ CooldownCanceled \/ Stopped \/ UNCHANGED vars
    <3>1. UNCHANGED <<listing, page, collected, chunk, throttled, cooled, stats, work, dispatch,
                      limitedRuns, hidden>>
      BY <2>2 DEF Cancel, Stop, FetchFails, EndCycle, CooldownCanceled, Stopped, cycleVars, vars
    <3>2. pc' = pc \/ (pc # "run" /\ pc' \notin {"run", "fetch"})
      BY <2>2 DEF Cancel, Stop, FetchFails, EndCycle, CooldownCanceled, Stopped, vars
    <3>3. listing' \in Seq(Articles) /\ cooled' \in BOOLEAN /\ (cooled' => throttled)
      BY <3>1 DEF IInv, Typed, ThrottledWhenDue
    <3> QED
      BY <3>1, <3>2, <3>3, PlaceInv
  <2>3. CASE Cooldown
    <3>1. /\ UNCHANGED <<listing, pc, page, collected, chunk, throttled, stats, work, dispatch,
                          limitedRuns, hidden>>
          /\ cooled' = TRUE /\ throttled
      BY <2>3 DEF Cooldown
    <3>2. listing' \in Seq(Articles) /\ cooled' \in BOOLEAN
      BY <3>1 DEF IInv, Typed
    <3> QED
      BY <3>1, <3>2, PlaceInv
  <2>4. CASE Tick
    BY <2>4, TickInv
  <2>5. CASE FetchPage
    BY <2>5, FetchInv
  <2>6. CASE ConversionFails \/ DispatchFails
    BY <2>6, WholeBatchFails
  <2>7. CASE Dispatch
    BY <2>7, DispatchInv
  <2>8. CASE \E i \in DOMAIN work : Claim(i) \/ Settle(i)
    BY <2>8, ClaimInv, SettleInv
  <2>9. CASE BatchReturns
    BY <2>9, ReturnInv
  <2> QED
    BY <2>1, <2>2, <2>3, <2>4, <2>5, <2>6, <2>7, <2>8, <2>9 DEF Next, Cycle
<1> QED
  BY <1>1, InitInv, PTL DEF Spec

\* The counters of a cycle add up to the articles whose batches are through.
THEOREM AccountsAddUp == Spec => []CycleAccounting
<1>1. IInv => CycleAccounting
  BY DEF IInv, Accounted, Total, CycleAccounting
<1> QED
  BY <1>1, Inductive, PTL

\* A batch is throttled exactly when its own cycle has met enough rate limits whose
\* failures could be stored; one that is lost with its failure does not count.
THEOREM ThrottlesWhenDue == Spec => []ThrottleFollowsFreshLimits
BY Inductive, PTL DEF IInv

-----------------------------------------------------------------------------
(* Sizes and rows.                                                         *)

\* Where the loops are, and how large what they count can be.
Sized ==
  /\ row \in [Articles -> RowStatuses]
  /\ ctx \in {"live", "canceled"}
  /\ pc \in {"select", "fetch", "chunk", "run", "stopped"}
  /\ page <= MaxPagesPerCycle /\ (pc = "fetch" => page < MaxPagesPerCycle)
  /\ chunk <= Chunks + 1
  /\ DOMAIN stats = DOMAIN NoStats /\ stats.limited <= stats.failed
  /\ dispatch.concurrency \in 0..DispatchConcurrency
  /\ attempted \subseteq Articles

\* The batches are as many as the collected articles need, and no fewer than before.
LEMMA ChunksGrow ==
  ASSUME NEW m \in Nat, NEW n \in Nat, m <= n
  PROVE  /\ (m + BatchSize - 1) \div BatchSize \in Nat
         /\ (m + BatchSize - 1) \div BatchSize <= (n + BatchSize - 1) \div BatchSize
<1> DEFINE b == BatchSize
           p == (m + b - 1) \div b
           q == (n + b - 1) \div b
<1>1. b \in Nat \ {0}
  BY Positive
<1> HIDE DEF b
<1>2. /\ p \in Nat /\ q \in Nat /\ b * p <= m + b - 1 /\ n + b - 1 < b * q + b
  BY <1>1
<1> HIDE DEF p, q
<1>3. b * p < b * q + b
  BY <1>1, <1>2
<1>4. b * q + b = b * (q + 1)
  BY <1>1, <1>2
<1>5. p < q + 1
  <2> SUFFICES ASSUME q + 1 <= p PROVE FALSE
    BY <1>2
  <2>1. b * (q + 1) <= b * p
    BY <1>1, <1>2
  <2> QED
    BY <1>1, <1>2, <1>3, <1>4, <2>1
<1> QED
  BY <1>2, <1>5 DEF b, p, q

LEMMA ConcurrencyBounds == effectiveConcurrency \in 0..DispatchConcurrency
<1>1. DispatchConcurrency \in Nat \ {0}
  BY CycleAssumption
<1> QED
  BY <1>1 DEF effectiveConcurrency, throttledConcurrency

LEMMA SizedStep ==
  ASSUME IInv, IInv', Sized, [Next]_vars
  PROVE  Sized'
<1>1. /\ collected \in Seq(Articles) /\ Len(collected) \in Nat /\ chunk \in Nat \ {0} /\ page \in Nat
      /\ Chunks \in Nat /\ MaxPagesPerCycle \in Nat \ {0} /\ stats \in Stats
  BY ChunksGrow, CycleAssumption DEF IInv, Typed, Chunks
<1>2. CASE Shift \/ Cancel \/ Stop \/ FetchFails \/ EndCycle \/ Cooldown \/ CooldownCanceled
           \/ Stopped \/ UNCHANGED vars
  <2>1. UNCHANGED <<row, page, collected, chunk, stats, dispatch, attempted>>
    BY <1>2 DEF Shift, Cancel, Stop, FetchFails, EndCycle, Cooldown, CooldownCanceled, Stopped,
                cycleVars, vars
  <2>2. /\ ctx' \in {"live", "canceled"} /\ pc' \in {"select", "fetch", "chunk", "run", "stopped"}
        /\ (pc' = "fetch" => pc = "fetch")
    BY <1>2 DEF Sized, Shift, Cancel, Stop, FetchFails, EndCycle, Cooldown, CooldownCanceled, Stopped,
                cycleVars, vars
  <2> QED
    BY <2>1, <2>2 DEF Sized, Chunks
<1>3. CASE Tick
  <2>1. /\ UNCHANGED <<row, ctx, attempted>>
        /\ pc' = "fetch" /\ page' = 0 /\ collected' = <<>> /\ chunk' = 1
        /\ stats' = NoStats /\ dispatch' = NoDispatch
    BY <1>3 DEF Tick, BeginCycle
  <2>2. chunk' <= Chunks' + 1
    <3>1. Len(<<>>) = 0 /\ (0 + BatchSize - 1) \div BatchSize \in Nat
      BY ChunksGrow
    <3> QED
      BY <2>1, <3>1 DEF Chunks
  <2>3. dispatch'.concurrency \in 0..DispatchConcurrency
    BY <2>1, CycleAssumption DEF NoDispatch
  <2>4. DOMAIN stats' = DOMAIN NoStats /\ stats'.limited <= stats'.failed
    BY <2>1 DEF NoStats
  <2> QED
    BY <1>1, <2>1, <2>2, <2>3, <2>4 DEF Sized
<1>4. CASE FetchPage
  <2> DEFINE data == Slice(listing, page * PageSize + 1, PageSize)
  <2>1. /\ UNCHANGED <<row, ctx, attempted, chunk, stats, dispatch>>
        /\ pc = "fetch" /\ page' = page + 1 /\ collected' = collected \o data
        /\ pc' = IF data = <<>> \/ page' = MaxPagesPerCycle THEN "chunk" ELSE "fetch"
    BY <1>4 DEF FetchPage
  <2>2. data \in Seq(Articles)
    <3>1. page * PageSize + 1 \in Nat \ {0} /\ listing \in Seq(Articles)
      BY <1>1, Positive DEF IInv, Typed
    <3> QED
      BY <3>1, Positive, SliceTyped
  <2> HIDE DEF data
  <2>3. Len(collected') \in Nat /\ Len(collected) <= Len(collected')
    BY <1>1, <2>1, <2>2
  <2>4. Chunks <= Chunks' /\ Chunks' \in Nat
    BY <1>1, <2>3, ChunksGrow DEF Chunks
  <2>5. chunk' <= Chunks' + 1
    <3>1. chunk <= Chunks + 1 /\ chunk' = chunk
      BY <2>1 DEF Sized
    <3>2. \A c, m, n \in Nat : c <= m + 1 /\ m <= n => c <= n + 1
      OBVIOUS
    <3>3. chunk \in Nat /\ Chunks \in Nat /\ Chunks' \in Nat /\ Chunks <= Chunks'
      BY <1>1, <2>4
    <3> QED
      BY <3>1, <3>2, <3>3
  <2>6. page' <= MaxPagesPerCycle /\ (pc' = "fetch" => page' < MaxPagesPerCycle)
        /\ pc' \in {"select", "fetch", "chunk", "run", "stopped"}
    BY <1>1, <2>1 DEF Sized
  <2> QED
    BY <2>1, <2>5, <2>6 DEF Sized
<1>5. CASE ConversionFails \/ Dispatch \/ DispatchFails
  <2>1. /\ UNCHANGED <<row, ctx, page, collected>>
        /\ pc = "chunk" /\ pc' \in {"chunk", "run"}
        /\ chunk <= Chunks
        /\ chunk' = chunk \/ chunk' = chunk + 1
    BY <1>5 DEF ConversionFails, Dispatch, DispatchFails, AtBatch, NextBatch
  <2>2. Chunks' = Chunks /\ chunk' <= Chunks' + 1
    BY <1>1, <2>1 DEF Chunks
  <2>3. Chunk(chunk) \in Seq(Articles) /\ Len(Chunk(chunk)) \in Nat
    BY <2>1, ChunkFits DEF IInv
  <2>4. attempted' \subseteq Articles
    <3>1. {Chunk(chunk)[i] : i \in DOMAIN Chunk(chunk)} \subseteq Articles
      <4> DEFINE c == Chunk(chunk)
      <4>1. c \in Seq(Articles)
        BY <2>3
      <4> HIDE DEF c
      <4>2. \A i \in DOMAIN c : c[i] \in Articles
        BY <4>1
      <4> QED
        BY <4>2 DEF c
    <3>2. attempted' = attempted
          \/ attempted' = attempted \cup {Chunk(chunk)[i] : i \in DOMAIN Chunk(chunk)}
      BY <1>5 DEF ConversionFails, Dispatch, DispatchFails, Dispatched
    <3> QED
      BY <3>1, <3>2 DEF Sized
  <2>5. dispatch'.concurrency \in 0..DispatchConcurrency
    <3>1. dispatch' = dispatch \/ Dispatched
      BY <1>5 DEF ConversionFails, Dispatch, DispatchFails
    <3>2. Dispatched => dispatch'.concurrency = effectiveConcurrency
      BY DEF Dispatched
    <3> QED
      BY <3>1, <3>2, ConcurrencyBounds DEF Sized
  <2>6. DOMAIN stats' = DOMAIN NoStats /\ stats'.limited <= stats'.failed
    <3> DEFINE n == Len(Chunk(chunk))
    <3>1. \/ stats' = stats
          \/ stats' = [stats EXCEPT !.failed = @ + n]
          \/ \E hit \in {0, n} : stats' = [stats EXCEPT !.failed = @ + n, !.limited = @ + hit]
      BY <1>5 DEF ConversionFails, Dispatch, DispatchFails
    <3>2. n \in Nat
      BY <2>3
    <3> HIDE DEF n
    <3>3. stats.failed \in Nat /\ stats.limited \in Nat /\ stats.limited <= stats.failed
      BY <1>1, Counters DEF Sized, IInv
    <3>4. CASE stats' = stats
      BY <3>4 DEF Sized
    <3>5. CASE stats' = [stats EXCEPT !.failed = @ + n]
      BY <1>1, <3>2, <3>3, <3>5 DEF Stats, NoStats
    <3>6. ASSUME NEW hit \in {0, n}, stats' = [stats EXCEPT !.failed = @ + n, !.limited = @ + hit]
          PROVE  DOMAIN stats' = DOMAIN NoStats /\ stats'.limited <= stats'.failed
      <4>1. hit \in Nat /\ hit <= n
        BY <3>2
      <4>2. stats'.failed = stats.failed + n /\ stats'.limited = stats.limited + hit
        BY <1>1, <3>6 DEF Stats
      <4>3. DOMAIN stats' = DOMAIN NoStats
        BY <1>1, <3>6 DEF Stats, NoStats
      <4> QED
        BY <3>2, <3>3, <4>1, <4>2, <4>3
    <3> QED
      BY <3>1, <3>4, <3>5, <3>6
  <2> QED
    BY <2>1, <2>2, <2>4, <2>5, <2>6 DEF Sized
<1>6. CASE \E i \in DOMAIN work : Claim(i) \/ Settle(i)
  <2>1. UNCHANGED <<ctx, pc, page, collected, chunk, stats, dispatch, attempted>>
    BY <1>6 DEF Claim, Settle
  <2>2. row' \in [Articles -> RowStatuses]
    <3>1. \/ row' = row
          \/ \E a, s : s \in RowStatuses /\ row' = [row EXCEPT ![a] = s]
      <4>1. ASSUME NEW i \in DOMAIN work, Claim(i)
            PROVE  row' = row \/ \E a : row' = [row EXCEPT ![a] = "pending"]
        <5>1. ASSUME NEW a, row' = [row EXCEPT ![a] = IF @ = "none" THEN "pending" ELSE @]
              PROVE  row' = row \/ row' = [row EXCEPT ![a] = "pending"]
          BY <5>1 DEF Sized
        <5> QED
          BY <4>1, <5>1 DEF Claim, ClaimFails
      <4>2. ASSUME NEW i \in DOMAIN work, Settle(i)
            PROVE  row' = row \/ \E a, s : s \in RowStatuses /\ row' = [row EXCEPT ![a] = s]
        BY <4>2 DEF Settle, Stored, RowStatuses
      <4> QED
        BY <1>6, <4>1, <4>2 DEF RowStatuses
    <3> QED
      BY <3>1 DEF Sized
  <2> QED
    BY <2>1, <2>2 DEF Sized, Chunks
<1>7. CASE BatchReturns
  <2>1. /\ UNCHANGED <<row, ctx, page, collected, dispatch, attempted>>
        /\ pc = "run" /\ pc' = "chunk" /\ chunk' = chunk + 1
        /\ stats' = countBatchOutcomes
    BY <1>7 DEF BatchReturns, NextBatch
  <2>2. chunk <= Chunks /\ work \in [1..Len(Chunk(chunk)) -> ItemStates]
    BY <2>1 DEF IInv, BatchItems
  <2>3. Items("failed") \in Nat /\ Items("limited") \in Nat
    <3>1. Len(Chunk(chunk)) \in Nat
      BY <2>2, ChunkFits DEF IInv
    <3>2. DOMAIN work = 1..Len(Chunk(chunk)) /\ \A i \in 1..Len(Chunk(chunk)) : work[i] \in ItemOutcomes
      BY <1>7, <2>2 DEF BatchReturns
    <3> QED
      BY <3>1, <3>2, OutcomesAddUp DEF Items, ItemOutcomes
  <2>4. stats'.limited = stats.limited + Items("limited")
        /\ stats'.failed = stats.failed + Items("failed") + Items("limited")
        /\ DOMAIN stats' = DOMAIN NoStats
    BY <2>1 DEF countBatchOutcomes, countRateLimitedItems, NoStats
  <2>5. stats.failed \in Nat /\ stats.limited \in Nat /\ stats.limited <= stats.failed
    BY <1>1, Counters DEF Sized, IInv
  <2>6. stats'.limited <= stats'.failed
    BY <2>3, <2>4, <2>5
  <2> QED
    BY <1>1, <2>1, <2>2, <2>4, <2>6 DEF Sized, Chunks
<1> QED
  BY <1>2, <1>3, <1>4, <1>5, <1>6, <1>7 DEF Next, Cycle

LEMMA StaysSized == Spec => []Sized
<1>1. Init => Sized
  <2> SUFFICES ASSUME Init PROVE Sized
    OBVIOUS
  <2>1. chunk <= Chunks + 1
    <3>1. Len(<<>>) = 0 /\ (0 + BatchSize - 1) \div BatchSize \in Nat
      BY ChunksGrow
    <3> QED
      BY <3>1 DEF Init, Chunks
  <2>2. MaxPagesPerCycle \in Nat \ {0} /\ DispatchConcurrency \in Nat \ {0}
    BY CycleAssumption
  <2> QED
    BY <2>1, <2>2 DEF Init, Sized, NoStats, NoDispatch
<1> QED
  BY <1>1, Inductive, SizedStep, PTL DEF Spec

\* A rate limit that was lost with its failure left an item that counts as failed.
LostFailed == hidden + stats.limited <= stats.failed + Items("failed")

\* The items of an outcome can be counted.
LEMMA ItemsCount ==
  ASSUME IInv, NEW o
  PROVE  Items(o) \in Nat /\ (work = <<>> => Items(o) = 0)
<1> DEFINE part == {i \in DOMAIN work : work[i] = o}
<1>1. PICK n \in Nat : DOMAIN work = 1..n
  <2>1. CASE pc = "run"
    <3>1. Len(Chunk(chunk)) \in Nat /\ DOMAIN work = 1..Len(Chunk(chunk))
      BY <2>1, ChunkFits DEF IInv, BatchItems
    <3> QED
      BY <3>1
  <2>2. CASE pc # "run"
    <3>1. DOMAIN work = 1..0
      BY <2>2 DEF IInv, BatchItems
    <3> QED
      BY <3>1
  <2> QED
    BY <2>1, <2>2
<1>2. part \in SUBSET (1..n) /\ IsFiniteSet(1..n)
  BY <1>1, FS_Interval
<1>3. work = <<>> => part = {}
  OBVIOUS
<1> HIDE DEF part
<1>4. Cardinality(part) \in Nat
  BY <1>2, FS_Subset, FS_CardinalityType
<1>5. part = {} => Cardinality(part) = 0
  BY FS_EmptySet
<1> QED
  BY <1>3, <1>4, <1>5 DEF Items, part

LEMMA LostStep ==
  ASSUME IInv, IInv', LostFailed, [Next]_vars
  PROVE  LostFailed'
<1> DEFINE F == Items("failed")
<1>1. /\ stats \in Stats /\ stats.failed \in Nat /\ stats.limited \in Nat /\ hidden \in Nat /\ F \in Nat
  BY Counters, ItemsCount DEF IInv, Typed
<1>2. work = <<>> => F = 0
  BY ItemsCount
<1>3. work' = <<>> => F' = 0
  BY FS_EmptySet DEF Items
<1>4. CASE UNCHANGED <<stats, work, hidden>>
  BY <1>4 DEF LostFailed, Items
<1>5. CASE Tick
  <2>1. hidden' = 0 /\ stats'.limited = 0 /\ stats'.failed = 0 /\ work' = <<>>
    BY <1>5 DEF Tick, BeginCycle, NoStats
  <2> QED
    BY <1>3, <2>1 DEF LostFailed
<1>6. CASE ConversionFails \/ DispatchFails
  <2> DEFINE n == Len(Chunk(chunk))
  <2>1. n \in Nat
    BY <1>6, ChunkFits DEF ConversionFails, DispatchFails, AtBatch, IInv
  <2>2. \/ stats' = [stats EXCEPT !.failed = @ + n]
        \/ \E hit \in {0, n} : stats' = [stats EXCEPT !.failed = @ + n, !.limited = @ + hit]
    BY <1>6 DEF ConversionFails, DispatchFails
  <2>3. work' = work /\ hidden' = hidden
    BY <1>6 DEF ConversionFails, DispatchFails
  <2>4. F' = F
    BY <2>3 DEF Items
  <2> HIDE DEF n, F
  <2>5. PICK hit \in {0, n} : stats'.failed = stats.failed + n /\ stats'.limited = stats.limited + hit
    <3>1. CASE stats' = [stats EXCEPT !.failed = @ + n]
      <4>1. stats'.failed = stats.failed + n /\ stats'.limited = stats.limited
        BY <1>1, <3>1 DEF Stats
      <4>2. stats.limited = stats.limited + 0
        BY <1>1
      <4> QED
        BY <4>1, <4>2
    <3>2. ASSUME NEW hit \in {0, n}, stats' = [stats EXCEPT !.failed = @ + n, !.limited = @ + hit]
          PROVE  stats'.failed = stats.failed + n /\ stats'.limited = stats.limited + hit
      BY <1>1, <3>2 DEF Stats
    <3> QED
      BY <2>2, <3>1, <3>2
  <2>6. hidden + stats.limited <= stats.failed + F
    BY DEF LostFailed, F
  <2>7. hidden + (stats.limited + hit) <= (stats.failed + n) + F
    <3>1. hit \in Nat /\ hit <= n
      BY <2>1
    <3> QED
      BY <1>1, <2>1, <2>6, <3>1
  <2> QED
    BY <2>3, <2>4, <2>5, <2>7 DEF LostFailed, F
<1>7. CASE Dispatch
  <2>1. stats' = stats /\ hidden' = hidden
    BY <1>7 DEF Dispatch
  <2>2. F = 0 /\ F' \in Nat
    <3>1. work = <<>>
      BY <1>7 DEF IInv, BatchItems, Dispatch, AtBatch
    <3>2. \A i \in DOMAIN work' : work'[i] = "queued"
      BY <1>7 DEF Dispatch
    <3>3. {i \in DOMAIN work' : work'[i] = "failed"} = {}
      BY <3>2
    <3>4. F' = 0
      BY <3>3, FS_EmptySet DEF Items
    <3> QED
      BY <1>2, <3>1, <3>4
  <2> HIDE DEF F
  <2>3. hidden + stats.limited <= stats.failed + F
    BY DEF LostFailed, F
  <2>4. hidden + stats.limited <= stats.failed + F'
    BY <1>1, <2>2, <2>3
  <2> QED
    BY <2>1, <2>4 DEF LostFailed, F
<1>8. ASSUME NEW i \in DOMAIN work, Claim(i) \/ Settle(i) PROVE LostFailed'
  <2>1. PICK v \in ItemStates, lost \in {0, 1} : ItemMoves(i, v, lost) /\ (lost = 1 => v = "failed")
    <3>1. CASE Claim(i)
      BY <3>1, ClaimMoves
    <3>2. CASE Settle(i)
      BY <3>2, SettleMoves DEF ItemStates, ItemOutcomes
    <3> QED
      BY <1>8, <3>1, <3>2
  <2>2. work[i] # "failed" /\ pc = "run"
    BY <1>8 DEF Claim, Settle
  <2>3. /\ chunk <= Chunks /\ work \in [1..Len(Chunk(chunk)) -> ItemStates]
        /\ Len(Chunk(chunk)) \in Nat
    BY <2>2, ChunkFits DEF IInv, BatchItems
  <2>4. work' = [work EXCEPT ![i] = v] /\ stats' = stats /\ hidden' = hidden + lost
    BY <2>1 DEF ItemMoves
  <2>5. F' = IF v = "failed" THEN F + 1 ELSE F
    BY <2>2, <2>3, <2>4, ItemsMove
  <2> HIDE DEF F
  <2>6. hidden + stats.limited <= stats.failed + F
    BY DEF LostFailed, F
  <2>7. (hidden + lost) + stats.limited <= stats.failed + F'
    BY <1>1, <2>1, <2>5, <2>6
  <2> QED
    BY <2>4, <2>7 DEF LostFailed, F
<1>9. CASE BatchReturns
  <2> DEFINE L == Items("limited")
  <2>1. /\ stats'.limited = stats.limited + L /\ stats'.failed = stats.failed + F + L
        /\ work' = <<>> /\ hidden' = hidden
    BY <1>9 DEF BatchReturns, countBatchOutcomes, countRateLimitedItems
  <2>2. F' = 0 /\ L \in Nat
    BY <1>3, <2>1, ItemsCount
  <2> HIDE DEF F, L
  <2>3. hidden + stats.limited <= stats.failed + F
    BY DEF LostFailed, F
  <2>4. hidden + (stats.limited + L) <= (stats.failed + F + L) + 0
    BY <1>1, <2>2, <2>3
  <2> QED
    BY <2>1, <2>2, <2>4 DEF LostFailed, F
<1>10. UNCHANGED <<stats, work, hidden>> \/ Tick \/ ConversionFails \/ DispatchFails \/ Dispatch
       \/ (\E i \in DOMAIN work : Claim(i) \/ Settle(i)) \/ BatchReturns
  BY DEF Next, Cycle, Shift, Cancel, Stop, FetchPage, FetchFails, EndCycle, Cooldown, CooldownCanceled,
         Stopped, cycleVars, vars
<1> QED
  BY <1>4, <1>5, <1>6, <1>7, <1>8, <1>9, <1>10

LEMMA StaysLost == Spec => []LostFailed
<1>1. Init => LostFailed
  <2> SUFFICES ASSUME Init PROVE LostFailed
    OBVIOUS
  <2>1. hidden = 0 /\ stats.limited = 0 /\ stats.failed = 0 /\ work = <<>>
    BY DEF Init, NoStats
  <2>2. Items("failed") = 0
    BY <2>1, FS_EmptySet DEF Items
  <2> QED
    BY <2>1, <2>2 DEF LostFailed
<1> QED
  BY <1>1, Inductive, LostStep, PTL DEF Spec

\* Every variable of the scheduler has its type, its counters and positions their
\* bounds, for any listing, sizes, concurrency and threshold.
THEOREM TypeCorrect == Spec => []TypeOK
<1>1. IInv /\ Sized /\ LostFailed => TypeOK
  <2> SUFFICES ASSUME IInv, Sized, LostFailed PROVE TypeOK
    OBVIOUS
  <2>1. /\ Typed /\ stats \in Stats /\ collected \in Seq(Articles) /\ Len(collected) \in Nat
        /\ chunk \in Nat \ {0} /\ page \in Nat /\ MaxPagesPerCycle \in Nat /\ Chunks \in Nat
    BY ChunksGrow, CycleAssumption DEF IInv, Typed, Chunks
  <2>2. /\ stats.newly \in Nat /\ stats.done \in Nat /\ stats.pending \in Nat
        /\ stats.alreadyFailed \in Nat /\ stats.failed \in Nat /\ stats.limited \in Nat
        /\ limitedRuns \in Nat /\ hidden \in Nat
    BY <2>1, Counters
  <2>3. Handled \in Nat /\ Handled <= Len(collected)
    <3>1. (chunk - 1) * BatchSize \in Nat
      BY <2>1, Positive
    <3> QED
      BY <2>1, <3>1 DEF Handled, Least
  <2>4. /\ stats.newly <= Handled /\ stats.done <= Handled /\ stats.pending <= Handled
        /\ stats.alreadyFailed <= Handled /\ stats.failed <= Handled /\ stats.limited <= Handled
    <3>1. stats.newly + stats.done + stats.pending + stats.alreadyFailed + stats.failed = Handled
      BY DEF IInv, Accounted, Total
    <3>2. stats.limited <= stats.failed
      BY DEF Sized
    <3>3. \A a, b, c, d, e, h \in Nat :
            a + b + c + d + e = h => a <= h /\ b <= h /\ c <= h /\ d <= h /\ e <= h
      OBVIOUS
    <3>4. /\ stats.newly <= Handled /\ stats.done <= Handled /\ stats.pending <= Handled
          /\ stats.alreadyFailed <= Handled /\ stats.failed <= Handled
      BY <2>2, <2>3, <3>1, <3>3
    <3> QED
      BY <2>2, <2>3, <3>2, <3>4
  <2>5. limitedRuns <= Len(collected) /\ hidden <= limitedRuns /\ work \in Seq(ItemStates)
    <3>1. limitedRuns = hidden + stats.limited + Items("limited")
      BY DEF IInv, LimitsCounted
    <3>2. hidden + stats.limited <= stats.failed + Items("failed")
      BY DEF LostFailed
    <3>3. Items("limited") \in Nat /\ Items("failed") \in Nat
      BY ItemsCount
    <3>4. hidden <= limitedRuns
      BY <2>2, <3>1, <3>3
    <3>5. CASE pc = "run"
      <4> DEFINE n == Len(Chunk(chunk))
                 marked == {i \in DOMAIN work : work[i] = "limited"}
                 failed == {i \in DOMAIN work : work[i] = "failed"}
      <4>1. chunk <= Chunks /\ work \in [1..n -> ItemStates]
        BY <3>5 DEF IInv, BatchItems
      <4>2. n \in Nat /\ Handled + n = Least(chunk * BatchSize, Len(collected))
        BY <2>1, <4>1, ChunkFits
      <4> HIDE DEF n
      <4>3. Cardinality(failed) + Cardinality(marked) <= n
        <5>1. marked \in SUBSET (1..n) /\ failed \in SUBSET (1..n) /\ failed \cap marked = {}
          BY <4>1
        <5>2. IsFiniteSet(1..n) /\ Cardinality(1..n) = n
          BY <4>2, FS_Interval
        <5> HIDE DEF marked, failed
        <5>3. IsFiniteSet(marked) /\ IsFiniteSet(failed)
          BY <5>1, <5>2, FS_Subset
        <5>4. Cardinality(failed \cup marked) = Cardinality(failed) + Cardinality(marked)
          BY <5>1, <5>3, TwoParts
        <5>5. failed \cup marked \in SUBSET (1..n)
          BY <5>1
        <5>6. Cardinality(failed \cup marked) <= n
          BY <5>2, <5>5, FS_Subset
        <5> QED
          BY <5>4, <5>6
      <4>4. Items("limited") = Cardinality(marked) /\ Items("failed") = Cardinality(failed)
        BY DEF Items
      <4>5. Handled + n <= Len(collected)
        <5>1. chunk * BatchSize \in Nat
          BY <2>1, Positive
        <5> QED
          BY <2>1, <4>2, <5>1 DEF Least
      <4>6. work \in Seq(ItemStates)
        BY <4>1, <4>2
      <4> HIDE DEF marked, failed
      <4>7. limitedRuns <= Handled + n
        <5>1. Items("failed") + Items("limited") <= n /\ stats.failed <= Handled
          BY <2>4, <4>3, <4>4
        <5>2. /\ {limitedRuns, hidden, stats.limited, stats.failed, Handled, n} \subseteq Nat
              /\ {Items("failed"), Items("limited")} \subseteq Nat
          BY <2>2, <2>3, <3>3, <4>2
        <5>3. limitedRuns <= (stats.failed + Items("failed")) + Items("limited")
          BY <3>1, <3>2, <5>2
        <5>4. (stats.failed + Items("failed")) + Items("limited") <= Handled + n
          BY <5>1, <5>2
        <5> QED
          BY <5>2, <5>3, <5>4
      <4> QED
        BY <2>1, <2>2, <2>3, <3>4, <4>2, <4>5, <4>6, <4>7
    <3>6. CASE pc # "run"
      <4>1. work = <<>>
        BY <3>6 DEF IInv, BatchItems
      <4>2. Items("limited") = 0 /\ Items("failed") = 0
        BY <4>1, ItemsCount
      <4>3. limitedRuns <= Handled
        BY <2>2, <2>3, <2>4, <3>1, <3>2, <4>2
      <4>4. work \in Seq(ItemStates)
        BY <4>1
      <4> QED
        BY <2>1, <2>2, <2>3, <3>4, <4>3, <4>4
    <3> QED
      BY <3>5, <3>6
  <2>6. /\ \A k \in DOMAIN stats : stats[k] \in 0..Len(collected)
        /\ DOMAIN stats = DOMAIN NoStats
    <3>1. \A k \in DOMAIN stats : stats[k] \in Nat /\ stats[k] <= Handled
      BY <2>1, <2>2, <2>4 DEF Stats
    <3> QED
      BY <2>1, <2>3, <3>1 DEF Sized
  <2>7. /\ page \in 0..MaxPagesPerCycle /\ chunk \in 1..(Chunks + 1)
        /\ limitedRuns \in 0..Len(collected) /\ hidden \in 0..limitedRuns
    BY <2>1, <2>2, <2>5 DEF Sized
  <2> QED
    BY <2>5, <2>6, <2>7 DEF TypeOK, IInv, Typed, Sized
<1> QED
  BY <1>1, Inductive, StaysSized, StaysLost, PTL

\* An item of the running batch stands for an article.
LEMMA ItemArticle ==
  ASSUME IInv, pc = "run", NEW i \in DOMAIN work
  PROVE  Chunk(chunk)[i] \in Articles
<1> DEFINE c == Chunk(chunk)
<1>1. chunk <= Chunks /\ work \in [1..Len(c) -> ItemStates]
  BY DEF IInv, BatchItems
<1>2. c \in Seq(Articles) /\ i \in 1..Len(c)
  BY <1>1, ChunkFits DEF IInv
<1> HIDE DEF c
<1>3. c[i] \in Articles
  BY <1>2
<1> QED
  BY <1>3 DEF c

\* However often the listing repeats an article, one item of a batch extracts it at
\* a time, for any listing, sizes and concurrency.
THEOREM OneItemExtracts == Spec => []ExtractedByOneItem
<1>1. Init => ExtractedByOneItem
  BY DEF Init, ExtractedByOneItem, Extracting
<1>2. IInv /\ IInv' /\ Sized /\ ExtractedByOneItem /\ [Next]_vars => ExtractedByOneItem'
  <2> SUFFICES ASSUME IInv, IInv', Sized, ExtractedByOneItem, [Next]_vars PROVE ExtractedByOneItem'
    OBVIOUS
  <2>1. CASE work' = <<>>
    BY <2>1 DEF ExtractedByOneItem, Extracting
  <2>2. CASE work' # <<>> /\ UNCHANGED <<work, row, collected, chunk>>
    BY <2>2 DEF ExtractedByOneItem, Extracting, Chunk
  <2>3. CASE Dispatch
    BY <2>3 DEF Dispatch, ExtractedByOneItem, Extracting
  <2>4. ASSUME NEW i \in DOMAIN work, Claim(i) PROVE ExtractedByOneItem'
    <3> DEFINE a == Chunk(chunk)[i]
    <3>1. work[i] = "queued" /\ Chunk(chunk)' = Chunk(chunk)
      BY <2>4 DEF Claim, Chunk
    <3>2. CASE /\ \E o \in ItemOutcomes : work' = [work EXCEPT ![i] = o]
               /\ row' = row \/ (row[a] = "none" /\ row' = [row EXCEPT ![a] = "pending"])
      <4>1. Extracting' \subseteq Extracting
        BY <3>2 DEF Extracting, ItemOutcomes
      <4>2. \A j \in Extracting : row'[Chunk(chunk)[j]] = row[Chunk(chunk)[j]]
        <5>1. \A j \in Extracting : row[Chunk(chunk)[j]] = "pending"
          BY DEF ExtractedByOneItem
        <5>2. \A j \in Extracting : Chunk(chunk)[j] \in Articles
          BY <2>4, ItemArticle DEF Claim, Extracting
        <5>3. ASSUME NEW b \in Articles, row[b] = "pending" PROVE row'[b] = row[b]
          <6>1. row \in [Articles -> RowStatuses]
            BY DEF Sized
          <6> HIDE DEF a
          <6>2. b = a => row[a] # "none"
            BY <5>3
          <6> QED
            BY <3>2, <5>3, <6>1, <6>2
        <5> QED
          BY <5>1, <5>2, <5>3
      <4> QED
        BY <3>1, <4>1, <4>2 DEF ExtractedByOneItem
    <3>3. CASE /\ row[a] = "none" /\ row' = [row EXCEPT ![a] = "pending"]
               /\ work' = [work EXCEPT ![i] = "extracting"]
      <4>1. Extracting' = Extracting \cup {i} /\ i \notin Extracting
        BY <3>1, <3>3 DEF Extracting
      <4>2. \A j \in Extracting : Chunk(chunk)[j] # a /\ row[Chunk(chunk)[j]] = "pending"
        BY <3>3 DEF ExtractedByOneItem
      <4>3. row'[a] = "pending" /\ \A j \in Extracting : row'[Chunk(chunk)[j]] = "pending"
        <5>1. a \in DOMAIN row
          BY <2>4, ItemArticle DEF Claim, Sized
        <5> HIDE DEF a
        <5> QED
          BY <3>3, <4>2, <5>1
      <4> HIDE DEF a
      <4>4. \A j, k \in Extracting : Chunk(chunk)[j] = Chunk(chunk)[k] => j = k
        BY DEF ExtractedByOneItem
      <4>5. a = Chunk(chunk)[i]
        BY DEF a
      <4> QED
        BY <3>1, <4>1, <4>2, <4>3, <4>4, <4>5 DEF ExtractedByOneItem
    <3>4. \/ /\ \E o \in ItemOutcomes : work' = [work EXCEPT ![i] = o]
             /\ row' = row \/ (row[a] = "none" /\ row' = [row EXCEPT ![a] = "pending"])
          \/ /\ row[a] = "none" /\ row' = [row EXCEPT ![a] = "pending"]
             /\ work' = [work EXCEPT ![i] = "extracting"]
      <4>1. \A s : Existing(s) \in ItemOutcomes
        BY DEF Existing, ItemOutcomes
      <4>2. "failed" \in ItemOutcomes
        BY DEF ItemOutcomes
      <4>3. ASSUME ClaimFails(i, a)
            PROVE  /\ work' = [work EXCEPT ![i] = "failed"]
                   /\ row' = row \/ (row[a] = "none" /\ row' = [row EXCEPT ![a] = "pending"])
        <5>1. row \in [Articles -> RowStatuses]
          BY DEF Sized
        <5> HIDE DEF a
        <5>2. row[a] # "none" => [row EXCEPT ![a] = IF @ = "none" THEN "pending" ELSE @] = row
          BY <5>1
        <5>3. row[a] = "none" => [row EXCEPT ![a] = IF @ = "none" THEN "pending" ELSE @]
                                   = [row EXCEPT ![a] = "pending"]
          OBVIOUS
        <5> QED
          BY <4>3, <5>2, <5>3 DEF ClaimFails
      <4> QED
        BY <2>4, <4>1, <4>2, <4>3 DEF Claim
    <3> QED
      BY <3>2, <3>3, <3>4
  <2>5. ASSUME NEW i \in DOMAIN work, Settle(i) PROVE ExtractedByOneItem'
    <3> DEFINE a == Chunk(chunk)[i]
    <3>1. work[i] = "extracting" /\ Chunk(chunk)' = Chunk(chunk) /\ i \in Extracting
      BY <2>5 DEF Settle, Chunk, Extracting
    <3>2. PICK o \in {"newly", "failed", "limited"} : work' = [work EXCEPT ![i] = o]
      BY <2>5 DEF Settle
    <3>3. row' = row \/ \E s : row' = [row EXCEPT ![a] = s]
      BY <2>5 DEF Settle
    <3>4. Extracting' = Extracting \ {i}
      BY <3>1, <3>2 DEF Extracting
    <3>5. \A j \in Extracting \ {i} : Chunk(chunk)[j] # a /\ Chunk(chunk)[j] \in Articles
      BY <2>5, <3>1, ItemArticle DEF ExtractedByOneItem, Extracting, Settle
    <3> HIDE DEF a
    <3>6. \A j \in Extracting \ {i} : row'[Chunk(chunk)[j]] = row[Chunk(chunk)[j]]
      BY <3>3, <3>5 DEF Sized
    <3> QED
      BY <3>1, <3>4, <3>6 DEF ExtractedByOneItem
  <2>6. CASE \E i \in DOMAIN work : Claim(i) \/ Settle(i)
    BY <2>4, <2>5, <2>6
  <2>7. CASE ~ Dispatch /\ ~ \E i \in DOMAIN work : Claim(i) \/ Settle(i)
    <3>1. work' = <<>> \/ UNCHANGED <<work, row>>
      BY <2>7 DEF Next, Cycle, Shift, Cancel, Tick, BeginCycle, Stop, FetchPage, FetchFails, EndCycle,
                  Cooldown, CooldownCanceled, ConversionFails, DispatchFails, BatchReturns, Stopped,
                  cycleVars, vars
    <3>2. UNCHANGED <<collected, chunk>> \/ work' = <<>> \/ pc # "run"
      BY <2>7 DEF Next, Cycle, Shift, Cancel, Tick, BeginCycle, Stop, FetchPage, FetchFails, EndCycle,
                  Cooldown, CooldownCanceled, ConversionFails, DispatchFails, BatchReturns, Stopped,
                  cycleVars, vars, AtBatch
    <3>3. pc # "run" => work = <<>>
      BY DEF IInv, BatchItems
    <3> QED
      BY <2>1, <2>2, <3>1, <3>2, <3>3
  <2> QED
    BY <2>3, <2>6, <2>7
<1> QED
  BY <1>1, <1>2, Inductive, StaysSized, PTL DEF Spec
=============================================================================
