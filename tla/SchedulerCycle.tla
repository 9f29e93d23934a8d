--------------------------- MODULE SchedulerCycle ---------------------------
(***************************************************************************)
(* The extraction scheduler (internal/app/scheduler/scheduler.go): one     *)
(* goroutine that on every tick pages through the eligible upstream        *)
(* articles by offset, cuts what it collected into batches, and dispatches *)
(* them one after the other, at half the concurrency and after a cooldown  *)
(* once enough items of the cycle were rate limited.                       *)
(*                                                                         *)
(* The upstream listing may change between two page requests, a request    *)
(* may fail, and the root context may be cancelled at any point.  A batch  *)
(* is a set of items that claim and settle in any order, as BatchPool and  *)
(* ExtractionLifecycle describe in detail.  Rows outlive the cycle: what   *)
(* failed in one cycle is reported as already failed by the next.          *)
(***************************************************************************)
EXTENDS Naturals, Sequences, FiniteSets

CONSTANTS
  Articles,
  Convertible,           \* articles that FromModelArticle accepts
  Listing,               \* what upstream lists at first, in order
  PageSize, MaxPagesPerCycle, BatchSize,
  DispatchConcurrency, RateLimitThreshold,
  RunnerErrors,          \* errors a whole dispatch may return, see DispatchFails
  Cancellable,           \* whether the root context may be cancelled
  MaxShifts,             \* bound on listing changes
  MaxFaults              \* bound on page requests and statements that fail by themselves

\* New rejects a scheduler whose numbers are not positive.
ASSUME CycleAssumption ==
  /\ Convertible \subseteq Articles
  /\ Listing \in Seq(Articles)
  /\ {PageSize, MaxPagesPerCycle, BatchSize, DispatchConcurrency, RateLimitThreshold} \subseteq Nat \ {0}
  /\ RunnerErrors \subseteq {"plain", "limited"}
  /\ Cancellable \in BOOLEAN
  /\ MaxShifts \in Nat /\ MaxFaults \in Nat

VARIABLES
  listing,     \* the upstream's eligible articles
  row,         \* row[a]: persisted extraction status of article a
  ctx,         \* "live" or "canceled"
  pc,          \* "select", "fetch", "chunk", "run" or "stopped"
  page,        \* pages fetched in this cycle
  collected,   \* the articles collected, in order, repetitions included
  chunk,       \* the batch the dispatch loop is at
  throttled,   \* throttleActive
  cooled,      \* the cooldown before this batch is over
  stats,       \* CycleStats
  work,        \* outcomes of the items of the running batch
  dispatch,    \* history: how the last batch of the cycle was dispatched
  limitedRuns, \* history: rate limits met by the cycle's extractions and dispatches
  hidden,      \* history: those of them whose failure could not be stored
  attempted,   \* history: articles dispatched by any cycle
  shifts, faults

cycleVars == <<page, collected, chunk, throttled, cooled, stats, work, dispatch, limitedRuns, hidden>>
vars == <<listing, row, ctx, pc, cycleVars, attempted, shifts, faults>>

-----------------------------------------------------------------------------
\* "limited" is a failed row whose error text names a rate limit.
RowStatuses == {"none", "pending", "done", "failed", "limited"}

\* Item outcomes; "failed" and "limited" are Go errors without an outcome.
ItemOutcomes == {"newly", "already_done", "already_pending", "already_failed", "failed", "limited"}

ItemStates == {"queued", "extracting"} \cup ItemOutcomes

NoStats == [newly |-> 0, done |-> 0, pending |-> 0, alreadyFailed |-> 0, failed |-> 0, limited |-> 0]

NoDispatch == [concurrency |-> 0, cooled |-> FALSE, limitedBefore |-> 0, hiddenBefore |-> 0]

Least(m, n) == IF m < n THEN m ELSE n

throttledConcurrency == IF DispatchConcurrency <= 1 THEN 1 ELSE (DispatchConcurrency + 1) \div 2

effectiveConcurrency == IF throttled THEN throttledConcurrency ELSE DispatchConcurrency

Slice(s, from, size) == SubSeq(s, from, Least(from + size - 1, Len(s)))

\* chunkIDs.
Chunk(k) == Slice(collected, (k - 1) * BatchSize + 1, BatchSize)

Chunks == (Len(collected) + BatchSize - 1) \div BatchSize

BeginCycle ==
  /\ pc' = "fetch"
  /\ page' = 0 /\ collected' = <<>> /\ chunk' = 1
  /\ throttled' = FALSE /\ cooled' = FALSE
  /\ stats' = NoStats /\ work' = <<>>
  /\ dispatch' = NoDispatch /\ limitedRuns' = 0 /\ hidden' = 0

Init ==
  /\ listing = Listing
  /\ row \in [Articles -> RowStatuses]
  /\ ctx = "live"
  /\ pc = "fetch"
  /\ page = 0 /\ collected = <<>> /\ chunk = 1
  /\ throttled = FALSE /\ cooled = FALSE
  /\ stats = NoStats /\ work = <<>>
  /\ dispatch = NoDispatch /\ limitedRuns = 0 /\ hidden = 0
  /\ attempted = {}
  /\ shifts = 0 /\ faults = 0

\* A page request or a statement fails: with the context, or by itself.
Fails ==
  \/ ctx = "canceled" /\ UNCHANGED faults
  \/ ctx = "live" /\ faults < MaxFaults /\ faults' = faults + 1

-----------------------------------------------------------------------------
(* Upstream lists one more article first, or no longer lists one.          *)
Shift ==
  /\ shifts < MaxShifts
  /\ shifts' = shifts + 1
  /\ \/ \E a \in Articles :
          /\ \A i \in DOMAIN listing : listing[i] # a
          /\ listing' = <<a>> \o listing
     \/ \E i \in DOMAIN listing :
          listing' = SubSeq(listing, 1, i - 1) \o SubSeq(listing, i + 1, Len(listing))
  /\ UNCHANGED <<row, ctx, pc, cycleVars, attempted, faults>>

Cancel ==
  /\ Cancellable
  /\ ctx = "live"
  /\ ctx' = "canceled"
  /\ UNCHANGED <<listing, row, pc, cycleVars, attempted, shifts, faults>>

(* The ticker fires.  Run's select takes either branch when both are ready. *)
Tick ==
  /\ pc = "select"
  /\ BeginCycle
  /\ UNCHANGED <<listing, row, ctx, attempted, shifts, faults>>

Stop ==
  /\ pc = "select"
  /\ ctx = "canceled"
  /\ pc' = "stopped"
  /\ UNCHANGED <<listing, row, ctx, cycleVars, attempted, shifts, faults>>

(* One page of the listing as it is now; an empty page ends the paging.    *)
FetchPage ==
  LET data == Slice(listing, page * PageSize + 1, PageSize) IN
  /\ pc = "fetch"
  /\ ctx = "live"
  /\ collected' = collected \o data
  /\ page' = page + 1
  /\ pc' = IF data = <<>> \/ page' = MaxPagesPerCycle THEN "chunk" ELSE "fetch"
  /\ UNCHANGED <<listing, row, ctx, chunk, throttled, cooled, stats, work, dispatch,
                 limitedRuns, hidden, attempted, shifts, faults>>

\* Mutant: a failed page is requested again.
FetchFailsRetrying ==
  /\ pc = "fetch"
  /\ Fails
  /\ UNCHANGED <<listing, row, ctx, pc, cycleVars, attempted, shifts>>

(* A failed page request ends the cycle; what was collected is dropped.    *)
FetchFails ==
  /\ pc = "fetch"
  /\ Fails
  /\ pc' = "select"
  /\ UNCHANGED <<listing, row, ctx, cycleVars, attempted, shifts>>

EndCycle ==
  /\ pc = "chunk"
  /\ chunk > Chunks
  /\ pc' = "select"
  /\ UNCHANGED <<listing, row, ctx, cycleVars, attempted, shifts, faults>>

-----------------------------------------------------------------------------
Cooldown ==
  /\ pc = "chunk" /\ chunk <= Chunks
  /\ throttled /\ ~cooled
  /\ cooled' = TRUE
  /\ UNCHANGED <<listing, row, ctx, pc, page, collected, chunk, throttled, stats, work, dispatch,
                 limitedRuns, hidden, attempted, shifts, faults>>

CooldownCanceled ==
  /\ pc = "chunk" /\ chunk <= Chunks
  /\ throttled /\ ~cooled
  /\ ctx = "canceled"
  /\ pc' = "select"
  /\ UNCHANGED <<listing, row, ctx, cycleVars, attempted, shifts, faults>>

\* The dispatch loop is at its next batch and need not wait any longer.
AtBatch == pc = "chunk" /\ chunk <= Chunks /\ (throttled => cooled)

\* A batch is converted as a whole: one article that cannot be fails it.
Converts(ids) == \A i \in DOMAIN ids : ids[i] \in Convertible

NextBatch ==
  /\ chunk' = chunk + 1
  /\ cooled' = FALSE

\* Throttling starts after the batch that reaches the threshold and stays on.
Throttle(limited) == throttled' = (throttled \/ limited >= RateLimitThreshold)

\* Mutants: the error ends the cycle; the skipped articles are not counted.
ConversionFailsAborting ==
  /\ AtBatch
  /\ ~Converts(Chunk(chunk))
  /\ pc' = "select"
  /\ stats' = [stats EXCEPT !.failed = @ + Len(Chunk(chunk))]
  /\ UNCHANGED <<listing, row, ctx, page, collected, chunk, throttled, cooled, work, dispatch,
                 limitedRuns, hidden, attempted, shifts, faults>>

ConversionFailsUncounted ==
  /\ AtBatch
  /\ ~Converts(Chunk(chunk))
  /\ NextBatch
  /\ UNCHANGED <<listing, row, ctx, pc, page, collected, throttled, stats, work, dispatch,
                 limitedRuns, hidden, attempted, shifts, faults>>

ConversionFails ==
  /\ AtBatch
  /\ ~Converts(Chunk(chunk))
  /\ stats' = [stats EXCEPT !.failed = @ + Len(Chunk(chunk))]
  /\ NextBatch
  /\ UNCHANGED <<listing, row, ctx, pc, page, collected, throttled, work, dispatch,
                 limitedRuns, hidden, attempted, shifts, faults>>

Dispatched ==
  /\ attempted' = attempted \cup {Chunk(chunk)[i] : i \in DOMAIN Chunk(chunk)}
  /\ dispatch' = [concurrency |-> effectiveConcurrency, cooled |-> cooled,
                  limitedBefore |-> limitedRuns, hiddenBefore |-> hidden]

(* RunBatch is called.                                                     *)
Dispatch ==
  /\ AtBatch
  /\ Converts(Chunk(chunk))
  /\ pc' = "run"
  /\ work' = [i \in DOMAIN Chunk(chunk) |-> "queued"]
  /\ Dispatched
  /\ UNCHANGED <<listing, row, ctx, page, collected, chunk, throttled, cooled, stats, limitedRuns,
                 hidden, shifts, faults>>

(* RunBatch returns an error.  The scheduler allows for any runner; the    *)
(* one main wires in returns setup errors only, which startup excludes.    *)
DispatchFails ==
  /\ AtBatch
  /\ Converts(Chunk(chunk))
  /\ \E kind \in RunnerErrors :
       LET hit == IF kind = "limited" THEN Len(Chunk(chunk)) ELSE 0 IN
       /\ stats' = [stats EXCEPT !.failed = @ + Len(Chunk(chunk)), !.limited = @ + hit]
       /\ limitedRuns' = limitedRuns + hit
       /\ Throttle(stats.limited + hit)
  /\ Dispatched
  /\ NextBatch
  /\ UNCHANGED <<listing, row, ctx, pc, page, collected, work, hidden, shifts, faults>>

-----------------------------------------------------------------------------
Extracting == {i \in DOMAIN work : work[i] = "extracting"}

\* A row that exists decides the outcome of the claim.
Existing(status) ==
  CASE status = "done" -> "already_done"
    [] status = "pending" -> "already_pending"
    [] OTHER -> "already_failed"

\* A claim that fails may have left its row all the same.
ClaimFails(i, a) ==
  /\ Fails
  /\ work' = [work EXCEPT ![i] = "failed"]
  /\ row' \in {row, [row EXCEPT ![a] = IF @ = "none" THEN "pending" ELSE @]}

\* Mutant: a pending row is taken over, as one whose extraction was given up.
ClaimTakingOver(i) ==
  LET a == Chunk(chunk)[i] IN
  /\ pc = "run"
  /\ work[i] = "queued"
  /\ Cardinality(Extracting) < dispatch.concurrency
  /\ \/ /\ row[a] \in {"none", "pending"}
        /\ row' = [row EXCEPT ![a] = "pending"]
        /\ work' = [work EXCEPT ![i] = "extracting"]
        /\ UNCHANGED faults
     \/ /\ row[a] \notin {"none", "pending"}
        /\ work' = [work EXCEPT ![i] = Existing(row[a])]
        /\ UNCHANGED <<row, faults>>
     \/ ClaimFails(i, a)
  /\ UNCHANGED <<listing, ctx, pc, page, collected, chunk, throttled, cooled, stats, dispatch,
                 limitedRuns, hidden, attempted, shifts>>

(* An item's claim: granted, denied by the row, or failed.                 *)
Claim(i) ==
  LET a == Chunk(chunk)[i] IN
  /\ pc = "run"
  /\ work[i] = "queued"
  /\ Cardinality(Extracting) < dispatch.concurrency
  /\ \/ /\ row[a] = "none"
        /\ row' = [row EXCEPT ![a] = "pending"]
        /\ work' = [work EXCEPT ![i] = "extracting"]
        /\ UNCHANGED faults
     \/ /\ row[a] # "none"
        /\ work' = [work EXCEPT ![i] = Existing(row[a])]
        /\ UNCHANGED <<row, faults>>
     \/ ClaimFails(i, a)
  /\ UNCHANGED <<listing, ctx, pc, page, collected, chunk, throttled, cooled, stats, dispatch,
                 limitedRuns, hidden, attempted, shifts>>

\* The row that the final upsert of an extraction leaves.
Stored(outcome) == IF outcome = "newly" THEN "done" ELSE outcome

(* An item's extraction and its final upsert.  If the upsert fails, the    *)
(* item's error is that of the statement: it no longer names the rate      *)
(* limit, and the row may have been written all the same.                  *)
Settle(i) ==
  LET a == Chunk(chunk)[i] IN
  /\ pc = "run"
  /\ work[i] = "extracting"
  /\ \E outcome \in {"newly", "failed", "limited"} :
       LET hit == IF outcome = "limited" THEN 1 ELSE 0 IN
       /\ limitedRuns' = limitedRuns + hit
       /\ \/ /\ work' = [work EXCEPT ![i] = outcome]
             /\ row' = [row EXCEPT ![a] = Stored(outcome)]
             /\ UNCHANGED <<hidden, faults>>
          \/ /\ Fails
             /\ work' = [work EXCEPT ![i] = "failed"]
             /\ row' \in {row, [row EXCEPT ![a] = Stored(outcome)]}
             /\ hidden' = hidden + hit
  /\ UNCHANGED <<listing, ctx, pc, page, collected, chunk, throttled, cooled, stats, dispatch,
                 attempted, shifts>>

Items(outcome) == Cardinality({i \in DOMAIN work : work[i] = outcome})

\* Mutant: stored failures are searched for rate limits, too.
countRateLimitedItemsStored ==
  Cardinality({i \in DOMAIN work :
    work[i] = "limited" \/ (work[i] = "already_failed" /\ row[Chunk(chunk)[i]] = "limited")})

\* Fresh errors only: an already failed item may carry an old 429 text.
countRateLimitedItems == Items("limited")

countBatchOutcomes ==
  [newly |-> stats.newly + Items("newly"),
   done |-> stats.done + Items("already_done"),
   pending |-> stats.pending + Items("already_pending"),
   alreadyFailed |-> stats.alreadyFailed + Items("already_failed"),
   failed |-> stats.failed + Items("failed") + Items("limited"),
   limited |-> stats.limited + countRateLimitedItems]

(* RunBatch returns its items.                                             *)
BatchReturns ==
  /\ pc = "run"
  /\ \A i \in DOMAIN work : work[i] \in ItemOutcomes
  /\ stats' = countBatchOutcomes
  /\ Throttle(stats.limited + countRateLimitedItems)
  /\ work' = <<>>
  /\ pc' = "chunk"
  /\ NextBatch
  /\ UNCHANGED <<listing, row, ctx, page, collected, dispatch, limitedRuns, hidden, attempted,
                 shifts, faults>>

Cycle ==
  \/ FetchPage \/ FetchFails \/ EndCycle
  \/ Cooldown \/ CooldownCanceled
  \/ ConversionFails \/ Dispatch \/ DispatchFails
  \/ \E i \in DOMAIN work : Claim(i) \/ Settle(i)
  \/ BatchReturns

Stopped == pc = "stopped" /\ UNCHANGED vars

Next == Shift \/ Cancel \/ Tick \/ Stop \/ Cycle \/ Stopped

Spec == Init /\ [][Next]_vars

\* The goroutine runs and the ticker fires.  select picks a ready branch at
\* random, so ctx.Done() is not passed over for ever: strong fairness.
FairSpec == Spec /\ WF_vars(Tick \/ Cycle) /\ SF_vars(Stop)

-----------------------------------------------------------------------------
(* Properties                                                              *)

\* Every variable has its type.
TypeOK ==
  /\ listing \in Seq(Articles)
  /\ row \in [Articles -> RowStatuses]
  /\ ctx \in {"live", "canceled"}
  /\ pc \in {"select", "fetch", "chunk", "run", "stopped"}
  /\ page \in 0..MaxPagesPerCycle
  /\ collected \in Seq(Articles)
  /\ chunk \in 1..(Chunks + 1)
  /\ throttled \in BOOLEAN /\ cooled \in BOOLEAN
  /\ DOMAIN stats = DOMAIN NoStats /\ \A k \in DOMAIN stats : stats[k] \in 0..Len(collected)
  /\ work \in Seq(ItemStates)
  /\ dispatch.concurrency \in 0..DispatchConcurrency
  /\ limitedRuns \in 0..Len(collected) /\ hidden \in 0..limitedRuns
  /\ attempted \subseteq Articles

Handled == Least((chunk - 1) * BatchSize, Len(collected))

\* Every collected article is accounted for under exactly one counter as soon
\* as its batch is through: in a completed cycle the five counters of
\* cycle_completed add up to article_count, whatever was skipped, failed,
\* listed twice or cancelled.
CycleAccounting ==
  pc \in {"chunk", "run", "select"} =>
    stats.newly + stats.done + stats.pending + stats.alreadyFailed + stats.failed = Handled

\* A batch runs at half the concurrency and after a cooldown exactly when the
\* rate limits that THIS cycle met before it reach the threshold: failures that
\* earlier cycles stored never throttle, and once on, the throttle stays on.  A
\* rate limit counts only if the failure it caused could be stored: otherwise the
\* error of the upsert takes the place of the one that names it (persist.go:87).
ThrottleFollowsFreshLimits ==
  dispatch # NoDispatch =>
    LET due == dispatch.limitedBefore - dispatch.hiddenBefore >= RateLimitThreshold IN
      /\ dispatch.cooled = due
      /\ dispatch.concurrency = IF due THEN throttledConcurrency ELSE DispatchConcurrency

\* An article that the shifting listing put into a batch twice is extracted by one
\* of its items at a time, and never beside a row that says it is settled.
ExtractedByOneItem ==
  \A i, j \in Extracting :
    /\ Chunk(chunk)[i] = Chunk(chunk)[j] => i = j
    /\ row[Chunk(chunk)[i]] = "pending"

\* An article within reach of the paging whose whole batch can be converted.
WithinReach(a) ==
  \E i \in DOMAIN listing :
    /\ listing[i] = a
    /\ i <= PageSize * MaxPagesPerCycle
    /\ LET first == ((i - 1) \div BatchSize) * BatchSize + 1
           reach == SubSeq(listing, 1, Least(PageSize * MaxPagesPerCycle, Len(listing)))
       IN Converts(Slice(reach, first, BatchSize))

\* An article that upstream keeps listing, in a place where paging gets to it
\* and next to convertible articles only, is dispatched in the end, although
\* the listing shifted, pages failed and other batches could not be converted;
\* unless the root context is cancelled first.
ListedGetsAttempted ==
  \A a \in Articles : <>[]WithinReach(a) => <>(a \in attempted \/ ctx = "canceled")

\* After the root context is cancelled the loop ends, wherever it was.
StopsWhenCanceled == ctx = "canceled" ~> pc = "stopped"
=============================================================================
