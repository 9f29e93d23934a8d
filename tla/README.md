# TLA+ models of the event aggregator

The program polls an upstream article service, has an LLM extract economic
impact from each article, stores the results in PostgreSQL and clusters them
into events. This directory models its concurrent and numeric core in TLA+, has
TLC check the models on small instances, and has TLAPS prove their safety
properties for instances of any size: the claim on an article and what it
promises, the batch pool, incremental clustering, what it promises and its
arithmetic, the scheduler's accounts, the client's retries, the text that is
sent, the batch endpoint, and the server's middlewares.

    tlc  -workers 2 -config MCBatchPool_races.cfg MCBatchPool
    tlapm ExtractionLifecycleProofs.tla

`PROJECT.json` maps every definition to the lines it models and lists runs,
hazards, findings and theorems. File names below are under `src/internal/`
unless they start with `main.go`.

## Inventory

| Component | State | Operations | What is hard | What makes it correct |
|---|---|---|---|---|
| Persisted extraction (`app/extraction/persist.go`, `run.go`, `repository/extraction/repository.go`) | one row per article: pending, done, failed | claim (INSERT ... DO NOTHING), read of the existing row, LLM call, UpsertSuccess, UpsertFailure | callers race, every statement can fail with an unknown effect, contexts are cancelled, the process exits without waiting | the LLM is paid for once per article; answers are true of the row; settled rows stay; only faults strand an article |
| Batch pool (`app/extraction/batch_persist.go`) | result slots, job channel, WaitGroup | start workers, hand out indices, store, close, wait, count | unlocked shared slice, unbuffered channel, duplicates | a returned batch is complete; it returns |
| Event clustering (`app/events/cluster.go`, `app/events/scheduler.go`, `repository_events.go`) | event rows, clustering cursor | list since cursor, read-merge-write per row, store cursor | cycles fail half-way and are repeated, rows are dated before they are visible | each article folded once; the cursor passes nothing it has listed and not clustered |
| Event aggregates (`cluster.go`, `event/event.go`) | direction, strength, confidence, source count | start, merge, validate | a running mean of rounded values, a bonus inside the stored value | aggregates stay near what they stand for and always pass validation |
| Extraction scheduler (`app/scheduler/scheduler.go`) | stats, throttle, per cycle | page, chunk, convert, cool down, dispatch, count | the listing shifts under offset paging, partial failure, cancellation anywhere | everything collected is accounted for; throttle on fresh limits; nothing listed starves; it stops |
| LLM client (`llm/client.go`) | attempt, delay | request, classify, back off, wait | Retry-After overflow, cancellation against timeout | only transient answers are repeated, and not before the time asked for if a duration can hold it |
| Extraction endpoints (`http/handler.go`) | response items, queue per article | validate, look up, run, assign, count | repeated ids, results matched by id, pointers into a growing slice | every item gets its own result |
| Telemetry and recovery middleware (`observability/telemetry.go`, `http/middleware_recovery.go`), the server's end (`main.go`) | in-flight counts per route, zeros to report once, what has been sent of each response | increment, decrement, snapshot, answer, recover, count, flush on a signal | panics in any place, snapshots and lost exports between requests, exit under running requests | gauges catch up; a client never takes a panic for an answer; counts agree with what was sent |
| Preprocessing (`preprocess/preprocess.go`) | none | build, normalise, split, filter, rebuild, cut | windows of head and tail that are moved to sentence ends | what is sent fits and is a head and a tail of the kept sentences |
| Prompt, logging, configuration, request ids, start-up | none | text and formatting | | not modelled |

How they interact: HTTP handlers and the extraction scheduler call the batch
pool (or, for one article, the lifecycle directly); every worker runs the
lifecycle, whose `Run` prepares the text and calls the LLM client; all of them
share the rows. Every request passes the telemetry and the recovery middleware. The
clustering scheduler reads done rows and owns the event rows and the cursor.
`main.go` starts both schedulers and the server, and on a signal cancels the
root context and shuts the server down without waiting for the schedulers.

## Modules

| Module | Models | Composes |
|---|---|---|
| `ClaimOnce` | abstract: what persisted extraction promises, with no statements or locations | |
| `ExtractionLifecycle` | `RunAndPersistWithOutcome`, `Run` and the repository's statements | implements `ClaimOnce` |
| `ExtractionLifecycleProofs` | its inductive invariant and theorems, and that it implements `ClaimOnce` | extends `ExtractionLifecycle` |
| `BatchPool` | `RunBatchAndPersistWithOutcome` | instantiates `ExtractionLifecycle`, one call per index |
| `BatchPoolProofs` | its theorems | extends `BatchPool`, instantiates `ExtractionLifecycleProofs` |
| `FoldOnce` | abstract: what clustering promises readers of events, with no cycles or retries | |
| `EventClustering` | the clustering cycle and finishing extractions | implements `FoldOnce` |
| `EventClusteringProofs` | its inductive invariant and theorems, and that it implements `FoldOnce` | extends `EventClustering` |
| `EventAggregates` | the arithmetic of `MergeEvent` | the data that `EventClustering` abstracts from |
| `EventAggregatesProofs` | its theorems | extends `EventAggregates` |
| `SchedulerCycle` | the extraction scheduler | abstracts `BatchPool` to items that claim and settle |
| `SchedulerCycleProofs` | its theorems | extends `SchedulerCycle` |
| `LlmRetry` | `Client.Extract` and its retry loop | |
| `Preprocess` | the package `preprocess`, as operators | |
| `ExtractionRun` | `Run`: check, prepare, check, call, check | extends `Preprocess` and `LlmRetry` |
| `ExtractionRunProofs` | its theorems about the retries and the text | extends `ExtractionRun` |
| `HttpServer` | both middlewares, writing an answer, shutdown | abstracts handlers to how they answer or fail |
| `HttpServerProofs` | its theorems | extends `HttpServer` |
| `ExtractEndpoints` | the two POST handlers | abstracts `BatchPool` to any outcome per item |
| `ExtractEndpointsProofs` | its theorems | extends `ExtractEndpoints` |

Each `MC` module gives its component's constants their values.

### ExtractionLifecycle

`row` is the table, `pc[c]` the place of call `c` in `RunAndPersistWithOutcome`,
`reply[c]` what it returned. `ClaimPending`, `ReadExisting`, `UpsertSuccess`,
`UpsertFailure` are one SQL statement each, and each has a failing twin
(`ClaimPendingFails`, ...) in which the caller sees an error while the server
may or may not have executed it. `RejectInput`, `CallExtractor`,
`ExtractorSucceeds` and `ExtractorFails` are the exits of `Run`. `Cancel` is
the end of the caller's context, after which every statement fails; `Crash`
removes all running calls and leaves the rows. Calls that start later stand for
the next process. `owner` and `ran` are history. Extracted fields are
abstracted to the call that produced them.

`ClaimOnce` knows a slot per article, taken once and settled once, and one
answer per call. The refinement `Promise` maps a row and its owner to the slot
and a reply to the answer; the property `ImplementsClaimOnce` is `ClaimOnce!Spec`.

### BatchPool

`phase[b]` is the caller, `next[b]` the producer's loop, `job[b][w]` what worker
`w` is doing, `running[b]` the WaitGroup, `items[b]` the slots. A hand-over is
one step of producer and worker, as on an unbuffered channel. A worker inside
an extraction takes `Life!Step` of its call. Each batch has its own
concurrency, as the handler's and the scheduler's differ.

### EventClustering and EventAggregates

`Stamp` and `Commit` separate `finishedAt := time.Now()` from the commit of
`UpsertSuccess`. The cycle has one action per repository call; `Abort` is a
failure of any of them (a failed write may have been executed) or a restart.
An event's numbers are reduced to `folded`, how often each article was taken
in; `EventAggregates` has the numbers.

`FoldOnce` knows which articles are done and when, which are listed, the events
and the cursor. All that is done after the cursor is listed at once, a listed
article is folded into its event once, the event is then the exact account of
its articles (each counted once, first and last seen at the least and the
greatest timestamp), and the cursor passes a listed article only when it is
folded. The model's clock does not go back; the code takes cursors from
`time.Now` and stores them without a comparison with the stored one, so
`CursorNeverMovesBack` is as good as the wall clock. An article may become done with a time behind the cursor: nothing is
promised of it, which is the finding `clustering_skipped`. The refinement
`Promised` makes a row done when it is committed and forgets the cycle;
`ImplementsFoldOnce` is `FoldOnce!Spec`.

In `EventAggregates` a confidence is in hundredths times the source count, which makes every value an
exact integer; the binary rounding of `float64` is the one thing this leaves out.

### SchedulerCycle

One action per step of `runCycle`: a page, a failed page, the cooldown, a batch
that cannot be converted, a dispatch, one that fails, the return of a batch.
The items of a batch `Claim` and `Settle` in any order, at most `concurrency`
at a time. Their statements may fail, under a cancelled or a live context, and
with an unknown effect on the row (`Fails`, `ClaimFails`): the item's error is
then that of the statement. After a 429 it takes the place of the text that
names the rate limit (`persist.go:87`), and the scheduler, which looks for that
text, does not count it. `limitedRuns` counts the rate limits that were met and
`hidden` those whose failure could not be stored. `Shift` is the upstream listing changing between two pages. Initial
rows have any status, as they come from earlier processes. `DispatchFails`
covers the runner interface's error; with the runner `main.go` wires in it is a
setup error only, and `RunnerErrors` says which errors an instance allows.

### LlmRetry

`Answered(kind)` is the return of `doOnce`; kinds group statuses and transport
errors by what the loop does with them. Durations wrap around at
`DurationLimit`, as `time.Duration` does at 2^63 ns. A wait has its `delay` and
what was `asked` for, which is not wrapped: the header's seconds are multiplied
and wrap (`HeaderWaits`), a delay in the body is converted from a float, which
beyond the range gives the least or the greatest duration (`Converted`).

### Preprocess and ExtractionRun

A text is a sequence of characters of seven kinds: a letter, a boilerplate
marker, a user interface word, a sentence end, another separator, other
punctuation, and a blank. `Normalize`, `SplitFragments`, the filters,
`RebuildText`, `findBestSentenceBoundary` and `HeadTailExtract` are operators on
them; window, tolerance and word limit are constants. `ExtractionRun` takes an
article through `Run`: `sections` are its text fields, `text` is
`ExtractInput.Text`. `RejectArticle` and `RejectRequest` are the two checks
before the call, `Extracting` is a step of `LlmRetry`, and an answer that is not
valid or names another article is `LlmRetry`'s "malformed".

### HttpServer

`pc[r]` is the place of request `r` on its way through the middlewares.
`started` is the recovery's view of the response, `statusCode` the recorder's,
`status` and `body` what net/http was given, `client` what the client made of
it. `increment`, `decrement` and `snapshot` are the tracker's methods, one step
each because of its mutex; `Collect` is the registered callback, `Deliver` and
`Lose` the fate of an export. A handler is reduced to how it ends: it answers,
its payload cannot be encoded, it panics or aborts before the status line, before
the body or after it (`Unwinds`), or a goroutine of its own panics, which ends the process. `Signal`,
`LastCollect` and `Exit` are `main`'s end: `ListenAndServe` returns as soon as
`Shutdown` begins, so the process may exit under running requests.

### ExtractEndpoints

A request, the upstream page, the items and their queue per article id, the
articles to extract (`validAppArticles`), the batch result, the counters. `Build`
is one turn of the loop that makes an item of an id and queues it if its article
can be extracted, `Built` the end of that loop, `Assign` gives the next result to
the first item that waits for its article. The queues of the code hold pointers
into the array of the items. The model's hold places, with the `capacity` of that
array and the places whose pointers are `stale` because `append` has moved the
items since (`Grow`); what is written through a stale pointer is not seen. Dependencies that are not configured (a 500 before
anything else) are excluded by start-up.

## Runs

| Run | Instance | Shows |
|---|---|---|
| `lifecycle_races` | 3 calls, 2 articles, all faults | type, `OneRunPerArticle`, `StrandedOnlyByFaults`, `RepliesAgreeWithRow`, `RowsComeFromRuns`, `SettledForever`, refinement of `ClaimOnce` (`ImplementsClaimOnce`); under fairness `CallsReturn`, `PendingSettles` |
| `lifecycle_stranded` (violation) | 2 calls, crash | a pending row need not be in progress |
| `pool_races` | batches of 3 (two slots of one article, limit 2) and 1 that overlap, all faults | completeness, one fresh result, only faults leave an article of a returned batch pending, `BatchesReturn` |
| `clustering_cycles` | 3 articles, 2 keys, 4 clock values, 2 failures | exact folding and bounds, cursor safety, refinement of `FoldOnce` (`ImplementsFoldOnce`), `ListedGetsClustered` |
| `clustering_skipped` (violation) | 3 articles, no failure | a result that becomes visible late is never clustered |
| `aggregates_folds` | 5 articles, 13 kinds of extraction | the numeric bounds, and no row that blocks clustering |
| `aggregates_majority` (violation) | 4 articles | the direction is not the majority's |
| `scheduler_cycles` | 3 articles (one inconvertible), pages of 1, batches of 2, one shift, one failed page or statement | accounting, throttling on limits whose failure could be stored, one extraction per article (`ExtractedByOneItem`), `ListedGetsAttempted`, `StopsWhenCanceled` |
| `run_articles` | 6 titles with every body of up to 5 characters, cut at 12; 4 attempts, cap reached, waits beyond the range of a duration that wrap to a negative and to a short one | `InputIsHeadAndTail`, `SentencesSurvive`, retry discipline, `RunReturns` |
| `run_retryafter` (violation) | one article, Retry-After of 30 s and of a time beyond the range | a wait may end before the time the provider asked for |
| `server_requests` | 3 requests on 2 routes, one failing in any way and place, lost exports, a signal | `GaugeCatchesUp`, `OneWholeAnswer`, `CountedAsSent`, `IdleRoutesForgotten` |
| `endpoint_responses` | requests of up to 4 ids of 5 kinds | items, results and counters match |

Why the bounds are enough. Races on a row involve one winner and its losers:
three calls give a winner, a loser that reads while it runs and one that reads
after it. A worker that takes a second job, two slots of one article and a
foreign batch on it all occur with two slots, two workers and one more batch. Two failures in clustering allow a
failing retry of a failed cycle. Five articles reach the clamped and the
unclamped side of the confidence and several roundings of the mean. Pages of
one with a third page let the listing shift between any two pages of a cycle;
the shift puts the inconvertible article into the batch of another one. In the
LLM instance the third back-off meets the cap, and with a duration's range at
204 s a Retry-After of 300 s wraps to a negative wait, one of 410 s to a short
one, and a body's delay of 5000 (250 s) to either end of the range. One failing
statement suffices to hide a rate limit from the batch after it. The status that
handlers answer with is neither the recorder's initial 200 nor the recovery's 500,
so that it cannot be taken for one of them. Titles and bodies of up to ten
characters with labels and blanks around them are long enough for texts on both
sides of the limit of 12, with sentence ends before, at and behind both targets
and with head and tail windows that meet. Two requests of a route make its count
go from two to one to zero around a snapshot, and the third shows that routes
do not mix; the failing one is enough, because failures do not interact except
by ending the process.

Bounds that exist in the models only: `MaxTime`, `MaxFailures`, `MaxShifts`,
`MaxFaults`, `MaxIds`, and the finite set of calls (each starts once). Deadlock
is checked wherever the system goes on for ever or has an explicit end state;
it is off for the lifecycle, `ExtractionRun` and `ExtractEndpoints`, whose
instances end when their calls have returned.

## Fairness

* `ExtractionLifecycle`: weak fairness of each call's own steps. A goroutine
  runs, statements return or fail, and the LLM client has a timeout. Callers
  need not start; cancellation and exits are not fair.
* `BatchPool`: as long as a goroutine of a begun batch can move, one does.
* `EventClustering`: weak fairness of the cycle, whose ticker keeps firing.
  Failures are bounded, so that `ListedGetsClustered` reads: when they end.
* `SchedulerCycle`: weak fairness of the loop; strong fairness of `Stop`,
  because Go's `select` picks among ready branches at random, so that a done
  context is not passed over for ever.
* `ExtractionRun`: weak fairness of the client's steps: requests end by the HTTP
  timeout and timers fire. The steps before the call are not fair: they are
  sequential code, and `RunReturns` begins with the call.
* `HttpServer`: weak fairness of each handler's steps (every call it makes ends),
  of the exporter (its ticker fires, exports end by a timeout) and of `main`
  after the signal. Requests need not arrive, connections need not end.

## Findings

* `lifecycle_stranded`: `repository.go:71` calls a pending row "started and in
  progress". After a process exit it may be neither, and no code revisits it:
  every later claim answers `already_pending`.
* `clustering_skipped`: `events/scheduler.go:29` promises that new results are
  clustered each interval. `finishedAt` is taken before the commit, the listing
  is strictly after the cursor, and the cursor may already be newer.
* `aggregates_majority`: `cluster.go:356` says "majority vote", but the votes
  of earlier articles are all cast for the stored direction: a mixed article and
  a negative one tie as mixed, which then has two votes against each later
  negative article.
* `run_retryafter`: `client_test.go:437` says that a Retry-After "is honored even
  when > backoff max". Only the seconds are tested for their sign, not their
  product with `time.Second` (`client.go:267-271`): `Retry-After: 18446744074`
  wraps around to about 0.29 s, and the request is repeated after that.

Noted without a run:

* `handler.go:309` says that invalid ids are rejected before any upstream fetch;
  the batch handler fetches (`handler.go:363`, `Fetch`) before it looks at them
  (`handler.go:384`, `Build`), and answers 200 with a failed item.
* A rate limit whose failure cannot be stored does not count towards the
  throttle (`persist.go:87`, `scheduler.go:297`): `ThrottleFollowsFreshLimits`
  excepts it by name, with `hiddenBefore`.
* The README's list of statuses of `/api/extract/run` does not have
  `already_failed`, which the handler returns.
* `handler.go:686` says that `writeJSON` writes an internal error status if
  encoding fails; the status line is out by then (`HttpServer`'s `EncodeFails`,
  the exception in `OneWholeAnswer` and `CountedAsSent`).
* The README (line 225) says that logs are identical on stdout/stderr and in the
  OTel pipeline; `logger.go:121` returns before the latter when an entry cannot
  be marshalled.

## Proofs

Every theorem holds for all values of the constants that satisfy the named
assumption of its module. Each proof module states an inductive invariant
`IInv`, proves that the initial states satisfy it and that every action keeps
it (one lemma or step per action), and derives the properties from it without
looking at steps again.

### The claim on an article

`ExtractionLifecycleProofs` proves, for every set of articles and of calls and
every choice of faults, from `LifecycleAssumption` alone (`NoCall` is no call;
the faults are among the three kinds; neither set need be finite):

| Theorem | Property |
|---|---|
| `TypeCorrect` | `TypeOK` |
| `AtMostOneRun` | `OneRunPerArticle` |
| `FaultsStrand` | `StrandedOnlyByFaults` |
| `TruthfulReplies` | `RepliesAgreeWithRow` |
| `ResultsFromRuns` | `RowsComeFromRuns` |
| `SettledRowsStay` | `SettledForever` |

None of these is inductive: `OneRunPerArticle`, for one, says nothing of two
calls that have both been granted and have not run yet. The inductive invariant
ties each call to the row of its article through `owner`: whoever has passed
its claim is the owner of its article's row, an owned row is pending until its
owner's last statement, every finished run belongs to an owner, and what a
reply says is what the row says. From it each property follows without looking
at steps; `SettledForever` needs it once more to see that no step writes a
settled row. `Invariance` states it; its proof has one step per action, and the
lemmas `ClaimStep` and `SettleStep` say what the two kinds of row update
preserve.

The same module proves `Refinement`: `Spec => ImplementsClaimOnce`. A
statement that writes a row is `Take` or `Settle` of `ClaimOnce`, whether or not
its caller hears of it; a reply without a write is `Observe` or `GiveUp`; every
other step leaves slots and answers alone. The inductive invariant is needed to
see that the writer is the owner and that the row read still says what the reply
will say.

### The batch pool

`BatchPoolProofs` proves, from `BatchAssumption` (every batch has a worker; no
bound on batches, articles or workers):

| Theorem | Property |
|---|---|
| `TypeCorrect` | `TypeOK` |
| `CompleteWhenReturned` | `ReturnedItemsComplete` |
| `OneFreshResult` | `OneFreshResultPerArticle` |
| `Settles` | `SettledWhenReturned` |

The calls are those of the lifecycle, so the lifecycle's invariant is used as it
stands (`StepOfCall`); a batch's cancellation reaches several calls at once,
which no lifecycle step does, and touches nothing but contexts. The pool adds
that an index below `next` is some worker's job or in its slot (`HandledKept`),
that no two workers have the same job and that a worker with a job has not left
(`OwnJobs`), and that a filled slot was filled by its own call (`OwnSlots`). When
`running` is empty no job is left, so everything handed over is in its slot.
`OneFreshResult` needs the lifecycle: two fresh replies for one article would
both be its row's result. That the two counters add up to the number of slots is
a fact about cardinalities (`Parts`).

Because the calls of all batches together keep the lifecycle's invariant, two
more theorems need no new argument about rows: `BatchesKeepThePromise` (the pool
implements `ClaimOnce`, so that a batch is given what a caller of one article is
promised) and `ExtractionsStaySafe` (`OneRunPerArticle`, `StrandedOnlyByFaults`
and `RepliesAgreeWithRow` hold of the pool's calls).

### Clustering

`EventClusteringProofs` proves, for every set of articles (natural numbers) and
keys, every clustering of the articles and every bound on clock and failures,
from `ClusteringAssumption`:

| Theorem | Property |
|---|---|
| `TypeCorrect` | `TypeOK` |
| `NothingListedIsLost` | `CursorPassesOnlyClustered` |
| `CursorMonotonic` | `CursorNeverMovesBack` |
| `FoldedOnce` | `FoldedExactlyOnce` |
| `SeenBounds` | `SeenBoundsExact` |
| `EventsKeepThePromise` | `ImplementsFoldOnce` |

`CursorPassesOnlyClustered` is not inductive, because it does not say what a
cycle may do with its stale copies. The inductive invariant `IInv` says that
they are not stale where it counts: `since` is still the stored cursor, the
event that was read is still the stored one, every listed row is clustered or
waits in `todo`, and a listed row is committed, so its timestamp is final. That
the event read belongs to the row written (both name the next row) needs the
order of the listing to have one first element, which `FirstExists` and
`FirstAgrees` prove from the well-foundedness of the naturals.
`FoldedExactlyOnce` and `SeenBoundsExact` are preserved given `IInv`; the lemmas
`MergedCounted` and `MergedBounded` are what one merge does to one event.

`EventsKeepThePromise` puts them together (`Accounts`): `Commit` is `Finish` of
`FoldOnce`, a write of a row that its event does not have is `Fold`, because an
event with each article counted once between exact bounds is the account of its
articles (`AccountExact`), a write of one it has changes nothing (`MergedAgain`),
and storing the cursor is `Advance`, because nothing waits in `todo` any more.

`EventAggregatesProofs` proves, from `AggregatesAssumption`, for any number of
articles folded into an event:

| Theorem | Property |
|---|---|
| `TypeCorrect` | `TypeOK` |
| `NothingPoisonous` | `NoPoisonedRow` |
| `StrengthBounds` | `StrengthWithinItems` |
| `DriftBounds` | `RoundingDriftBounded` |
| `ConfidenceBounds` | `ConfidenceNearMean` |

The invariant is the three bounds themselves and `EventOK`: what the source
count, the direction and the largest possible confidence of an event are. The steps are
integer arithmetic: one rounding is off by at most a half (`RoundError`), a mean
lies between its parts (`MeanBetween`), one more merge adds at most one more
rounding to the drift (`DriftGrows`), and the bonus for many sources is taken off
before it is added again (`BonusOnce`).

### The extraction scheduler

`SchedulerCycleProofs` proves, from `CycleAssumption`, for any listing, page and
batch size, concurrency, threshold and number of failures:

| Theorem | Property |
|---|---|
| `TypeCorrect` | `TypeOK` |
| `AccountsAddUp` | `CycleAccounting` |
| `ThrottlesWhenDue` | `ThrottleFollowsFreshLimits` |
| `OneItemExtracts` | `ExtractedByOneItem` |

`CycleAccounting` is not inductive: while a batch runs nothing of it is counted
yet. The invariant says what has been counted (`Accounted`: the batches before
the current one), that the items at work are the current batch's (`BatchItems`),
that the counter of rate limits lags behind those that were met by the hidden ones
and those of the running batch (`LimitsCounted`; `LostFailed` is the step of an
item whose statement fails), and that the throttle is set exactly when the counter is
at the threshold (`ThrottledWhenDue`). `TypeOK` needs in addition that pages and
batches do not run past what was collected (`Sized`); the number of batches is a
rounded-up quotient that only grows (`ChunksGrow`). `ExtractedByOneItem` is
inductive: a granted claim finds no row, and an item at work has one.

### The LLM client

`ExtractionRunProofs` proves about `RunSpec`, that is, about `Run` with the
client in it, from `RetryAssumption`, for every article, retry budget, delay,
cap and width of a duration:

| Theorem | Property |
|---|---|
| `TypeCorrect` | `TypeOK` of `LlmRetry` |
| `TransientRetries` | `RetriesOnlyTransient` |
| `RespectfulWaits` | `WaitsRespectProvider` |
| `CancelEnds` | `CancelEndsRetries` |
| `WithinBudget` | at most `retryMaxAttempts` requests are made |

The invariant relates the attempts to the answers and waits so far (`Progress`),
says of every answer but the last that it was transient (`Repeated`), of every
wait that it was long enough (`Patient`; a product within the range does not wrap,
and one beyond it only gets shorter, `WrapShortens` and `AskedForKept`), and counts what may still come after a
cancellation (`Ending`), and how many attempts are left (`Budgeted`).

### The text of an article

`ExtractionRunProofs` also proves, from `PreprocessAssumption` and
`ArticlesAssumption`, for every article, budget, joiner, tolerance and limit of
noise:

| Theorem | Property |
|---|---|
| `InputFits` | `InputIsHeadAndTail` |
| `SentencesStay` | `SentencesSurvive` |

The invariant is small (`Prepared`: the text of a request is what `Process` made
of its article); the rest is about the operators of `Preprocess`, for every text. They are
recursive functions over positions, never recursive operators, and what they
compute is characterised by the sequence of positions that are kept: `Keep`
lists them in order and each once (`KeepLists`), such an enumeration is unique
(`EnumerationsAgree`), and keeping distributes over concatenation
(`KeepConcat`). From there:

* `Normalize` leaves a neat text, without blanks at its ends or next to each
  other (`NormalizeNeatens`), and normalizes texts that are joined by a blank each
  by itself (`NormalizeGlued`).
* Splitting distributes over joining (`SplitConcat`, `SplitGlued`) and a sentence
  is its own only fragment (`SplitOne`), so that the sentences of the rebuilt text
  are those that it was rebuilt from (`SentencesRejoin`).
* A sentence boundary that was found lies within the tolerance of its target, so
  that head and tail do not overlap and fit together with the joiner
  (`CutFits`, `ProcessFits`).

### The batch endpoint

`ExtractEndpointsProofs` proves, from `EndpointsAssumption`, for any bound on the
length of a request and any ids, repeated, unknown and invalid ones included, and
any results of the batch:

| Theorem | Property |
|---|---|
| `TypeCorrect` | `TypeOK` |
| `OwnResults` | `EachItemItsOwnResult` |
| `TrueCounters` | `CountersAgreeWithItems` |

The invariant says that items, queue and the articles to extract grow together.
The rank of a place is the number of usable ids up to it: the articles to extract
are those of the usable places by rank (`BatchByRank`), the results that are left
are those of the next ranks (`ResultsByRank`), an item has the result of its rank
or is still pending (`ItemsByRank`), and the queue of an article holds the places
that wait for it, in order (`QueuesWait`). No pointer is ever stale, because the
loop begins with room for every id (`Roomy`). The first of them is therefore the
place of the next result of that article, and what is written there is seen.

### The server

`HttpServerProofs` proves, from `ServerAssumption`, for any requests, routes,
failures and lost exports:

| Theorem | Property |
|---|---|
| `TypeCorrect` | `TypeOK` |
| `TrueGauge` | `GaugeCatchesUp` |
| `WholeAnswers` | `OneWholeAnswer` |
| `TrueCounter` | `CountedAsSent` |

The invariant says for each place of a request what has been sent and what
recorder and recovery know of it (`Accountable`), what is final once it has left
(`Finished`), that the tracker's count is the number of requests inside
(`Counted`), and for a route without a count where its zero is: yet to be
reported, on its way, known, or lost (`Reported`).

### Model-checked only

Liveness, because fairness and `ENABLED` are out of the prover's reach:
`CallsReturn`, `PendingSettles`, `BatchesReturn`, `ListedGetsClustered`,
`ListedGetsAttempted`, `StopsWhenCanceled`, `RunReturns` and
`IdleRoutesForgotten`. Every other property that a passing run checks is stated
by a theorem. `TypeOK` is proved for every component; the run of the lifecycle
checks it, too.

## Not modelled, and why

* `Migrate`, `UpsertPending` (used by tests only), reads (`GetByArticleID`,
  `ListEvents`, `GetEventByID` and their handlers): no state change that the
  running program depends on.
* `RunBatch` without persistence (`batch.go`): called by its tests only.
* An event's status by age and its merged string sets: functions of the row
  that no later step reads.
* Error classification, logging, tracing, setting up the exporters,
  configuration and DSN parsing, the prompt: formatting or start-up.
* Request ids and forwarded headers: read, checked and passed on within one
  request. `Flush`, `Hijack` and `Push` of the recovery's writer: no handler
  calls them.
* The listing behind the last page of a cycle: what upstream keeps in front of
  it is not this program's to decide, so `ListedGetsAttempted` is about the
  articles within reach.
* Two processes at once share the rows: for the claim this is covered (calls do
  not know their process); two clustering schedulers at once are not.

## Plan

Next, in this order:

1. Two clustering schedulers on the same events and cursor, as two processes
   would have them: a second cycle between the read and the write of a row.
   `FoldedExactlyOnce` is expected to fail there, and the question is what
   remains true.
2. The handlers that only read, together with `EventClustering`: pages of events
   while a cycle rewrites them, with the status by age.
3. `ExtractEndpoints` over `BatchPool` itself instead of any outcome per item,
   with a proof that the pool delivers one result per article in the order asked.
4. The scheduler's items as calls of the lifecycle: `SchedulerCycle` abstracts
   them to a claim and a settlement, and `ClaimOnce` is what this should be shown
   to follow from.
