----------------------------- MODULE BatchPool -----------------------------
(***************************************************************************)
(* RunBatchAndPersistWithOutcome (internal/app/extraction/                 *)
(* batch_persist.go): a producer hands the indices of a batch to a fixed   *)
(* number of workers over an unbuffered channel, each worker runs the      *)
(* persisted extraction of its article and stores the result in the slot   *)
(* of the index, and the batch returns after wg.Wait.                      *)
(*                                                                         *)
(* Several batches (HTTP requests and scheduler cycles) run at the same    *)
(* time against the same rows.  The extraction itself is                   *)
(* ExtractionLifecycle, instantiated with one call per batch index; a call *)
(* moves only while a worker is executing it.                              *)
(***************************************************************************)
EXTENDS Naturals, Sequences, FiniteSets

CONSTANTS
  Articles,
  Batches,
  ArticlesOf,    \* ArticlesOf[b]: the articles given to batch b, in order
  Concurrency,   \* Concurrency[b]: workers of batch b (0 is replaced by the default)
  StopAfter,     \* opts.StopAfter; 0 means no limit
  NoCall,
  Faults

Limit(b) ==
  IF StopAfter > 0 /\ StopAfter < Len(ArticlesOf[b]) THEN StopAfter ELSE Len(ArticlesOf[b])

Indices(b) == 1..Limit(b)

Workers(b) == 1..Concurrency[b]

\* The call that handles index i of batch b is <<b, i>>.
Calls == UNION {{b} \X Indices(b) : b \in Batches}

ASSUME BatchAssumption ==
  /\ ArticlesOf \in [Batches -> Seq(Articles)]
  /\ Concurrency \in [Batches -> Nat \ {0}]
  /\ StopAfter \in Nat
  /\ NoCall \notin Calls
  /\ Faults \subseteq {"db", "cancel", "crash"}

VARIABLES
  row, pc, article, ctx, reply, owner, ran,   \* the extraction calls and rows
  phase,     \* phase[b]: where the caller of RunBatchAndPersistWithOutcome is
  next,      \* next[b]: the index the producer sends next
  job,       \* job[b][w]: 0 while worker w receives, its index while it works
  running,   \* running[b]: the workers that have not called wg.Done
  items,     \* items[b]: result.Items
  counts     \* counts[b]: Total, SuccessCount and FailureCount

Life == INSTANCE ExtractionLifecycle

lifeVars == <<row, pc, article, ctx, reply, owner, ran>>
poolVars == <<phase, next, job, running, items, counts>>
vars == <<lifeVars, poolVars>>

-----------------------------------------------------------------------------
Phases == {"new", "sending", "waiting", "returned", "lost"}

NoJob == 0

NoItem == [article |-> NoCall, reply |-> Life!NoReply]

\* Mutant: every result is reported as freshly extracted.
ItemAlwaysFresh(c) ==
  [article |-> article[c],
   reply |-> IF reply[c].kind = "already_done" THEN Life!Answer("newly_extracted", reply[c].value)
             ELSE reply[c]]

\* A worker builds its item from the article and what the call returned.
Item(c) == [article |-> article[c], reply |-> reply[c]]

\* item.Error is set for a Go error and for an already_failed outcome.
HasError(item) == item.reply.kind \in Life!Errors \cup {"already_failed"}

Zero == [total |-> 0, success |-> 0, failure |-> 0]

Tally(slots) ==
  LET failed == {i \in DOMAIN slots : HasError(slots[i])}
  IN [total |-> Len(slots),
      success |-> Cardinality(DOMAIN slots \ failed),
      failure |-> Cardinality(failed)]

Init ==
  /\ Life!Init
  /\ \A c \in Calls : article[c] = ArticlesOf[c[1]][c[2]]
  /\ phase = [b \in Batches |-> "new"]
  /\ next = [b \in Batches |-> 1]
  /\ job = [b \in Batches |-> [w \in Workers(b) |-> NoJob]]
  /\ running = [b \in Batches |-> {}]
  /\ items = [b \in Batches |-> <<>>]
  /\ counts = [b \in Batches |-> Zero]

(* The caller allocates the slots and starts the workers; an empty batch   *)
(* returns at once.                                                        *)
Begin(b) ==
  /\ phase[b] = "new"
  /\ items' = [items EXCEPT ![b] = [i \in Indices(b) |-> NoItem]]
  /\ IF Limit(b) = 0
     THEN /\ phase' = [phase EXCEPT ![b] = "returned"]
          /\ UNCHANGED running
     ELSE /\ phase' = [phase EXCEPT ![b] = "sending"]
          /\ running' = [running EXCEPT ![b] = Workers(b)]
  /\ counts' = [counts EXCEPT ![b].total = Limit(b)]
  /\ UNCHANGED <<lifeVars, next, job>>

(* jobs <- i meets a receiving worker, which enters its extraction.        *)
HandOver(b, w) ==
  /\ phase[b] = "sending"
  /\ next[b] <= Limit(b)
  /\ w \in running[b]
  /\ job[b][w] = NoJob
  /\ job' = [job EXCEPT ![b][w] = next[b]]
  /\ next' = [next EXCEPT ![b] = @ + 1]
  /\ Life!Start(<<b, next[b]>>)
  /\ UNCHANGED <<phase, running, items, counts>>

(* The worker's goroutine inside RunAndPersistWithOutcome.                 *)
Extract(b, w) ==
  /\ job[b][w] # NoJob
  /\ Life!Step(<<b, job[b][w]>>)
  /\ UNCHANGED poolVars

(* result.Items[idx] = item, then the worker receives again.               *)
Store(b, w) ==
  /\ job[b][w] # NoJob
  /\ pc[<<b, job[b][w]>>] = "returned"
  /\ items' = [items EXCEPT ![b][job[b][w]] = Item(<<b, job[b][w]>>)]
  /\ job' = [job EXCEPT ![b][w] = NoJob]
  /\ UNCHANGED <<lifeVars, phase, next, running, counts>>

\* Mutant: the producer's loop ends one index early.
CloseOneEarly(b) ==
  /\ phase[b] = "sending"
  /\ next[b] >= Limit(b)
  /\ phase' = [phase EXCEPT ![b] = "waiting"]
  /\ UNCHANGED <<lifeVars, next, job, running, items, counts>>

\* Mutant: the channel is closed after the whole list, limit or not.
CloseAfterAll(b) ==
  /\ phase[b] = "sending"
  /\ next[b] > Len(ArticlesOf[b])
  /\ phase' = [phase EXCEPT ![b] = "waiting"]
  /\ UNCHANGED <<lifeVars, next, job, running, items, counts>>

(* close(jobs) after the last index was received.                          *)
Close(b) ==
  /\ phase[b] = "sending"
  /\ next[b] > Limit(b)
  /\ phase' = [phase EXCEPT ![b] = "waiting"]
  /\ UNCHANGED <<lifeVars, next, job, running, items, counts>>

(* A worker's range loop ends on the closed channel: wg.Done.              *)
Exit(b, w) ==
  /\ phase[b] = "waiting"
  /\ w \in running[b]
  /\ job[b][w] = NoJob
  /\ running' = [running EXCEPT ![b] = @ \ {w}]
  /\ UNCHANGED <<lifeVars, phase, next, job, items, counts>>

\* Mutant: wg.Wait is missing.
FinishWithoutWait(b) ==
  /\ phase[b] = "waiting"
  /\ counts' = [counts EXCEPT ![b] = Tally(items[b])]
  /\ phase' = [phase EXCEPT ![b] = "returned"]
  /\ UNCHANGED <<lifeVars, next, job, running, items>>

(* wg.Wait returns; the counters are computed and the batch returns.       *)
Finish(b) ==
  /\ phase[b] = "waiting"
  /\ running[b] = {}
  /\ counts' = [counts EXCEPT ![b] = Tally(items[b])]
  /\ phase' = [phase EXCEPT ![b] = "returned"]
  /\ UNCHANGED <<lifeVars, next, job, running, items>>

(* The context shared by all calls of the batch is cancelled.              *)
Cancel(b) ==
  /\ "cancel" \in Faults
  /\ phase[b] \in {"sending", "waiting"}
  /\ \E c \in Calls : c[1] = b /\ ctx[c] = "live"
  /\ ctx' = [c \in Calls |-> IF c[1] = b THEN "canceled" ELSE ctx[c]]
  /\ UNCHANGED <<row, pc, article, reply, owner, ran, poolVars>>

(* The process exits: all calls and all batches of the process are gone.   *)
Crash ==
  /\ Life!Crash
  /\ phase' = [b \in Batches |-> IF phase[b] \in {"sending", "waiting"} THEN "lost" ELSE phase[b]]
  /\ job' = [b \in Batches |-> [w \in Workers(b) |-> NoJob]]
  /\ running' = [b \in Batches |-> {}]
  /\ UNCHANGED <<next, items, counts>>

\* All batches have ended.
Ended ==
  /\ \A b \in Batches : phase[b] \in {"returned", "lost"}
  /\ UNCHANGED vars

Worker(b, w) == HandOver(b, w) \/ Extract(b, w) \/ Store(b, w) \/ Exit(b, w)

Caller(b) == Begin(b) \/ Close(b) \/ Finish(b)

Next ==
  \/ \E b \in Batches : Caller(b) \/ Cancel(b) \/ \E w \in Workers(b) : Worker(b, w)
  \/ Crash
  \/ Ended

Spec == Init /\ [][Next]_vars

\* The goroutines of a batch that has begun are scheduled: as long as one of
\* them can move, one of them does.
FairSpec ==
  Spec /\ \A b \in Batches : WF_vars(Close(b) \/ Finish(b) \/ \E w \in Workers(b) : Worker(b, w))

-----------------------------------------------------------------------------
(* Properties                                                              *)

\* Every variable of the pool has its type.
TypeOK ==
  /\ Life!TypeOK
  /\ phase \in [Batches -> Phases]
  /\ \A b \in Batches :
       /\ next[b] \in 1..(Limit(b) + 1)
       /\ job[b] \in [Workers(b) -> Indices(b) \cup {NoJob}]
       /\ running[b] \subseteq Workers(b)
       /\ items[b] \in Seq([article: Articles \cup {NoCall}, reply: Life!Reply])
       /\ counts[b] \in [total: Nat, success: Nat, failure: Nat]

\* A batch returns only when every slot holds the item of its own index (the
\* article at that index and the reply of the call made for that index) and
\* the counters account for every slot.  This is what wg.Wait and the disjoint
\* slots of the workers are for.
ReturnedItemsComplete ==
  \A b \in Batches : phase[b] = "returned" =>
    /\ Len(items[b]) = Limit(b)
    /\ \A i \in Indices(b) :
         /\ items[b][i].article = ArticlesOf[b][i]
         /\ items[b][i].reply = reply[<<b, i>>]
         /\ items[b][i].reply # Life!NoReply
    /\ counts[b].total = Limit(b)
    /\ counts[b].success + counts[b].failure = Limit(b)

\* Over all slots of all batches, duplicated ids included, an article is
\* reported as newly extracted at most once.
OneFreshResultPerArticle ==
  \A b, d \in Batches : \A i \in DOMAIN items[b], j \in DOMAIN items[d] :
    /\ items[b][i].reply.kind = "newly_extracted"
    /\ items[d][j].reply.kind = "newly_extracted"
    /\ items[b][i].article = items[d][j].article
    => <<b, i>> = <<d, j>>

\* When a batch returns, each of its articles is settled, or a call of another
\* batch is still extracting it, or a fault met a call on that very article: the
\* duplicates and races inside a batch leave nothing pending, and nothing behind.
SettledWhenReturned ==
  \A b \in Batches : phase[b] = "returned" =>
    \A i \in Indices(b) :
      LET a == ArticlesOf[b][i] IN
        \/ row[a].status \in {"done", "failed"}
        \/ \E c \in Calls : c[1] # b /\ article[c] = a /\ pc[c] \in Life!Owning
        \/ Life!Faulted(a)

\* A batch that has begun returns, or its process exits.
BatchesReturn ==
  \A b \in Batches : phase[b] = "sending" ~> phase[b] \in {"returned", "lost"}
=============================================================================
