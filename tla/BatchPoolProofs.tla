-------------------------- MODULE BatchPoolProofs --------------------------
(***************************************************************************)
(* What a batch returns, for any batches, limits, numbers of workers and   *)
(* faults: the theorems about BatchPool.  The calls of the batches are the *)
(* calls of ExtractionLifecycle, so that its inductive invariant holds for *)
(* them; this module adds what the pool knows of its own indices.          *)
(***************************************************************************)
EXTENDS BatchPool, FiniteSetTheorems, SequenceTheorems, TLAPS

LP == INSTANCE ExtractionLifecycleProofs

-----------------------------------------------------------------------------
(* Calls                                                                   *)

LEMMA CallsAreIndices ==
  /\ \A b \in Batches : Limit(b) \in Nat
  /\ \A b \in Batches : \A i \in Indices(b) : <<b, i>> \in Calls
  /\ \A c \in Calls : c[1] \in Batches /\ c[2] \in Indices(c[1]) /\ c = <<c[1], c[2]>>
<1>1. \A b \in Batches : Limit(b) \in Nat
  <2> SUFFICES ASSUME NEW b \in Batches PROVE Limit(b) \in Nat
    OBVIOUS
  <2>1. Len(ArticlesOf[b]) \in Nat /\ StopAfter \in Nat
    <3>1. ArticlesOf[b] \in Seq(Articles)
      BY BatchAssumption
    <3> QED
      BY <3>1, BatchAssumption
  <2> QED
    BY <2>1 DEF Limit
<1> QED
  BY <1>1 DEF Calls

\* The steps of a call are those the lifecycle's invariant is about.
LEMMA SameSteps ==
  ASSUME NEW c \in Calls
  PROVE  /\ Life!Start(c) => LP!Start(c)
         /\ Life!Step(c) => LP!Step(c)
         /\ Life!Crash => LP!Crash
         /\ Life!Init => LP!Init
<1>1. Life!Step(c) => LP!Step(c)
  BY DEF Life!Step, LP!Step, Life!Goto, LP!Goto, Life!Return, LP!Return, Life!Answer, LP!Answer,
    Life!ClaimPending, LP!ClaimPending, Life!ClaimPendingFails, LP!ClaimPendingFails,
    Life!InsertPending, LP!InsertPending, Life!PendingRow, LP!PendingRow,
    Life!StatementMayFail, LP!StatementMayFail,
    Life!ReadExisting, LP!ReadExisting, Life!ReadExistingFails, LP!ReadExistingFails,
    Life!Denied, LP!Denied, Life!RejectInput, LP!RejectInput, Life!CallExtractor, LP!CallExtractor,
    Life!ExtractorSucceeds, LP!ExtractorSucceeds, Life!ExtractorFails, LP!ExtractorFails,
    Life!UpsertSuccess, LP!UpsertSuccess, Life!UpsertSuccessFails, LP!UpsertSuccessFails,
    Life!UpsertFailure, LP!UpsertFailure, Life!UpsertFailureFails, LP!UpsertFailureFails,
    Life!DoneRow, LP!DoneRow, Life!FailedRow, LP!FailedRow
<1>2. Life!Start(c) => LP!Start(c)
  BY DEF Life!Start, LP!Start, Life!Goto, LP!Goto
<1>3. Life!Crash => LP!Crash
  BY DEF Life!Crash, LP!Crash, Life!Running, LP!Running, Life!Owning, LP!Owning
<1>4. Life!Init => LP!Init
  BY DEF Life!Init, LP!Init, Life!NoRow, LP!NoRow, Life!NoReply, LP!NoReply
<1> QED
  BY <1>1, <1>2, <1>3, <1>4

\* The assumption the lifecycle's theorems rest on.
LEMMA SameAssumption == NoCall \notin Calls /\ Faults \subseteq LP!FaultKinds
BY BatchAssumption DEF LP!FaultKinds

\* What a call can return, and that only a fresh result is its own.
Told == {"newly_extracted", "already_done", "already_pending", "already_failed",
         "claim error", "run error", "persist error"}

RepliesKnown ==
  \A c \in Calls : pc[c] = "returned" =>
    reply[c].kind \in Told /\ (reply[c].kind = "newly_extracted" => reply[c].value = c)

OwnArticles == \A c \in Calls : article[c] = ArticlesOf[c[1]][c[2]]

CallsInv == LP!IInv /\ RepliesKnown /\ OwnArticles

AtWork == {"claim", "read", "run", "extract", "save success", "save failure"}

\* A step of one call moves no other one.
Moves(c) ==
  /\ article' = article
  /\ \A d \in Calls \ {c} : pc'[d] = pc[d] /\ reply'[d] = reply[d]

LEMMA DeniedTold ==
  ASSUME LP!IInv, NEW a \in Articles
  PROVE  LP!Denied(row[a]).kind \in {"already_done", "already_pending", "already_failed", "claim error"}
<1>1. row[a].status = "done" => row[a].result # NoCall
  <2> SUFFICES ASSUME row[a].status = "done" PROVE row[a].result # NoCall
    OBVIOUS
  <2>1. owner[a] # NoCall
    BY DEF LP!IInv, LP!RowHasOwner
  <2> QED
    BY <2>1 DEF LP!IInv, LP!RowNamesOwner, LP!ColumnsMatch
<1>2. row[a].status \in LP!Statuses
  BY DEF LP!IInv, LP!TypeOK, LP!Row
<1> QED
  BY <1>1, <1>2 DEF LP!Denied, LP!Answer, LP!Statuses

\* What a step of call c does to it, whatever else it does.
Goes(c) ==
  /\ Moves(c)
  /\ pc[c] \in AtWork
  /\ pc'[c] \in AtWork \cup {"returned"}
  /\ pc'[c] = "returned" => reply'[c].kind \in Told
       /\ (reply'[c].kind = "newly_extracted" => reply'[c].value = c)

LEMMA StepGoes ==
  ASSUME CallsInv, NEW c \in Calls, LP!Step(c)
  PROVE  Goes(c)
<1>1. /\ pc \in [Calls -> LP!Locations] /\ reply \in [Calls -> LP!Reply]
      /\ article \in [Calls -> Articles]
  BY DEF CallsInv, LP!IInv, LP!TypeOK
<1>2. ASSUME NEW from \in AtWork, NEW to \in AtWork, LP!Goto(c, from, to), UNCHANGED <<article, reply>>
      PROVE  Goes(c)
  BY <1>1, <1>2 DEF LP!Goto, Goes, Moves, AtWork
<1>3. ASSUME NEW from \in AtWork, NEW r, LP!Return(c, from, r), UNCHANGED article,
             r.kind \in Told, r.kind = "newly_extracted" => r.value = c
      PROVE  Goes(c)
  BY <1>1, <1>3 DEF LP!Goto, LP!Return, Goes, Moves
<1>4. ASSUME NEW k \in Told \ {"newly_extracted"}, NEW v
      PROVE  /\ LP!Answer(k, v).kind \in Told
             /\ LP!Answer(k, v).kind = "newly_extracted" => LP!Answer(k, v).value = c
  BY DEF LP!Answer, Told
<1>5. LP!ClaimPending(c) => Goes(c)
  BY <1>2 DEF LP!ClaimPending, AtWork
<1>6. LP!ClaimPendingFails(c) => Goes(c)
  BY <1>3, <1>4 DEF LP!ClaimPendingFails, AtWork, Told
<1>7. LP!ReadExisting(c) => Goes(c)
  <2>1. LP!Denied(row[article[c]]).kind \in Told \ {"newly_extracted"}
    BY <1>1, DeniedTold DEF Told, CallsInv
  <2> QED
    BY <1>3, <2>1 DEF LP!ReadExisting, AtWork
<1>8. LP!ReadExistingFails(c) => Goes(c)
  BY <1>3, <1>4 DEF LP!ReadExistingFails, AtWork, Told
<1>9. LP!RejectInput(c) \/ LP!CallExtractor(c) \/ LP!ExtractorSucceeds(c) \/ LP!ExtractorFails(c) => Goes(c)
  BY <1>2 DEF LP!RejectInput, LP!CallExtractor, LP!ExtractorSucceeds, LP!ExtractorFails, AtWork
<1>10. LP!UpsertSuccess(c) => Goes(c)
  <2>1. LP!Answer("newly_extracted", c).kind \in Told /\ LP!Answer("newly_extracted", c).value = c
    BY DEF LP!Answer, Told
  <2> QED
    BY <1>3, <2>1 DEF LP!UpsertSuccess, AtWork
<1>11. LP!UpsertSuccessFails(c) \/ LP!UpsertFailureFails(c) => Goes(c)
  BY <1>3, <1>4 DEF LP!UpsertSuccessFails, LP!UpsertFailureFails, AtWork, Told
<1>12. LP!UpsertFailure(c) => Goes(c)
  BY <1>3, <1>4 DEF LP!UpsertFailure, AtWork, Told
<1> QED
  BY <1>5, <1>6, <1>7, <1>8, <1>9, <1>10, <1>11, <1>12 DEF LP!Step

\* A step of a call that is at work keeps what is known of the calls.
LEMMA StepOfCall ==
  ASSUME CallsInv, NEW c \in Calls, Life!Step(c)
  PROVE  CallsInv' /\ Goes(c)
<1>1. LP!Step(c)
  BY SameSteps
<1>2. Goes(c)
  BY <1>1, StepGoes
<1>3. LP!IInv'
  <2>1. LP!Next
    BY <1>1 DEF LP!Next
  <2> QED
    BY <2>1, LP!IInvStep, SameAssumption DEF CallsInv
<1>4. RepliesKnown'
  BY <1>2 DEF Goes, Moves, CallsInv, RepliesKnown
<1>5. OwnArticles'
  BY <1>2 DEF Goes, Moves, CallsInv, OwnArticles
<1> QED
  BY <1>2, <1>3, <1>4, <1>5 DEF CallsInv

\* A call that starts.
LEMMA StartOfCall ==
  ASSUME CallsInv, NEW c \in Calls, Life!Start(c)
  PROVE  CallsInv' /\ Moves(c) /\ pc[c] = "idle" /\ pc'[c] = "claim"
<1>1. LP!Start(c)
  BY SameSteps
<1>2. pc \in [Calls -> LP!Locations]
  BY DEF CallsInv, LP!IInv, LP!TypeOK
<1>3. Moves(c) /\ pc[c] = "idle" /\ pc'[c] = "claim"
  BY <1>1, <1>2 DEF LP!Start, LP!Goto, Moves
<1>4. reply' = reply /\ article' = article
  BY <1>1 DEF LP!Start
<1>5. LP!IInv'
  <2>1. LP!Next
    BY <1>1 DEF LP!Next
  <2> QED
    BY <2>1, LP!IInvStep, SameAssumption DEF CallsInv
<1>6. RepliesKnown'
  BY <1>3, <1>4 DEF Moves, CallsInv, RepliesKnown
<1>7. OwnArticles'
  BY <1>4 DEF CallsInv, OwnArticles
<1> QED
  BY <1>3, <1>5, <1>6, <1>7 DEF CallsInv

\* A step of the pool alone, and the end of a context, are none of the calls.
LEMMA CallsUntouched ==
  ASSUME CallsInv, UNCHANGED <<row, pc, article, reply, owner, ran>>,
         ctx' \in [Calls -> {"live", "canceled"}]
  PROVE  CallsInv'
<1>1. LP!TypeOK'
  BY DEF CallsInv, LP!IInv, LP!TypeOK
<1>2. LP!IInv'
  BY <1>1 DEF CallsInv, LP!IInv, LP!RowHasOwner, LP!OwnerClaimed, LP!OwningCallOwns, LP!RanOwns,
    LP!SavingHasRun, LP!SilentUntilReturned, LP!OwnerAccountable, LP!RowNamesOwner, LP!DoneHasRun,
    LP!RepliesAgreeWithRow
<1> QED
  BY <1>2 DEF CallsInv, RepliesKnown, OwnArticles

LEMMA CrashOfCalls ==
  ASSUME CallsInv, Life!Crash
  PROVE  /\ CallsInv'
         /\ UNCHANGED <<reply, article>>
         /\ \A c \in Calls : pc'[c] = IF pc[c] \in AtWork THEN "lost" ELSE pc[c]
<1>1. LP!Crash
  BY DEF Life!Crash, LP!Crash, Life!Running, LP!Running, Life!Owning, LP!Owning
<1>2. /\ UNCHANGED <<reply, article>>
      /\ \A c \in Calls : pc'[c] = IF pc[c] \in AtWork THEN "lost" ELSE pc[c]
  BY <1>1 DEF LP!Crash, LP!Running, LP!Owning, AtWork
<1>3. LP!IInv'
  <2>1. LP!Next
    BY <1>1 DEF LP!Next
  <2> QED
    BY <2>1, LP!IInvStep, SameAssumption DEF CallsInv
<1>4. RepliesKnown'
  BY <1>2 DEF CallsInv, RepliesKnown, AtWork
<1> QED
  BY <1>2, <1>3, <1>4 DEF CallsInv, OwnArticles

-----------------------------------------------------------------------------
(* The slots of a batch                                                    *)

Slot == [article: Articles \cup {NoCall}, reply: Life!Reply]

\* A slot that holds what the call of its index returned.
Kept(b, i) == pc[<<b, i>>] = "returned" /\ items[b][i] = Item(<<b, i>>)

PoolTypes ==
  /\ phase \in [Batches -> Phases]
  /\ next \in [Batches -> Nat]
  /\ DOMAIN job = Batches
  /\ running \in [Batches -> SUBSET Nat]
  /\ DOMAIN items = Batches
  /\ counts \in [Batches -> [total: Nat, success: Nat, failure: Nat]]

Bounds(b) ==
  /\ next[b] \in 1..(Limit(b) + 1)
  /\ job[b] \in [Workers(b) -> 0..Limit(b)]
  /\ running[b] \subseteq Workers(b)

Phased(b) ==
  /\ running[b] # {} => phase[b] \in {"sending", "waiting"}
  /\ phase[b] = "new" => next[b] = 1 /\ items[b] = <<>> /\ counts[b] = Zero
  /\ phase[b] # "new" => items[b] \in Seq(Slot) /\ Len(items[b]) = Limit(b)
  /\ phase[b] \in {"waiting", "returned"} => next[b] = Limit(b) + 1
  /\ phase[b] = "returned" =>
       running[b] = {} /\ counts[b].total = Limit(b) /\ counts[b].success + counts[b].failure = Limit(b)

\* A worker with a job has not left, its call has begun, and no other worker
\* has the same job.
OwnJobs(b) ==
  \A w \in Workers(b) : job[b][w] # NoJob =>
    /\ w \in running[b]
    /\ job[b][w] < next[b]
    /\ pc[<<b, job[b][w]>>] \in AtWork \cup {"returned"}
    /\ \A v \in Workers(b) : job[b][v] = job[b][w] => v = w

Unsent(b) == \A i \in Indices(b) : i >= next[b] => pc[<<b, i>>] = "idle"

\* What was handed over and is no worker's job any more is in its slot.
HandledKept(b) ==
  phase[b] # "lost" =>
    \A i \in Indices(b) : i < next[b] /\ (\A w \in Workers(b) : job[b][w] # i) => Kept(b, i)

\* A slot is filled by its own call or not at all.
OwnSlots(b) ==
  phase[b] # "new" => \A i \in Indices(b) : items[b][i] = NoItem \/ Kept(b, i)

Batch(b) ==
  Bounds(b) /\ Phased(b) /\ OwnJobs(b) /\ Unsent(b) /\ HandledKept(b) /\ OwnSlots(b)

IInv == CallsInv /\ PoolTypes /\ \A b \in Batches : Batch(b)

-----------------------------------------------------------------------------
(* Steps                                                                   *)

\* A step that moves neither a batch nor its calls.
Still(b) ==
  /\ phase'[b] = phase[b] /\ next'[b] = next[b] /\ job'[b] = job[b]
  /\ running'[b] = running[b] /\ items'[b] = items[b] /\ counts'[b] = counts[b]
  /\ article' = article
  /\ \A i \in Indices(b) : pc'[<<b, i>>] = pc[<<b, i>>] /\ reply'[<<b, i>>] = reply[<<b, i>>]

LEMMA StillBatch ==
  ASSUME IInv, NEW b \in Batches, Still(b)
  PROVE  Batch(b)'
<1> Batch(b)
  BY DEF IInv
<1>1. \A i \in Indices(b) : Item(<<b, i>>)' = Item(<<b, i>>)
  BY DEF Still, Item
<1>2. \A i \in Indices(b) : Kept(b, i)' = Kept(b, i)
  BY <1>1 DEF Still, Kept
<1>3. Bounds(b)' /\ Phased(b)' /\ Unsent(b)'
  BY DEF Batch, Bounds, Phased, Unsent, Still
<1>4. OwnJobs(b)'
  <2>1. \A w \in Workers(b) : job[b][w] # NoJob => job[b][w] \in Indices(b)
    BY CallsAreIndices DEF Batch, Bounds, Indices, NoJob
  <2> QED
    BY <2>1 DEF Batch, OwnJobs, Still
<1>5. HandledKept(b)' /\ OwnSlots(b)'
  BY <1>2 DEF Batch, HandledKept, OwnSlots, Still
<1> QED
  BY <1>3, <1>4, <1>5 DEF Batch

\* The calls of other batches are other calls.
LEMMA OthersStill ==
  ASSUME IInv, NEW b \in Batches, NEW i \in Indices(b), Moves(<<b, i>>),
         NEW d \in Batches \ {b}
  PROVE  /\ article' = article
         /\ \A j \in Indices(d) : pc'[<<d, j>>] = pc[<<d, j>>] /\ reply'[<<d, j>>] = reply[<<d, j>>]
BY CallsAreIndices DEF Moves

LEMMA Parts ==
  ASSUME NEW n \in Nat, NEW F \in SUBSET (1..n)
  PROVE  /\ Cardinality(F) \in Nat /\ Cardinality((1..n) \ F) \in Nat
         /\ Cardinality((1..n) \ F) + Cardinality(F) = n
<1>1. IsFiniteSet(1..n) /\ Cardinality(1..n) = n
  BY FS_Interval
<1>2. (1..n) \cap F = F
  OBVIOUS
<1>3. IsFiniteSet(F) /\ Cardinality(F) \in Nat
  BY <1>1, FS_Subset, FS_CardinalityType
<1>4. IsFiniteSet((1..n) \ F) /\ Cardinality((1..n) \ F) = Cardinality(1..n) - Cardinality((1..n) \cap F)
  BY <1>1, FS_Difference
<1>5. Cardinality((1..n) \ F) \in Nat
  BY <1>4, FS_CardinalityType
<1>6. Cardinality((1..n) \ F) = n - Cardinality(F)
  BY <1>1, <1>2, <1>4
<1> QED
  BY <1>3, <1>5, <1>6

\* The counters of a batch cover its slots.
LEMMA TallyAdds ==
  ASSUME NEW s \in Seq(Slot)
  PROVE  /\ Tally(s) \in [total: Nat, success: Nat, failure: Nat]
         /\ Tally(s).total = Len(s)
         /\ Tally(s).success + Tally(s).failure = Len(s)
<1>1. Len(s) \in Nat /\ DOMAIN s = 1..Len(s)
  BY LenProperties
<1>2. PICK F \in SUBSET (1..Len(s)) : F = {i \in DOMAIN s : HasError(s[i])}
  BY <1>1
<1>3. Tally(s) = [total |-> Len(s), success |-> Cardinality((1..Len(s)) \ F), failure |-> Cardinality(F)]
  BY <1>1, <1>2 DEF Tally
<1>4. /\ Cardinality(F) \in Nat /\ Cardinality((1..Len(s)) \ F) \in Nat
      /\ Cardinality((1..Len(s)) \ F) + Cardinality(F) = Len(s)
  BY <1>1, Parts
<1> QED
  BY <1>1, <1>3, <1>4

LEMMA InitInv == Init => IInv
<1> SUFFICES ASSUME Init PROVE IInv
  OBVIOUS
<1>1. CallsInv
  <2>1. LP!Init
    BY DEF Init, Life!Init, LP!Init, Life!NoRow, LP!NoRow, Life!NoReply, LP!NoReply
  <2>2. LP!IInv
    BY <2>1, LP!IInvInit, SameAssumption
  <2> QED
    BY <2>1, <2>2 DEF Init, CallsInv, RepliesKnown, OwnArticles, LP!Init
<1>2. PoolTypes
  BY DEF Init, PoolTypes, Phases, Zero
<1>3. ASSUME NEW b \in Batches PROVE Batch(b)
  <2>1. /\ phase[b] = "new" /\ next[b] = 1 /\ job[b] = [w \in Workers(b) |-> NoJob]
        /\ running[b] = {} /\ items[b] = <<>> /\ counts[b] = Zero
    BY DEF Init
  <2>2. Limit(b) \in Nat
    BY CallsAreIndices
  <2>3. \A i \in Indices(b) : pc[<<b, i>>] = "idle"
    BY CallsAreIndices DEF Init, Life!Init
  <2> QED
    BY <2>1, <2>2, <2>3 DEF Batch, Bounds, Phased, OwnJobs, Unsent, HandledKept, OwnSlots, Indices, NoJob
<1> QED
  BY <1>1, <1>2, <1>3 DEF IInv

LEMMA BeginInv ==
  ASSUME IInv, NEW b \in Batches, Begin(b)
  PROVE  IInv'
<1> USE DEF IInv
<1>1. CallsInv'
  BY CallsUntouched DEF Begin, lifeVars, CallsInv, LP!IInv, LP!TypeOK
<1>2. Limit(b) \in Nat
  BY CallsAreIndices
<1>3. PoolTypes'
  <2>1. phase' \in [Batches -> Phases] /\ running' \in [Batches -> SUBSET Nat]
    <3>1. Workers(b) \in SUBSET Nat
      BY BatchAssumption DEF Workers
    <3>2. "returned" \in Phases /\ "sending" \in Phases
      BY DEF Phases
    <3> QED
      BY <3>1, <3>2 DEF Begin, PoolTypes
  <2>2. counts' \in [Batches -> [total: Nat, success: Nat, failure: Nat]]
    BY <1>2 DEF Begin, PoolTypes
  <2> QED
    BY <2>1, <2>2 DEF Begin, PoolTypes
<1>4. ASSUME NEW d \in Batches \ {b} PROVE Batch(d)'
  <2>1. Still(d)
    BY DEF Begin, Still, lifeVars, PoolTypes
  <2> QED
    BY <2>1, StillBatch
<1>5. Batch(b)'
  <2>1. Batch(b)
    OBVIOUS
  <2>2. items'[b] = [i \in Indices(b) |-> NoItem]
    BY DEF Begin, PoolTypes
  <2>3. NoItem \in Slot
    BY DEF NoItem, Slot, Life!NoReply, Life!Reply
  <2>4. items'[b] \in Seq(Slot) /\ Len(items'[b]) = Limit(b)
    BY <1>2, <2>2, <2>3 DEF Indices
  <2>5. running[b] = {} /\ next[b] = 1
    BY <2>1 DEF Begin, Batch, Phased
  <2>6. \A w \in Workers(b) : job[b][w] = NoJob
    BY <2>1, <2>5 DEF Batch, OwnJobs
  <2>7. /\ IF Limit(b) = 0 THEN phase'[b] = "returned" /\ running'[b] = {}
                          ELSE phase'[b] = "sending" /\ running'[b] = Workers(b)
        /\ job' = job /\ next' = next /\ pc' = pc
        /\ counts'[b] = [counts[b] EXCEPT !.total = Limit(b)]
    BY <2>5 DEF Begin, PoolTypes, lifeVars
  <2>8. counts[b] = Zero
    BY <2>1 DEF Batch, Phased, Begin
  <2>9. Bounds(b)'
    BY <1>2, <2>1, <2>7 DEF Batch, Bounds
  <2>10. OwnJobs(b)' /\ Unsent(b)'
    BY <2>1, <2>6, <2>7 DEF Batch, OwnJobs, Unsent
  <2>11. HandledKept(b)' /\ OwnSlots(b)'
    BY <1>2, <2>2, <2>5, <2>7 DEF HandledKept, OwnSlots, Indices
  <2>12. Phased(b)'
    BY <1>2, <2>4, <2>5, <2>7, <2>8 DEF Phased, Zero
  <2> QED
    BY <2>9, <2>10, <2>11, <2>12 DEF Batch
<1> QED
  BY <1>1, <1>3, <1>4, <1>5

\* A slot stays filled when another call of the batch moves.
LEMMA StillKept ==
  ASSUME IInv, NEW b \in Batches, NEW i \in Indices(b), Moves(<<b, i>>),
         items'[b] = items[b], pc[<<b, i>>] # "returned"
  PROVE  \A j \in Indices(b) : Kept(b, j) => Kept(b, j)'
<1> SUFFICES ASSUME NEW j \in Indices(b), Kept(b, j) PROVE Kept(b, j)'
  OBVIOUS
<1>1. <<b, j>> \in Calls \ {<<b, i>>}
  BY CallsAreIndices DEF Kept
<1>2. pc'[<<b, j>>] = pc[<<b, j>>] /\ Item(<<b, j>>)' = Item(<<b, j>>)
  BY <1>1 DEF Moves, Item
<1> QED
  BY <1>2 DEF Kept

LEMMA HandOverInv ==
  ASSUME IInv, NEW b \in Batches, NEW w \in Workers(b), HandOver(b, w)
  PROVE  IInv'
<1> DEFINE i == next[b]
<1>1. Limit(b) \in Nat /\ next[b] \in 1..(Limit(b) + 1) /\ i \in Indices(b) /\ i \in Nat \ {0}
  BY CallsAreIndices DEF HandOver, IInv, Batch, Bounds, Indices
<1>2. <<b, i>> \in Calls
  BY <1>1, CallsAreIndices
<1> HIDE DEF i
<1>3. CallsInv' /\ Moves(<<b, i>>) /\ pc[<<b, i>>] = "idle" /\ pc'[<<b, i>>] = "claim"
  BY <1>2, StartOfCall DEF HandOver, IInv, i
<1>4. /\ phase' = phase /\ running' = running /\ items' = items /\ counts' = counts
      /\ next' = [next EXCEPT ![b] = i + 1]
      /\ job' = [job EXCEPT ![b][w] = i]
      /\ phase[b] = "sending" /\ w \in running[b] /\ job[b][w] = NoJob
  BY DEF HandOver, i
<1>5. PoolTypes'
  BY <1>1, <1>4 DEF IInv, PoolTypes
<1>6. next'[b] = i + 1 /\ next[b] = i /\ job'[b] = [job[b] EXCEPT ![w] = i]
  BY <1>4 DEF IInv, PoolTypes, i
<1>7. ASSUME NEW d \in Batches \ {b} PROVE Batch(d)'
  <2>1. Still(d)
    BY <1>1, <1>3, <1>4, OthersStill DEF Still, IInv, PoolTypes
  <2> QED
    BY <2>1, StillBatch
<1>8. Batch(b)'
  <2>1. Batch(b)
    BY DEF IInv
  <2>2. job[b] \in [Workers(b) -> 0..Limit(b)]
    BY <2>1 DEF Batch, Bounds
  <2>3. \A j \in Indices(b) : Kept(b, j) => Kept(b, j)'
    BY <1>1, <1>3, <1>4, StillKept
  <2>4. Bounds(b)'
    BY <1>1, <1>4, <1>6, <2>1, <2>2 DEF Batch, Bounds, Indices, i
  <2>5. Phased(b)'
    BY <1>4, <2>1 DEF Batch, Phased
  <2>6. OwnJobs(b)'
    <3>1. ASSUME NEW v \in Workers(b) \ {w}, job[b][v] # NoJob
          PROVE  /\ job'[b][v] = job[b][v] /\ v \in running[b] /\ job[b][v] \in Indices(b)
                 /\ job[b][v] < i
                 /\ pc'[<<b, job[b][v]>>] \in AtWork \cup {"returned"}
                 /\ \A u \in Workers(b) : job[b][u] = job[b][v] => u = v
      <4>1. job[b][v] \in Indices(b)
        BY <2>2, <3>1, <1>1 DEF Indices, NoJob
      <4>2. /\ v \in running[b] /\ job[b][v] < i
            /\ pc[<<b, job[b][v]>>] \in AtWork \cup {"returned"}
            /\ \A u \in Workers(b) : job[b][u] = job[b][v] => u = v
        BY <1>6, <2>1, <3>1 DEF Batch, OwnJobs
      <4>3. <<b, job[b][v]>> \in Calls \ {<<b, i>>}
        BY <1>1, <4>1, <4>2, CallsAreIndices DEF Indices
      <4> QED
        BY <1>3, <1>6, <2>2, <4>1, <4>2, <4>3 DEF Moves
    <3>2. job'[b][w] = i /\ pc'[<<b, i>>] \in AtWork /\ i < i + 1
      BY <1>1, <1>3, <1>6, <2>2 DEF AtWork
    <3>3. \A v \in Workers(b) \ {w} : job'[b][v] = job[b][v]
      BY <1>6, <2>2
    <3>4. ASSUME NEW v \in Workers(b), job[b][v] # NoJob PROVE job[b][v] < i
      BY <3>4, <1>6, <2>1 DEF Batch, OwnJobs
    <3>5. ASSUME NEW v \in Workers(b), job[b][v] # NoJob
          PROVE  job[b][v] # i /\ job[b][v] < i + 1
      <4>1. job[b][v] \in Nat
        BY <2>2
      <4>2. job[b][v] < i
        BY <3>4, <3>5
      <4> QED
        BY <4>1, <4>2, <1>1
    <3>6. \A v \in Workers(b) : job[b][v] # i
      BY <3>5, <1>1 DEF NoJob
    <3> SUFFICES ASSUME NEW v \in Workers(b), job'[b][v] # NoJob
                 PROVE  /\ v \in running[b] /\ job'[b][v] < i + 1
                        /\ pc'[<<b, job'[b][v]>>] \in AtWork \cup {"returned"}
                        /\ \A u \in Workers(b) : job'[b][u] = job'[b][v] => u = v
      BY <1>4, <1>6 DEF OwnJobs, Workers
    <3>7. CASE v = w
      BY <3>7, <1>4, <3>2, <3>3, <3>6
    <3>8. CASE v # w
      BY <3>8, <3>1, <3>2, <3>3, <3>5, <3>6
    <3> QED
      BY <3>7, <3>8
  <2>7. Unsent(b)'
    <3> SUFFICES ASSUME NEW j \in Indices(b), j >= i + 1 PROVE pc'[<<b, j>>] = "idle"
      BY <1>6 DEF Unsent, Indices, Limit
    <3>1. <<b, j>> \in Calls \ {<<b, i>>} /\ j >= next[b]
      BY <1>1, <1>6, CallsAreIndices DEF Indices
    <3> QED
      BY <3>1, <1>3, <2>1 DEF Batch, Unsent, Moves
  <2>8. HandledKept(b)'
    <3> SUFFICES ASSUME NEW j \in Indices(b), j < i + 1, \A v \in Workers(b) : job'[b][v] # j
                 PROVE  Kept(b, j)'
      BY <1>6 DEF HandledKept, Indices, Limit, Workers
    <3>1. j # i
      BY <1>6, <2>2
    <3>2. j < next[b]
      BY <1>1, <1>6, <3>1 DEF Indices
    <3>3. \A v \in Workers(b) : job[b][v] # j
      BY <1>1, <1>4, <1>6, <2>2 DEF Indices, NoJob
    <3> QED
      BY <1>4, <2>1, <2>3, <3>2, <3>3 DEF Batch, HandledKept
  <2>9. OwnSlots(b)'
    BY <1>4, <2>1, <2>3 DEF Batch, OwnSlots
  <2> QED
    BY <2>4, <2>5, <2>6, <2>7, <2>8, <2>9 DEF Batch
<1> QED
  BY <1>3, <1>5, <1>7, <1>8 DEF IInv

LEMMA ExtractInv ==
  ASSUME IInv, NEW b \in Batches, NEW w \in Workers(b), Extract(b, w)
  PROVE  IInv'
<1> DEFINE i == job[b][w]
<1>1. Batch(b)
  BY DEF IInv
<1>2. i \in Indices(b) /\ Limit(b) \in Nat
  BY <1>1, CallsAreIndices DEF Extract, Batch, Bounds, Indices, NoJob
<1>3. <<b, i>> \in Calls
  BY <1>2, CallsAreIndices
<1> HIDE DEF i
<1>4. CallsInv' /\ Goes(<<b, i>>)
  BY <1>3, StepOfCall DEF Extract, IInv, i
<1>5. Moves(<<b, i>>) /\ pc[<<b, i>>] # "returned" /\ pc[<<b, i>>] # "idle"
      /\ pc'[<<b, i>>] \in AtWork \cup {"returned"}
  BY <1>4 DEF Goes, AtWork
<1>6. UNCHANGED poolVars
  BY DEF Extract
<1>7. PoolTypes'
  BY <1>6 DEF poolVars, IInv, PoolTypes
<1>8. ASSUME NEW d \in Batches \ {b} PROVE Batch(d)'
  <2>1. Still(d)
    BY <1>2, <1>5, <1>6, OthersStill DEF Still, poolVars
  <2> QED
    BY <2>1, StillBatch
<1>9. Batch(b)'
  <2>1. \A j \in Indices(b) : Kept(b, j) => Kept(b, j)'
    BY <1>2, <1>5, <1>6, StillKept DEF poolVars
  <2>2. Bounds(b)' /\ Phased(b)'
    BY <1>1, <1>6 DEF poolVars, Batch, Bounds, Phased
  <2>3. \A j \in Indices(b) : pc'[<<b, j>>] = pc[<<b, j>>] \/ j = i
    BY <1>5, CallsAreIndices DEF Moves
  <2>4. \A v \in Workers(b) : job[b][v] # NoJob => job[b][v] \in Indices(b)
    BY <1>1, <1>2 DEF Batch, Bounds, Indices, NoJob
  <2>5. OwnJobs(b)'
    BY <1>1, <1>5, <1>6, <2>3, <2>4 DEF poolVars, Batch, OwnJobs
  <2>6. Unsent(b)'
    BY <1>1, <1>5, <1>6, <2>3 DEF poolVars, Batch, Unsent
  <2>7. HandledKept(b)' /\ OwnSlots(b)'
    BY <1>1, <1>6, <2>1 DEF poolVars, Batch, HandledKept, OwnSlots
  <2> QED
    BY <2>2, <2>5, <2>6, <2>7 DEF Batch
<1> QED
  BY <1>4, <1>7, <1>8, <1>9 DEF IInv

LEMMA StoreInv ==
  ASSUME IInv, NEW b \in Batches, NEW w \in Workers(b), Store(b, w)
  PROVE  IInv'
<1> DEFINE i == job[b][w]
<1>1. Batch(b)
  BY DEF IInv
<1>2. i \in Indices(b) /\ Limit(b) \in Nat /\ i # NoJob /\ pc[<<b, i>>] = "returned"
  BY <1>1, CallsAreIndices DEF Store, Batch, Bounds, Indices, NoJob
<1>3. w \in running[b] /\ phase[b] \in {"sending", "waiting"}
  BY <1>1, <1>2 DEF Batch, OwnJobs, Phased
<1>4. job[b] \in [Workers(b) -> 0..Limit(b)] /\ items[b] \in Seq(Slot) /\ Len(items[b]) = Limit(b)
  BY <1>1, <1>3 DEF Batch, Bounds, Phased
<1>5. /\ items'[b] = [items[b] EXCEPT ![i] = Item(<<b, i>>)]
      /\ job'[b] = [job[b] EXCEPT ![w] = NoJob]
      /\ DOMAIN items' = Batches /\ DOMAIN job' = Batches
      /\ \A d \in Batches \ {b} : items'[d] = items[d] /\ job'[d] = job[d]
      /\ UNCHANGED <<lifeVars, phase, next, running, counts>>
  BY DEF Store, IInv, PoolTypes
<1> HIDE DEF i
<1>6. CallsInv'
  BY <1>5, CallsUntouched DEF lifeVars, IInv, CallsInv, LP!IInv, LP!TypeOK
<1>7. PoolTypes'
  BY <1>5 DEF IInv, PoolTypes
<1>8. ASSUME NEW d \in Batches \ {b} PROVE Batch(d)'
  <2>1. Still(d)
    BY <1>5 DEF Still, lifeVars
  <2> QED
    BY <2>1, StillBatch
<1>9. Batch(b)'
  <2>1. Item(<<b, i>>) \in Slot
    <3>1. article[<<b, i>>] \in Articles /\ reply[<<b, i>>] \in LP!Reply
      BY <1>2, CallsAreIndices DEF IInv, CallsInv, LP!IInv, LP!TypeOK
    <3>2. LP!Reply = Life!Reply
      BY DEF LP!Reply, Life!Reply, LP!Outcomes, Life!Outcomes, LP!Errors, Life!Errors
    <3> QED
      BY <3>1, <3>2 DEF Item, Slot
  <2>2. /\ items'[b] \in Seq(Slot) /\ Len(items'[b]) = Limit(b)
        /\ \A j \in Indices(b) : items'[b][j] = IF j = i THEN Item(<<b, i>>) ELSE items[b][j]
    BY <1>2, <1>4, <1>5, <2>1, ExceptSeq DEF Indices
  <2>3. \A j \in Indices(b) : Item(<<b, j>>)' = Item(<<b, j>>) /\ pc' = pc
    BY <1>5 DEF lifeVars, Item
  <2>4. \A j \in Indices(b) : Kept(b, j) \/ j = i => Kept(b, j)'
    BY <1>2, <2>2, <2>3 DEF Kept
  <2>5. Bounds(b)'
    BY <1>1, <1>4, <1>5 DEF Batch, Bounds, NoJob
  <2>6. Phased(b)'
    BY <1>1, <1>3, <1>5, <2>2 DEF Batch, Phased
  <2>7. OwnJobs(b)'
    BY <1>1, <1>4, <1>5 DEF Batch, OwnJobs, lifeVars
  <2>8. Unsent(b)'
    BY <1>1, <1>5 DEF Batch, Unsent, lifeVars
  <2>9. HandledKept(b)'
    <3> SUFFICES ASSUME NEW j \in Indices(b), j < next[b], \A v \in Workers(b) : job'[b][v] # j
                 PROVE  Kept(b, j)'
      BY <1>5 DEF HandledKept, Indices, Limit, Workers
    <3>1. CASE j = i
      BY <3>1, <2>4
    <3>2. CASE j # i
      <4>1. \A v \in Workers(b) : job[b][v] # j
        BY <3>2, <1>4, <1>5 DEF i
      <4> QED
        BY <4>1, <1>1, <1>3, <2>4 DEF Batch, HandledKept
    <3> QED
      BY <3>1, <3>2
  <2>10. OwnSlots(b)'
    BY <1>1, <1>3, <1>5, <2>2, <2>4 DEF Batch, OwnSlots
  <2> QED
    BY <2>5, <2>6, <2>7, <2>8, <2>9, <2>10 DEF Batch
<1> QED
  BY <1>6, <1>7, <1>8, <1>9 DEF IInv

\* The caller's steps and the end of a worker move no call.
LEMMA CloseInv ==
  ASSUME IInv, NEW b \in Batches, Close(b)
  PROVE  IInv'
<1>1. Batch(b) /\ Limit(b) \in Nat
  BY CallsAreIndices DEF IInv
<1>2. CallsInv'
  BY CallsUntouched DEF Close, lifeVars, IInv, CallsInv, LP!IInv, LP!TypeOK
<1>3. PoolTypes'
  BY DEF Close, IInv, PoolTypes, Phases
<1>4. ASSUME NEW d \in Batches \ {b} PROVE Batch(d)'
  <2>1. Still(d)
    BY DEF Close, Still, lifeVars, IInv, PoolTypes
  <2> QED
    BY <2>1, StillBatch
<1>5. Batch(b)'
  <2>1. phase[b] = "sending" /\ phase'[b] = "waiting"
    BY DEF Close, IInv, PoolTypes
  <2>2. next[b] = Limit(b) + 1
    BY <1>1 DEF Close, Batch, Bounds
  <2>3. UNCHANGED <<lifeVars, next, job, running, items, counts>>
    BY DEF Close
  <2>4. Phased(b)'
    BY <1>1, <2>1, <2>2, <2>3 DEF Batch, Phased
  <2>5. \A i \in Indices(b) : Kept(b, i)' = Kept(b, i)
    BY <2>3 DEF lifeVars, Kept, Item
  <2>6. HandledKept(b)' /\ OwnSlots(b)'
    BY <1>1, <2>1, <2>3, <2>5 DEF Batch, HandledKept, OwnSlots
  <2> QED
    BY <1>1, <2>3, <2>4, <2>6 DEF lifeVars, Batch, Bounds, OwnJobs, Unsent
<1> QED
  BY <1>2, <1>3, <1>4, <1>5 DEF IInv

LEMMA ExitInv ==
  ASSUME IInv, NEW b \in Batches, NEW w \in Workers(b), Exit(b, w)
  PROVE  IInv'
<1>1. Batch(b)
  BY DEF IInv
<1>2. CallsInv'
  BY CallsUntouched DEF Exit, lifeVars, IInv, CallsInv, LP!IInv, LP!TypeOK
<1>3. PoolTypes'
  BY DEF Exit, IInv, PoolTypes
<1>4. ASSUME NEW d \in Batches \ {b} PROVE Batch(d)'
  <2>1. Still(d)
    BY DEF Exit, Still, lifeVars, IInv, PoolTypes
  <2> QED
    BY <2>1, StillBatch
<1>5. Batch(b)'
  <2>1. phase[b] = "waiting" /\ job[b][w] = NoJob /\ running'[b] = running[b] \ {w}
    BY DEF Exit, IInv, PoolTypes
  <2>2. UNCHANGED <<lifeVars, phase, next, job, items, counts>>
    BY DEF Exit
  <2>3. Bounds(b)' /\ Phased(b)' /\ OwnJobs(b)' /\ Unsent(b)'
    BY <1>1, <2>1, <2>2 DEF lifeVars, Batch, Bounds, Phased, OwnJobs, Unsent
  <2>4. \A i \in Indices(b) : Kept(b, i)' = Kept(b, i)
    BY <2>2 DEF lifeVars, Kept, Item
  <2>5. HandledKept(b)' /\ OwnSlots(b)'
    BY <1>1, <2>2, <2>4 DEF Batch, HandledKept, OwnSlots
  <2> QED
    BY <2>3, <2>5 DEF Batch
<1> QED
  BY <1>2, <1>3, <1>4, <1>5 DEF IInv

LEMMA FinishInv ==
  ASSUME IInv, NEW b \in Batches, Finish(b)
  PROVE  IInv'
<1>1. Batch(b)
  BY DEF IInv
<1>2. phase[b] = "waiting" /\ running[b] = {}
  BY DEF Finish
<1>3. items[b] \in Seq(Slot) /\ Len(items[b]) = Limit(b)
  BY <1>1, <1>2 DEF Batch, Phased
<1>4. CallsInv'
  BY CallsUntouched DEF Finish, lifeVars, IInv, CallsInv, LP!IInv, LP!TypeOK
<1>5. /\ Tally(items[b]) \in [total: Nat, success: Nat, failure: Nat]
      /\ Tally(items[b]).total = Limit(b)
      /\ Tally(items[b]).success + Tally(items[b]).failure = Limit(b)
  BY <1>3, TallyAdds
<1>6. PoolTypes'
  BY <1>5 DEF Finish, IInv, PoolTypes, Phases
<1>7. ASSUME NEW d \in Batches \ {b} PROVE Batch(d)'
  <2>1. Still(d)
    BY DEF Finish, Still, lifeVars, IInv, PoolTypes
  <2> QED
    BY <2>1, StillBatch
<1>8. Batch(b)'
  <2>1. phase'[b] = "returned" /\ counts'[b] = Tally(items[b])
    BY DEF Finish, IInv, PoolTypes
  <2>2. UNCHANGED <<lifeVars, next, job, running, items>>
    BY DEF Finish
  <2>3. Phased(b)'
    BY <1>1, <1>2, <1>3, <1>5, <2>1, <2>2 DEF Batch, Phased
  <2>4. Bounds(b)' /\ OwnJobs(b)' /\ Unsent(b)'
    BY <1>1, <2>2 DEF lifeVars, Batch, Bounds, OwnJobs, Unsent
  <2>5. \A i \in Indices(b) : Kept(b, i)' = Kept(b, i)
    BY <2>2 DEF lifeVars, Kept, Item
  <2>6. HandledKept(b)' /\ OwnSlots(b)'
    BY <1>1, <1>2, <2>1, <2>2, <2>5 DEF Batch, HandledKept, OwnSlots
  <2> QED
    BY <2>3, <2>4, <2>6 DEF Batch
<1> QED
  BY <1>4, <1>6, <1>7, <1>8 DEF IInv

\* The end of a context, and no step at all.
LEMMA UnmovedInv ==
  ASSUME IInv, UNCHANGED <<row, pc, article, reply, owner, ran, poolVars>>,
         ctx' \in [Calls -> {"live", "canceled"}]
  PROVE  IInv'
<1>1. CallsInv'
  BY CallsUntouched DEF IInv
<1>2. PoolTypes'
  BY DEF poolVars, IInv, PoolTypes
<1>3. ASSUME NEW d \in Batches PROVE Batch(d)'
  <2>1. Still(d)
    BY DEF Still, poolVars
  <2> QED
    BY <2>1, StillBatch
<1> QED
  BY <1>1, <1>2, <1>3 DEF IInv

\* The process exits: no worker is left and what is in the slots stays there.
LEMMA CrashInv ==
  ASSUME IInv, Crash
  PROVE  IInv'
<1>1. /\ CallsInv' /\ UNCHANGED <<reply, article>>
      /\ \A c \in Calls : pc'[c] = IF pc[c] \in AtWork THEN "lost" ELSE pc[c]
  BY CrashOfCalls DEF Crash, IInv
<1>2. PoolTypes'
  BY DEF Crash, IInv, PoolTypes, Phases
<1>3. ASSUME NEW b \in Batches PROVE Batch(b)'
  <2>1. Batch(b) /\ Limit(b) \in Nat
    BY CallsAreIndices DEF IInv
  <2>2. /\ phase'[b] = IF phase[b] \in {"sending", "waiting"} THEN "lost" ELSE phase[b]
        /\ job'[b] = [w \in Workers(b) |-> NoJob]
        /\ running'[b] = {}
        /\ next' = next /\ items' = items /\ counts' = counts
    BY DEF Crash
  <2>3. \A i \in Indices(b) : Kept(b, i) => Kept(b, i)'
    <3> SUFFICES ASSUME NEW i \in Indices(b), Kept(b, i) PROVE Kept(b, i)'
      OBVIOUS
    <3>1. pc'[<<b, i>>] = "returned"
      BY <1>1, CallsAreIndices DEF Kept, AtWork
    <3> QED
      BY <1>1, <2>2, <3>1 DEF Kept, Item
  <2>4. Bounds(b)'
    BY <2>1, <2>2 DEF Batch, Bounds, NoJob
  <2>5. Phased(b)'
    BY <2>1, <2>2 DEF Batch, Phased
  <2>6. OwnJobs(b)'
    BY <2>2 DEF OwnJobs
  <2>7. Unsent(b)'
    <3> SUFFICES ASSUME NEW i \in Indices(b), i >= next[b] PROVE pc'[<<b, i>>] = "idle"
      BY <2>2 DEF Unsent
    <3>1. pc[<<b, i>>] = "idle"
      BY <2>1 DEF Batch, Unsent
    <3> QED
      BY <1>1, <3>1, CallsAreIndices DEF AtWork
  <2>8. HandledKept(b)'
    <3> SUFFICES ASSUME phase'[b] # "lost", NEW i \in Indices(b), i < next[b]
                 PROVE  Kept(b, i)'
      BY <2>2 DEF HandledKept
    <3>1. phase[b] \notin {"sending", "waiting", "lost"}
      BY <2>2
    <3>2. \A w \in Workers(b) : job[b][w] = NoJob
      BY <2>1, <3>1 DEF Batch, Phased, OwnJobs
    <3>3. i # NoJob
      BY <2>1 DEF Indices, NoJob
    <3> QED
      BY <2>1, <2>3, <3>1, <3>2, <3>3 DEF Batch, HandledKept
  <2>9. OwnSlots(b)'
    BY <2>1, <2>2, <2>3 DEF Batch, OwnSlots
  <2> QED
    BY <2>4, <2>5, <2>6, <2>7, <2>8, <2>9 DEF Batch
<1> QED
  BY <1>1, <1>2, <1>3 DEF IInv

-----------------------------------------------------------------------------
(* Theorems                                                                *)

\* What is known of calls, workers and slots, for any batches and faults.
THEOREM Inductive == Spec => []IInv
<1>1. IInv /\ [Next]_vars => IInv'
  <2> SUFFICES ASSUME IInv, [Next]_vars PROVE IInv'
    OBVIOUS
  <2>1. ASSUME NEW b \in Batches, Caller(b) PROVE IInv'
    BY <2>1, BeginInv, CloseInv, FinishInv DEF Caller
  <2>2. ASSUME NEW b \in Batches, NEW w \in Workers(b), Worker(b, w) PROVE IInv'
    BY <2>2, HandOverInv, ExtractInv, StoreInv, ExitInv DEF Worker
  <2>3. ASSUME NEW b \in Batches, Cancel(b) PROVE IInv'
    <3>1. ctx \in [Calls -> {"live", "canceled"}]
      BY DEF IInv, CallsInv, LP!IInv, LP!TypeOK
    <3>2. ctx' \in [Calls -> {"live", "canceled"}]
      BY <2>3, <3>1 DEF Cancel
    <3> QED
      BY <2>3, <3>2, UnmovedInv DEF Cancel
  <2>4. CASE UNCHANGED vars
    <3>1. ctx' \in [Calls -> {"live", "canceled"}]
      BY <2>4 DEF vars, lifeVars, IInv, CallsInv, LP!IInv, LP!TypeOK
    <3> QED
      BY <2>4, <3>1, UnmovedInv DEF vars, lifeVars
  <2> QED
    BY <2>1, <2>2, <2>3, <2>4, CrashInv DEF Next, Ended
<1> QED
  BY <1>1, InitInv, PTL DEF Spec

\* Every variable of the pool has its type.
THEOREM TypeCorrect == Spec => []TypeOK
<1>1. IInv => TypeOK
  <2> SUFFICES ASSUME IInv PROVE TypeOK
    OBVIOUS
  <2>1. Life!TypeOK
    <3>1. LP!TypeOK
      BY DEF IInv, CallsInv, LP!IInv
    <3> QED
      BY <3>1 DEF LP!TypeOK, Life!TypeOK, LP!Row, Life!Row, LP!Statuses, Life!Statuses,
        LP!Locations, Life!Locations, LP!Running, Life!Running, LP!Owning, Life!Owning,
        LP!Reply, Life!Reply, LP!Outcomes, Life!Outcomes, LP!Errors, Life!Errors
  <2>2. phase \in [Batches -> Phases]
    BY DEF IInv, PoolTypes
  <2>3. ASSUME NEW b \in Batches
        PROVE  /\ next[b] \in 1..(Limit(b) + 1)
               /\ job[b] \in [Workers(b) -> Indices(b) \cup {NoJob}]
               /\ running[b] \subseteq Workers(b)
               /\ items[b] \in Seq(Slot)
               /\ counts[b] \in [total: Nat, success: Nat, failure: Nat]
    <3>1. Batch(b) /\ Limit(b) \in Nat
      BY CallsAreIndices DEF IInv
    <3>2. 0..Limit(b) = Indices(b) \cup {NoJob}
      BY <3>1 DEF Indices, NoJob
    <3>3. items[b] \in Seq(Slot)
      BY <3>1, EmptySeq DEF Batch, Phased
    <3> QED
      BY <3>1, <3>2, <3>3 DEF Batch, Bounds, IInv, PoolTypes
  <2> QED
    BY <2>1, <2>2, <2>3 DEF TypeOK, Slot
<1> QED
  BY <1>1, Inductive, PTL

\* All of a returned batch has been handed over and is in its slots.
LEMMA ReturnedKept ==
  ASSUME IInv, NEW b \in Batches, phase[b] = "returned", NEW i \in Indices(b)
  PROVE  Kept(b, i)
<1>1. Batch(b) /\ Limit(b) \in Nat
  BY CallsAreIndices DEF IInv
<1>2. next[b] = Limit(b) + 1 /\ running[b] = {}
  BY <1>1 DEF Batch, Phased
<1>3. \A w \in Workers(b) : job[b][w] # i
  BY <1>1, <1>2 DEF Batch, OwnJobs, Indices, NoJob
<1>4. i < next[b]
  BY <1>1, <1>2 DEF Indices
<1> QED
  BY <1>1, <1>3, <1>4 DEF Batch, HandledKept

\* A batch returns only with every slot filled by the call of its own index,
\* whatever the number of workers, the limit and the faults.
THEOREM CompleteWhenReturned == Spec => []ReturnedItemsComplete
<1>1. IInv => ReturnedItemsComplete
  <2> SUFFICES ASSUME IInv, NEW b \in Batches, phase[b] = "returned"
               PROVE  /\ Len(items[b]) = Limit(b)
                      /\ \A i \in Indices(b) :
                           /\ items[b][i].article = ArticlesOf[b][i]
                           /\ items[b][i].reply = reply[<<b, i>>]
                           /\ items[b][i].reply # Life!NoReply
                      /\ counts[b].total = Limit(b)
                      /\ counts[b].success + counts[b].failure = Limit(b)
    BY DEF ReturnedItemsComplete
  <2>1. /\ Len(items[b]) = Limit(b)
        /\ counts[b].total = Limit(b)
        /\ counts[b].success + counts[b].failure = Limit(b)
    BY DEF IInv, Batch, Phased
  <2>2. ASSUME NEW i \in Indices(b)
        PROVE  /\ items[b][i].article = ArticlesOf[b][i]
               /\ items[b][i].reply = reply[<<b, i>>]
               /\ items[b][i].reply # Life!NoReply
    <3>1. items[b][i] = Item(<<b, i>>) /\ pc[<<b, i>>] = "returned" /\ <<b, i>> \in Calls
      BY ReturnedKept, CallsAreIndices DEF Kept
    <3>2. article[<<b, i>>] = ArticlesOf[b][i] /\ reply[<<b, i>>].kind \in Told
      BY <3>1 DEF IInv, CallsInv, OwnArticles, RepliesKnown
    <3>3. Life!NoReply.kind \notin Told
      BY DEF Told, Life!NoReply
    <3>4. items[b][i].article = article[<<b, i>>] /\ items[b][i].reply = reply[<<b, i>>]
      BY <3>1 DEF Item
    <3> QED
      BY <3>2, <3>3, <3>4
  <2> QED
    BY <2>1, <2>2
<1> QED
  BY <1>1, Inductive, PTL

\* Over all slots of all batches, an article is reported as freshly extracted
\* at most once, duplicated ids and racing batches included.
THEOREM OneFreshResult == Spec => []OneFreshResultPerArticle
<1>1. ASSUME IInv, NEW b \in Batches, NEW i \in DOMAIN items[b],
             items[b][i].reply.kind = "newly_extracted"
      PROVE  /\ <<b, i>> \in Calls /\ items[b][i] = Item(<<b, i>>)
             /\ reply[<<b, i>>].kind = "newly_extracted" /\ reply[<<b, i>>].value = <<b, i>>
  <2>1. Batch(b) /\ Limit(b) \in Nat
    BY <1>1, CallsAreIndices DEF IInv
  <2>2. phase[b] # "new"
    BY <1>1, <2>1 DEF Batch, Phased
  <2>3. i \in Indices(b)
    BY <1>1, <2>1, <2>2, LenProperties DEF Batch, Phased, Indices
  <2>4. NoItem.reply.kind = "none"
    BY DEF NoItem, Life!NoReply
  <2>5. Kept(b, i)
    BY <1>1, <2>1, <2>2, <2>3, <2>4 DEF Batch, OwnSlots
  <2>6. <<b, i>> \in Calls /\ items[b][i].reply = reply[<<b, i>>]
    BY <2>3, <2>5, CallsAreIndices DEF Kept, Item
  <2> QED
    BY <1>1, <2>5, <2>6 DEF Kept, IInv, CallsInv, RepliesKnown
<1>2. IInv => OneFreshResultPerArticle
  <2> SUFFICES ASSUME IInv, NEW b \in Batches, NEW d \in Batches,
                      NEW i \in DOMAIN items[b], NEW j \in DOMAIN items[d],
                      items[b][i].reply.kind = "newly_extracted",
                      items[d][j].reply.kind = "newly_extracted",
                      items[b][i].article = items[d][j].article
               PROVE  <<b, i>> = <<d, j>>
    BY DEF OneFreshResultPerArticle
  <2>1. /\ <<b, i>> \in Calls /\ items[b][i] = Item(<<b, i>>)
        /\ reply[<<b, i>>].kind = "newly_extracted" /\ reply[<<b, i>>].value = <<b, i>>
        /\ <<d, j>> \in Calls /\ items[d][j] = Item(<<d, j>>)
        /\ reply[<<d, j>>].kind = "newly_extracted" /\ reply[<<d, j>>].value = <<d, j>>
    BY <1>1
  <2>2. article[<<b, i>>] = article[<<d, j>>]
    BY <2>1 DEF Item
  <2>3. /\ row[article[<<b, i>>]].result = reply[<<b, i>>].value
        /\ row[article[<<d, j>>]].result = reply[<<d, j>>].value
    BY <2>1 DEF IInv, CallsInv, LP!IInv, LP!RepliesAgreeWithRow, LP!AgreesWith
  <2> QED
    BY <2>1, <2>2, <2>3
<1> QED
  BY <1>2, Inductive, PTL

\* An article of a returned batch is settled, or a call of another batch is
\* still extracting it, or a fault met a call on that very article.
THEOREM Settles == Spec => []SettledWhenReturned
<1>1. IInv => SettledWhenReturned
  <2> SUFFICES ASSUME IInv, NEW b \in Batches, phase[b] = "returned", NEW i \in Indices(b)
               PROVE  LET a == ArticlesOf[b][i] IN
                        \/ row[a].status \in {"done", "failed"}
                        \/ \E c \in Calls : c[1] # b /\ article[c] = a /\ pc[c] \in Life!Owning
                        \/ Life!Faulted(a)
    BY DEF SettledWhenReturned
  <2> DEFINE a == ArticlesOf[b][i]
  <2>1. pc[<<b, i>>] = "returned" /\ <<b, i>> \in Calls
    BY ReturnedKept, CallsAreIndices DEF Kept
  <2>2. article[<<b, i>>] = a /\ reply[<<b, i>>].kind \in Told
    BY <2>1 DEF IInv, CallsInv, OwnArticles, RepliesKnown
  <2>3. a \in Articles
    BY <2>1, <2>2 DEF IInv, CallsInv, LP!IInv, LP!TypeOK
  <2> HIDE DEF a
  <2>4. row[a].status \in {"none", "pending", "done", "failed"}
    BY <2>3 DEF IInv, CallsInv, LP!IInv, LP!TypeOK, LP!Row, LP!Statuses
  <2>5. CASE row[a].status = "none"
    <3>1. LP!AgreesWith(row[a], reply[<<b, i>>])
      BY <2>1, <2>2 DEF IInv, CallsInv, LP!IInv, LP!RepliesAgreeWithRow
    <3>2. reply[<<b, i>>].kind \in {"claim error", "persist error"}
      BY <2>2, <2>5, <3>1 DEF LP!AgreesWith, Told
    <3>3. Life!Faulted(a)
      BY <2>1, <2>2, <3>2 DEF Life!Faulted
    <3> QED
      BY <3>3 DEF a
  <2>6. CASE row[a].status = "pending"
    <3> DEFINE c == owner[a]
    <3>1. c # NoCall /\ c \in Calls /\ article[c] = a
      BY <2>3, <2>6 DEF IInv, CallsInv, LP!IInv, LP!TypeOK, LP!RowHasOwner, LP!OwnerClaimed
    <3>2. \/ pc[c] \in LP!Owning
          \/ pc[c] = "lost" \/ reply[c].kind \in {"claim error", "persist error"}
      BY <2>3, <2>6 DEF IInv, CallsInv, LP!IInv, LP!OwnerAccountable
    <3>3. pc[c] \in LP!Owning => c[1] # b
      <4>1. ASSUME c[1] = b PROVE pc[c] = "returned"
        BY <3>1, <4>1, ReturnedKept, CallsAreIndices DEF Kept
      <4> QED
        BY <4>1 DEF LP!Owning
    <3>4. LP!Owning = Life!Owning
      BY DEF LP!Owning, Life!Owning
    <3>5. Life!Faulted(a) \/ \E e \in Calls : e[1] # b /\ article[e] = a /\ pc[e] \in Life!Owning
      BY <3>1, <3>2, <3>3, <3>4 DEF Life!Faulted
    <3> QED
      BY <3>5 DEF a
  <2> QED
    BY <2>4, <2>5, <2>6 DEF a
<1> QED
  BY <1>1, Inductive, PTL

-----------------------------------------------------------------------------
(* The promise of a single extraction holds across batches.                *)

\* The promise that the lifecycle's theorems are about is the pool's.
LEMMA SamePromise ==
  /\ LP!Promise!Init => Life!Promise!Init
  /\ [LP!Promise!Next]_(LP!Promise!vars) => [Life!Promise!Next]_(Life!Promise!vars)
<1>1. LP!Promise!Init => Life!Promise!Init
  BY DEF LP!Promise!Init, Life!Promise!Init, LP!Promise!Nothing, Life!Promise!Nothing, LP!Told, Life!Told
<1>2. [LP!Promise!Next]_(LP!Promise!vars) => [Life!Promise!Next]_(Life!Promise!vars)
  BY DEF LP!Promise!Next, Life!Promise!Next, LP!Promise!vars, Life!Promise!vars,
    LP!Promise!Take, Life!Promise!Take, LP!Promise!Settle, Life!Promise!Settle,
    LP!Promise!Observe, Life!Promise!Observe, LP!Promise!GiveUp, Life!Promise!GiveUp,
    LP!Promise!Tell, Life!Promise!Tell, LP!Promise!OwnsNothing, Life!Promise!OwnsNothing,
    LP!Promise!View, Life!Promise!View, LP!Promise!Trouble, Life!Promise!Trouble,
    LP!Promise!Nothing, Life!Promise!Nothing, LP!Told, Life!Told
<1> QED
  BY <1>1, <1>2
\* A step of one call, made by its worker, is a step of the promise or hidden.
LEMMA CallRefines ==
  ASSUME CallsInv, NEW c \in Calls, Life!Start(c) \/ Life!Step(c) \/ Life!Crash
  PROVE  [Life!Promise!Next]_(Life!Promise!vars)
<1>1. LP!IInv
  BY DEF CallsInv
<1>2. LP!Next
  BY SameSteps DEF LP!Next
<1>3. [LP!Promise!Next]_(LP!Promise!vars)
  BY <1>1, <1>2, LP!StepRefines, SameAssumption
<1> QED
  BY <1>3, SamePromise

\* Everything else the pool does is hidden from it.
LEMMA PoolHidden ==
  ASSUME UNCHANGED <<row, owner, reply>>
  PROVE  UNCHANGED Life!Promise!vars
BY DEF Life!Promise!vars, Life!Told

LEMMA BatchStepRefines ==
  ASSUME IInv, [Next]_vars
  PROVE  [Life!Promise!Next]_(Life!Promise!vars)
<1> USE DEF IInv
<1>1. ASSUME NEW b \in Batches, NEW w \in Workers(b), HandOver(b, w)
      PROVE  [Life!Promise!Next]_(Life!Promise!vars)
  <2>1. next[b] \in Indices(b)
    BY <1>1, CallsAreIndices DEF HandOver, Batch, Bounds, Indices
  <2>2. <<b, next[b]>> \in Calls /\ Life!Start(<<b, next[b]>>)
    BY <1>1, <2>1, CallsAreIndices DEF HandOver
  <2> QED
    BY <2>2, CallRefines
<1>2. ASSUME NEW b \in Batches, NEW w \in Workers(b), Extract(b, w)
      PROVE  [Life!Promise!Next]_(Life!Promise!vars)
  <2>1. job[b][w] \in Indices(b)
    BY <1>2, CallsAreIndices DEF Extract, Batch, Bounds, Indices, NoJob
  <2>2. <<b, job[b][w]>> \in Calls /\ Life!Step(<<b, job[b][w]>>)
    BY <1>2, <2>1, CallsAreIndices DEF Extract
  <2> QED
    BY <2>2, CallRefines
<1>3. CASE Crash
  <2>1. UNCHANGED <<row, owner, reply>>
    BY <1>3 DEF Crash, Life!Crash
  <2> QED
    BY <2>1, PoolHidden
<1>4. ASSUME NEW b \in Batches, NEW w \in Workers(b), Store(b, w) \/ Exit(b, w)
      PROVE  UNCHANGED <<row, owner, reply>>
  BY <1>4 DEF Store, Exit, lifeVars
<1>5. ASSUME NEW b \in Batches, Caller(b) \/ Cancel(b)
      PROVE  UNCHANGED <<row, owner, reply>>
  BY <1>5 DEF Caller, Begin, Close, Finish, Cancel, lifeVars
<1>6. CASE UNCHANGED vars
  <2>1. UNCHANGED <<row, owner, reply>>
    BY <1>6 DEF vars, lifeVars
  <2> QED
    BY <2>1, PoolHidden
<1> QED
  BY <1>1, <1>2, <1>3, <1>4, <1>5, <1>6, PoolHidden DEF Next, Worker, Ended

\* However batches share rows, workers and faults, the extractions that their
\* workers run give callers what ClaimOnce promises.
THEOREM BatchesKeepThePromise == Spec => Life!ImplementsClaimOnce
<1>1. Init => Life!Promise!Init
  <2> SUFFICES ASSUME Init PROVE Life!Promise!Init
    OBVIOUS
  <2>1. LP!Init
    BY DEF Init, Life!Init, LP!Init, Life!NoRow, LP!NoRow, Life!NoReply, LP!NoReply
  <2> QED
    BY <2>1, LP!InitRefines, SameAssumption, SamePromise
<1>2. IInv /\ [Next]_vars => [Life!Promise!Next]_(Life!Promise!vars)
  BY BatchStepRefines
<1> QED
  BY <1>1, <1>2, Inductive, PTL DEF Spec, Life!ImplementsClaimOnce, Life!Promise!Spec

\* What is proved of single extractions holds of the extractions of batches:
\* the LLM is called once per article, every reply agrees with its row, and rows
\* are stranded by faults only.
THEOREM ExtractionsStaySafe ==
  Spec => [](Life!OneRunPerArticle /\ Life!RepliesAgreeWithRow /\ Life!StrandedOnlyByFaults)
<1>1. IInv => Life!OneRunPerArticle
  BY DEF IInv, CallsInv, LP!IInv, LP!RanOwns, Life!OneRunPerArticle
<1>2. IInv => Life!RepliesAgreeWithRow
  BY DEF IInv, CallsInv, LP!IInv, LP!RepliesAgreeWithRow, Life!RepliesAgreeWithRow,
    LP!AgreesWith, Life!AgreesWith
<1>3. IInv => Life!StrandedOnlyByFaults
  BY DEF IInv, CallsInv, LP!IInv, LP!OwnerAccountable, LP!RowHasOwner, LP!OwnerClaimed, LP!TypeOK,
    Life!StrandedOnlyByFaults, LP!Owning, Life!Owning
<1> QED
  BY <1>1, <1>2, <1>3, Inductive, PTL
=============================================================================
