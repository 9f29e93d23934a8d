----------------------- MODULE ExtractEndpointsProofs -----------------------
(***************************************************************************)
(* What a batch request is answered, for any ids, any listing and any      *)
(* outcomes of the batch: the theorems about ExtractEndpoints.             *)
(***************************************************************************)
EXTENDS ExtractEndpoints, FiniteSetTheorems, SequenceTheorems, TLAPS

-----------------------------------------------------------------------------
(* The rank of a place: how many usable ids there are up to it.            *)

UsablePlaces(s, p) == {q \in 1..p : Usable(s[q])}

RankIn(s, p) == Cardinality(UsablePlaces(s, p))

LEMMA RankIsIn == \A p : Rank(p) = RankIn(request.ids, p)
BY DEF Rank, RankIn, UsablePlaces

LEMMA RankType ==
  ASSUME NEW s, NEW p \in Nat
  PROVE  IsFiniteSet(UsablePlaces(s, p)) /\ RankIn(s, p) \in Nat /\ RankIn(s, p) <= p
<1>1. IsFiniteSet(1..p) /\ Cardinality(1..p) = p
  BY FS_Interval
<1>2. UsablePlaces(s, p) \subseteq 1..p
  BY DEF UsablePlaces
<1> QED
  BY <1>1, <1>2, FS_Subset, FS_CardinalityType DEF RankIn

LEMMA RankOfNone ==
  ASSUME NEW s
  PROVE  RankIn(s, 0) = 0
<1>1. UsablePlaces(s, 0) = {}
  BY DEF UsablePlaces
<1> QED
  BY <1>1, FS_EmptySet DEF RankIn

\* One more place counts if its id is usable.
LEMMA RankStep ==
  ASSUME NEW s, NEW p \in Nat
  PROVE  /\ Usable(s[p + 1]) => RankIn(s, p + 1) = RankIn(s, p) + 1
         /\ ~Usable(s[p + 1]) => RankIn(s, p + 1) = RankIn(s, p)
<1>1. ASSUME Usable(s[p + 1]) PROVE RankIn(s, p + 1) = RankIn(s, p) + 1
  <2>1. UsablePlaces(s, p + 1) = UsablePlaces(s, p) \cup {p + 1}
    BY <1>1 DEF UsablePlaces
  <2>2. p + 1 \notin UsablePlaces(s, p)
    BY DEF UsablePlaces
  <2> QED
    BY <2>1, <2>2, RankType, FS_AddElement DEF RankIn
<1>2. ASSUME ~Usable(s[p + 1]) PROVE UsablePlaces(s, p + 1) = UsablePlaces(s, p)
  BY <1>2 DEF UsablePlaces
<1> QED
  BY <1>1, <1>2 DEF RankIn

\* Of two places the later one has the higher rank, at least if it is usable.
LEMMA RankGrows ==
  ASSUME NEW s, NEW p \in Nat, NEW q \in Nat, p <= q
  PROVE  /\ RankIn(s, p) <= RankIn(s, q)
         /\ p < q /\ Usable(s[q]) => RankIn(s, p) < RankIn(s, q)
<1>1. UsablePlaces(s, p) \subseteq UsablePlaces(s, q)
  BY DEF UsablePlaces
<1>2. RankIn(s, p) <= RankIn(s, q)
  BY <1>1, RankType, FS_Subset DEF RankIn
<1>3. ASSUME p < q, Usable(s[q]) PROVE RankIn(s, p) # RankIn(s, q)
  <2>1. q \in UsablePlaces(s, q) /\ q \notin UsablePlaces(s, p)
    BY <1>3 DEF UsablePlaces
  <2> QED
    BY <1>1, <2>1, RankType, FS_Subset DEF RankIn
<1> QED
  BY <1>2, <1>3, RankType

-----------------------------------------------------------------------------
(* The inductive invariant                                                 *)

Batched == request.endpoint = "run-batch"

\* The results that have been handed to items.
Handed == IF pc \in {"assign", "responded"} THEN Len(validAppArticles) - Len(batch) ELSE 0

Types ==
  /\ request \in Request
  /\ pc \in {"check", "fetch", "find", "run", "assign", "responded"}
  /\ items \in Seq([id: Ids, status: Statuses, from: 0..MaxIds])
  /\ validAppArticles \in Seq(Articles)
  /\ queue \in [Articles -> Seq(1..MaxIds)]
  /\ batch \in Seq([id: Articles, status: Outcomes, from: 1..MaxIds])
  /\ code \in {0, 200, 400, 404, 405, 500, 502}

\* How far the loop over the ids has come at each place of the handler.
Progress ==
  /\ pc \in {"check", "fetch"} => items = <<>>
  /\ pc = "find" => Len(items) <= Len(request.ids)
  /\ pc = "assign" => Batched
  /\ Batched /\ pc \in {"run", "assign"} => Len(items) = Len(request.ids)
  /\ pc \notin {"assign", "responded"} => batch = <<>>
  /\ pc # "responded" => code = 0
  /\ pc = "responded" => batch = <<>>
  /\ Batched /\ code = 200 => Len(items) = Len(request.ids) /\ Handed = Len(validAppArticles)

\* An item that is not usable was failed by the loop.
LoopItems ==
  \A p \in 1..Len(items) :
    /\ items[p].id = request.ids[p]
    /\ ~Usable(request.ids[p]) => items[p].status = "failed" /\ items[p].from = Nowhere

\* The batch holds the usable ids by rank, and no others.
BatchByRank ==
  /\ Len(validAppArticles) = RankIn(request.ids, Len(items))
  /\ \A p \in 1..Len(items) :
       Usable(request.ids[p]) => validAppArticles[RankIn(request.ids, p)] = request.ids[p]
  /\ \A j \in 1..Len(validAppArticles) :
       \E p \in 1..Len(items) : Usable(request.ids[p]) /\ RankIn(request.ids, p) = j

\* The results that are left are those of the articles that come next.
ResultsByRank ==
  /\ Len(batch) <= Len(validAppArticles)
  /\ \A j \in 1..Len(batch) :
       /\ batch[j].from = Handed + j
       /\ batch[j].id = validAppArticles[Handed + j]

\* An item whose rank has been reached has the result of its rank; the others
\* are still pending.
ItemsByRank ==
  \A p \in 1..Len(items) : Usable(request.ids[p]) =>
    IF RankIn(request.ids, p) <= Handed
    THEN items[p].from = RankIn(request.ids, p) /\ items[p].status \in Succeeds \cup {"failed"}
    ELSE items[p].from = Nowhere /\ items[p].status = "pending"

\* Of the first k places, q holds those of usable article a whose rank is over h,
\* in ascending order.
Waits(s, q, a, k, h) ==
  /\ \A i \in 1..Len(q) :
       /\ q[i] \in 1..k
       /\ s[q[i]] = a /\ Usable(a)
       /\ RankIn(s, q[i]) > h
       /\ \A j \in 1..Len(q) : i < j => q[i] < q[j]
  /\ \A p \in 1..k :
       s[p] = a /\ Usable(a) /\ RankIn(s, p) > h => \E i \in 1..Len(q) : q[i] = p

\* The queue of an article holds the places that wait for its results.
QueuesWait == \A a \in Articles : Waits(request.ids, queue[a], a, Len(items), Handed)

\* The counters of the response.
Counted ==
  /\ counts \in [succeeded: Nat, failed: Nat]
  /\ pc # "responded" => counts = [succeeded |-> 0, failed |-> 0]
  /\ counts.succeeded + counts.failed <= MaxIds
  /\ Batched /\ code = 200 =>
       /\ counts.failed = Cardinality({p \in DOMAIN items : items[p].status = "failed"})
       /\ counts.succeeded + counts.failed = Len(items)

BatchInv == LoopItems /\ BatchByRank /\ ResultsByRank /\ ItemsByRank /\ QueuesWait

IInv == Types /\ Progress /\ Counted /\ (Batched => BatchInv)

\* The array is never outgrown: the loop starts with room for every id.
Roomy ==
  /\ capacity \in Nat /\ stale = {}
  /\ pc = "find" /\ Batched => capacity = Len(request.ids)

-----------------------------------------------------------------------------
(* Steps                                                                   *)

LEMMA RequestIds ==
  ASSUME Types
  PROVE  /\ request.ids \in Seq(Ids) /\ Len(request.ids) \in Nat /\ Len(request.ids) <= MaxIds
         /\ DOMAIN request.ids = 1..Len(request.ids)
         /\ request.endpoint \in {"run", "run-batch"}
         /\ ~Batched => request.ids[1] \in Ids /\ Len(request.ids) = 1
<1>1. CASE request \in [endpoint: {"run"}, form: {"ok", "method", "body"}, ids: {<<id>> : id \in Ids},
                        concurrency: {"none"}]
  <2>1. PICK id \in Ids : request.ids = <<id>>
    BY <1>1
  <2>2. request.endpoint = "run"
    BY <1>1
  <2> QED
    BY <2>1, <2>2, EndpointsAssumption
<1>2. CASE request \in [endpoint: {"run-batch"}, form: {"ok", "method", "body"},
                        ids: UNION {[1..n -> Ids] : n \in 0..MaxIds}, concurrency: {"none", "negative"}]
  <2>1. PICK n \in 0..MaxIds : request.ids \in [1..n -> Ids]
    BY <1>2
  <2>2. request.endpoint = "run-batch"
    BY <1>2
  <2>3. n \in Nat /\ n <= MaxIds
    BY EndpointsAssumption
  <2>4. request.ids \in Seq(Ids) /\ Len(request.ids) = n
    BY <2>1, <2>3
  <2> QED
    BY <2>1, <2>2, <2>3, <2>4 DEF Batched
<1> QED
  BY <1>1, <1>2 DEF Types, Request

LEMMA UsableIsArticle == \A id : Usable(id) => id \in Articles
BY EndpointsAssumption DEF Usable

\* The sequences of a batch and their bounds.
LEMMA Lengths ==
  ASSUME Types
  PROVE  /\ Len(items) \in Nat /\ DOMAIN items = 1..Len(items)
         /\ Len(validAppArticles) \in Nat /\ Len(batch) \in Nat
         /\ \A a \in Articles : queue[a] \in Seq(1..MaxIds) /\ Len(queue[a]) \in Nat
<1>1. \A a \in Articles : queue[a] \in Seq(1..MaxIds)
  BY DEF Types
<1> QED
  BY <1>1, LenProperties DEF Types

\* A step that leaves the request, the items, the queues and the results alone.
LEMMA Same ==
  ASSUME BatchInv, UNCHANGED <<request, items, validAppArticles, queue, batch>>, Handed' = Handed
  PROVE  BatchInv'
BY DEF BatchInv, LoopItems, BatchByRank, ResultsByRank, ItemsByRank, QueuesWait

LEMMA InitInv == Init => IInv
<1> SUFFICES ASSUME Init PROVE IInv
  OBVIOUS
<1>1. Types
  BY EmptySeq DEF Init, Types
<1>2. Progress
  BY <1>1, RequestIds, LenProperties DEF Init, Progress
<1>3. Counted
  BY EndpointsAssumption DEF Init, Counted
<1>4. BatchInv
  <2>1. Len(items) = 0 /\ Len(validAppArticles) = 0 /\ Len(batch) = 0 /\ \A a \in Articles : Len(queue[a]) = 0
    BY DEF Init
  <2>2. RankIn(request.ids, 0) = 0
    BY RankOfNone
  <2> QED
    BY <2>1, <2>2 DEF BatchInv, LoopItems, BatchByRank, ResultsByRank, ItemsByRank, QueuesWait, Waits
<1> QED
  BY <1>1, <1>2, <1>3, <1>4 DEF IInv

\* Before the loop and after it no result is handed over.
LEMMA NothingYet ==
  ASSUME IInv, Batched
  PROVE  /\ pc \in {"check", "fetch"} => Len(validAppArticles) = 0 /\ Len(batch) = 0
         /\ pc = "find" => Len(batch) = 0
         /\ Handed \in Nat
<1>1. Types /\ Progress /\ BatchInv
  BY DEF IInv
<1>2. pc \in {"check", "fetch"} => Len(validAppArticles) = 0
  BY <1>1, RankOfNone DEF Progress, BatchInv, BatchByRank
<1>3. pc \in {"check", "fetch", "find"} => Len(batch) = 0
  BY <1>1 DEF Progress
<1>4. Handed \in Nat
  BY <1>1, Lengths DEF BatchInv, ResultsByRank, Handed
<1> QED
  BY <1>2, <1>3, <1>4

\* The steps that touch neither items nor queues.
LEMMA QuietInv ==
  ASSUME IInv, Check \/ Fetch \/ Find \/ Built
  PROVE  IInv'
<1>1. Types /\ Progress /\ Counted
  BY DEF IInv
<1>2. UNCHANGED <<request, items, validAppArticles, queue, batch, counts>>
  BY DEF Check, Fetch, Find, Built
<1>3. pc' \in {"fetch", "find", "run", "assign", "responded"}
      /\ code' \in {0, 400, 404, 405, 500, 502}
      /\ (pc' = "responded" \/ code' = 0)
  <2>1. code \in {0, 200, 400, 404, 405, 500, 502} /\ (pc # "responded" => code = 0)
    BY <1>1 DEF Types, Progress
  <2>2. CASE Check
    <3>1. (\E status \in {400, 405} : Respond(status)) \/ (pc' = "fetch" /\ code' = code)
      BY <2>2 DEF Check
    <3> QED
      BY <2>1, <2>2, <3>1 DEF Check, Respond
  <2>3. CASE Fetch
    BY <2>1, <2>3 DEF Fetch, Respond
  <2>4. CASE Find
    <3>1. (\E status \in {404, 500} : Respond(status)) \/ (pc' = "run" /\ code' = code)
      BY <2>4 DEF Find
    <3> QED
      BY <2>1, <2>4, <3>1 DEF Find, Respond
  <2>5. CASE Built
    BY <2>1, <2>5 DEF Built
  <2> QED
    BY <2>2, <2>3, <2>4, <2>5
<1>4. Types'
  BY <1>1, <1>2, <1>3 DEF Types
<1>5. Progress'
  <2>1. pc' \in {"check", "fetch"} => items' = <<>>
    BY <1>1, <1>2 DEF Check, Fetch, Find, Built, Respond, Progress
  <2>2. pc' = "find" => Len(items) <= Len(request.ids)
    <3>1. pc' = "find" => pc = "fetch"
      BY DEF Check, Fetch, Find, Built, Respond
    <3>2. pc = "fetch" => Len(items) = 0
      BY <1>1 DEF Progress
    <3> QED
      BY <1>1, <3>1, <3>2, RequestIds
  <2>3. pc' = "assign" => Batched
    BY DEF Check, Fetch, Find, Built, Respond, Batched
  <2>4. Batched /\ pc' \in {"run", "assign"} => Len(items) = Len(request.ids)
    BY DEF Check, Fetch, Find, Built, Respond, Batched
  <2>5. batch = <<>>
    BY <1>1 DEF Check, Fetch, Find, Built, Progress
  <2> QED
    BY <1>2, <1>3, <2>1, <2>2, <2>3, <2>4, <2>5 DEF Progress, Batched
<1>6. Counted'
  BY <1>1, <1>2, <1>3 DEF Counted, Batched, Check, Fetch, Find, Built
<1>7. ASSUME Batched' PROVE BatchInv'
  <2>1. Batched /\ BatchInv
    BY <1>2, <1>7 DEF Batched, IInv
  <2>2. Handed' = Handed
    <3>1. pc' = "responded" => pc \in {"check", "fetch"}
      BY <2>1 DEF Check, Fetch, Find, Built, Respond, Batched
    <3>2. pc' = "assign" => validAppArticles = <<>> /\ pc = "find"
      BY <2>1 DEF Check, Fetch, Find, Built, Respond, Batched
    <3>3. pc \in {"check", "fetch", "find"}
      BY DEF Check, Fetch, Find, Built
    <3>4. Handed = 0
      BY <3>3 DEF Handed
    <3>5. CASE pc' \notin {"assign", "responded"}
      BY <3>4, <3>5 DEF Handed
    <3>6. CASE pc' \in {"assign", "responded"}
      <4>1. Len(validAppArticles) = 0 /\ Len(batch) = 0
        BY <2>1, <3>1, <3>2, <3>6, NothingYet
      <4> QED
        BY <1>2, <3>4, <3>6, <4>1 DEF Handed
    <3> QED
      BY <3>5, <3>6
  <2> QED
    BY <1>2, <2>1, <2>2, Same
<1> QED
  BY <1>4, <1>5, <1>6, <1>7 DEF IInv

\* The single endpoint keeps no queues.
LEMMA RunInv ==
  ASSUME IInv, Run
  PROVE  IInv'
<1>1. Types /\ Progress /\ Counted /\ ~Batched
  BY DEF IInv, Run, Batched
<1>2. PICK outcome \in Outcomes :
        items' = <<Item(request.ids[1], IF outcome = "error" THEN "failed" ELSE outcome, 1)>>
  BY DEF Run
<1>3. /\ pc' = "responded" /\ code' = 200
      /\ UNCHANGED <<request, validAppArticles, queue, batch, counts>>
  BY DEF Run, Respond
<1>4. items' \in Seq([id: Ids, status: Statuses, from: 0..MaxIds])
  <2>1. request.ids[1] \in Ids
    BY <1>1, RequestIds
  <2>2. (IF outcome = "error" THEN "failed" ELSE outcome) \in Statuses
    BY DEF Outcomes, Statuses
  <2>3. 1 \in 0..MaxIds
    BY EndpointsAssumption
  <2>4. Item(request.ids[1], IF outcome = "error" THEN "failed" ELSE outcome, 1)
          \in [id: Ids, status: Statuses, from: 0..MaxIds]
    BY <2>1, <2>2, <2>3 DEF Item
  <2> QED
    BY <1>2, <2>4
<1>5. Types'
  BY <1>1, <1>3, <1>4 DEF Types
<1>6. Progress'
  <2>1. batch = <<>>
    BY <1>1 DEF Run, Progress
  <2> QED
    BY <1>1, <1>3, <2>1 DEF Progress, Batched
<1>7. Counted' /\ ~Batched'
  BY <1>1, <1>3 DEF Counted, Batched
<1> QED
  BY <1>5, <1>6, <1>7 DEF IInv

-----------------------------------------------------------------------------
(* The loop over the ids                                                   *)

\* What the loop knows before it looks at the next id.
LEMMA LoopState ==
  ASSUME IInv, Build
  PROVE  /\ Types /\ Progress /\ Counted /\ BatchInv /\ Batched
         /\ Handed = 0 /\ Handed' = 0 /\ batch = <<>> /\ pc = "find" /\ pc' = "find"
         /\ UNCHANGED <<request, batch, code, counts>>
         /\ Len(items) \in Nat /\ Len(items) < Len(request.ids) /\ Len(request.ids) <= MaxIds
         /\ Len(request.ids) \in Nat
         /\ request.ids[Len(items) + 1] \in Ids
<1>1. Types /\ Progress /\ Counted /\ BatchInv /\ Batched /\ pc = "find" /\ pc' = "find"
  BY DEF IInv, Build, Batched
<1>2. /\ Len(items) \in Nat /\ Len(request.ids) \in Nat /\ Len(request.ids) <= MaxIds
      /\ request.ids \in Seq(Ids)
  BY <1>1, Lengths, RequestIds
<1>3. Len(items) < Len(request.ids)
  BY DEF Build
<1>4. request.ids[Len(items) + 1] \in Ids
  BY <1>2, <1>3
<1>5. batch = <<>>
  BY <1>1 DEF Progress
<1>6. UNCHANGED <<request, batch, code, counts>>
  BY DEF Build
<1> QED
  BY <1>1, <1>2, <1>3, <1>4, <1>5, <1>6 DEF Handed

\* A queue that the next place does not join.
LEMMA WaitsSame ==
  ASSUME NEW s, NEW q, NEW a, NEW k \in Nat, Waits(s, q, a, k, 0), s[k + 1] # a \/ ~Usable(a)
  PROVE  Waits(s, q, a, k + 1, 0)
<1>1. \A p \in 1..(k + 1) : p \in 1..k \/ p = k + 1
  OBVIOUS
<1>2. \A p \in 1..k : p \in 1..(k + 1)
  OBVIOUS
<1> QED
  BY <1>1, <1>2 DEF Waits

\* An id that cannot be used adds a failed item and nothing else.
LEMMA BuildFailed ==
  ASSUME IInv, Build, ~Usable(request.ids[Len(items) + 1])
  PROVE  IInv'
<1> DEFINE k == Len(items)
           id == request.ids[k + 1]
<1>1. /\ items' = Append(items, Item(id, "failed", Nowhere))
      /\ queue' = queue /\ validAppArticles' = validAppArticles
  BY DEF Build
<1>2. k \in Nat /\ Types /\ id \in Ids /\ items \in Seq([id: Ids, status: Statuses, from: 0..MaxIds])
  BY LoopState DEF Types
<1>3. Item(id, "failed", Nowhere) \in [id: Ids, status: Statuses, from: 0..MaxIds]
  BY <1>2, EndpointsAssumption DEF Item, Statuses, Nowhere
<1>4. /\ items' \in Seq([id: Ids, status: Statuses, from: 0..MaxIds])
      /\ Len(items') = k + 1
      /\ \A p \in 1..k : items'[p] = items[p]
      /\ items'[k + 1] = Item(id, "failed", Nowhere)
  BY <1>1, <1>2, <1>3, AppendProperties
<1>5. RankIn(request.ids, k + 1) = RankIn(request.ids, k)
  BY <1>2, RankStep
<1>6. Types'
  BY <1>1, <1>4, LoopState DEF Types
<1>7. Progress'
  BY <1>2, <1>4, LoopState DEF Progress, Batched
<1>8. Counted'
  BY LoopState DEF Counted, Batched, Progress
<1>9. BatchInv'
  <2>1. \A p \in 1..(k + 1) : p \in 1..k \/ p = k + 1
    BY <1>2
  <2>2. LoopItems'
    <3>1. items'[k + 1].id = id /\ items'[k + 1].status = "failed" /\ items'[k + 1].from = Nowhere
      BY <1>4 DEF Item
    <3>2. \A p \in 1..k : items'[p].id = request.ids[p]
            /\ (~Usable(request.ids[p]) => items'[p].status = "failed" /\ items'[p].from = Nowhere)
      BY <1>4, LoopState DEF BatchInv, LoopItems
    <3> QED
      BY <1>4, <2>1, <3>1, <3>2, LoopState DEF LoopItems
  <2> HIDE DEF k, id
  <2>3. ~Usable(id) /\ id = request.ids[k + 1] /\ k = Len(items)
    BY DEF id, k
  <2>4. BatchByRank'
    <3>1. BatchByRank /\ UNCHANGED <<request, validAppArticles>>
      BY <1>1, LoopState DEF BatchInv
    <3>2. Len(validAppArticles) = RankIn(request.ids, k + 1)
      BY <1>5, <2>3, <3>1 DEF BatchByRank
    <3>3. \A p \in 1..(k + 1) :
            Usable(request.ids[p]) => validAppArticles[RankIn(request.ids, p)] = request.ids[p]
      BY <2>1, <2>3, <3>1 DEF BatchByRank
    <3>4. \A j \in 1..Len(validAppArticles) :
            \E p \in 1..(k + 1) : Usable(request.ids[p]) /\ RankIn(request.ids, p) = j
      <4>1. 1..k \subseteq 1..(k + 1)
        BY <1>2
      <4> QED
        BY <2>3, <3>1, <4>1 DEF BatchByRank
    <3> QED
      BY <1>4, <3>1, <3>2, <3>3, <3>4 DEF BatchByRank
  <2>5. ResultsByRank'
    BY <1>1, LoopState DEF BatchInv, ResultsByRank
  <2>6. ItemsByRank'
    BY <1>1, <1>2, <1>4, <2>1, <2>3, LoopState DEF BatchInv, ItemsByRank
  <2>7. QueuesWait'
    <3>1. \A a \in Articles : Waits(request.ids, queue[a], a, k, 0)
      BY <2>3, LoopState DEF BatchInv, QueuesWait
    <3>2. ASSUME NEW a \in Articles PROVE Waits(request.ids, queue[a], a, k + 1, 0)
      <4>1. request.ids[k + 1] # a \/ ~Usable(a)
        BY <2>3
      <4> QED
        BY <1>2, <3>1, <4>1, WaitsSame
    <3> QED
      BY <1>1, <1>4, <3>2, LoopState DEF QueuesWait
  <2> QED
    BY <2>2, <2>4, <2>5, <2>6, <2>7 DEF BatchInv
<1> QED
  BY <1>6, <1>7, <1>8, <1>9 DEF IInv

LEMMA RankPositive ==
  ASSUME NEW s, NEW p \in Nat \ {0}, Usable(s[p])
  PROVE  RankIn(s, p) \in Nat \ {0}
<1>1. RankIn(s, 0) < RankIn(s, p)
  BY RankGrows
<1> QED
  BY <1>1, RankType, RankOfNone

\* A queue that also holds the next place of its article.
LEMMA WaitsLonger ==
  ASSUME NEW s, NEW q, NEW longer, NEW a, NEW k \in Nat, Waits(s, q, a, k, 0), Len(q) \in Nat,
         Usable(a), s[k + 1] = a,
         Len(longer) = Len(q) + 1, longer[Len(q) + 1] = k + 1,
         \A i \in 1..Len(q) : longer[i] = q[i]
  PROVE  Waits(s, longer, a, k + 1, 0)
<1> DEFINE m == Len(q)
<1>1. /\ \A i \in 1..m : longer[i] = q[i] /\ q[i] \in 1..k /\ s[q[i]] = a /\ RankIn(s, q[i]) > 0
      /\ \A i \in 1..m : \A j \in 1..m : i < j => q[i] < q[j]
      /\ \A p \in 1..k : s[p] = a /\ RankIn(s, p) > 0 => \E i \in 1..m : q[i] = p
  BY DEF Waits
<1>2. m \in Nat /\ Len(longer) = m + 1 /\ longer[m + 1] = k + 1
  OBVIOUS
<1> HIDE DEF m
<1>3. \A i \in 1..(m + 1) : i \in 1..m \/ i = m + 1
  BY <1>2
<1>4. RankIn(s, k + 1) \in Nat \ {0}
  BY RankPositive
<1>5. ASSUME NEW i \in 1..(m + 1)
      PROVE  longer[i] \in 1..(k + 1) /\ s[longer[i]] = a /\ RankIn(s, longer[i]) > 0
  <2>1. CASE i = m + 1
    BY <1>2, <1>4, <2>1
  <2>2. CASE i \in 1..m
    <3>1. longer[i] = q[i] /\ q[i] \in 1..k /\ s[q[i]] = a /\ RankIn(s, q[i]) > 0
      BY <1>1, <2>2
    <3> QED
      BY <3>1
  <2> QED
    BY <1>3, <2>1, <2>2
<1>6. ASSUME NEW i \in 1..(m + 1), NEW j \in 1..(m + 1), i < j PROVE longer[i] < longer[j]
  <2>1. i \in 1..m
    BY <1>2, <1>6
  <2>2. longer[i] = q[i] /\ q[i] \in 1..k
    BY <1>1, <2>1
  <2>3. CASE j = m + 1
    BY <1>2, <2>2, <2>3
  <2>4. CASE j \in 1..m
    BY <1>1, <1>6, <2>1, <2>4
  <2> QED
    BY <1>3, <2>3, <2>4
<1>7. ASSUME NEW p \in 1..(k + 1), s[p] = a, RankIn(s, p) > 0
      PROVE  \E i \in 1..(m + 1) : longer[i] = p
  <2>1. CASE p = k + 1
    BY <1>2, <2>1
  <2>2. CASE p \in 1..k
    <3>1. PICK i \in 1..m : q[i] = p
      BY <1>1, <1>7, <2>2
    <3>2. i \in 1..(m + 1) /\ longer[i] = p
      BY <1>1, <1>2, <3>1
    <3> QED
      BY <3>2
  <2> QED
    BY <2>1, <2>2
<1> QED
  BY <1>2, <1>5, <1>6, <1>7 DEF Waits

\* A usable id adds an item that waits, in the queue of its article, for the
\* result of the article that it adds to the batch.
LEMMA BuildPending ==
  ASSUME IInv, Build, Usable(request.ids[Len(items) + 1])
  PROVE  IInv'
<1> DEFINE k == Len(items)
           id == request.ids[k + 1]
<1>1. /\ items' = Append(items, Item(id, "pending", Nowhere))
      /\ queue' = [queue EXCEPT ![id] = Append(queue[id], k + 1)]
      /\ validAppArticles' = Append(validAppArticles, id)
  BY DEF Build
<1>2. /\ k \in Nat /\ Types /\ id \in Ids /\ id \in Articles /\ k + 1 \in 1..MaxIds
      /\ items \in Seq([id: Ids, status: Statuses, from: 0..MaxIds])
      /\ validAppArticles \in Seq(Articles) /\ queue \in [Articles -> Seq(1..MaxIds)]
      /\ queue[id] \in Seq(1..MaxIds)
  <2>1. MaxIds \in Nat
    BY EndpointsAssumption
  <2>2. k \in Nat /\ Types /\ id \in Ids /\ id \in Articles /\ k + 1 \in 1..MaxIds
    BY <2>1, LoopState, UsableIsArticle
  <2> QED
    BY <2>2 DEF Types
<1>3. Item(id, "pending", Nowhere) \in [id: Ids, status: Statuses, from: 0..MaxIds]
  BY <1>2, EndpointsAssumption DEF Item, Statuses, Nowhere
<1>4. /\ items' \in Seq([id: Ids, status: Statuses, from: 0..MaxIds])
      /\ Len(items') = k + 1
      /\ \A p \in 1..k : items'[p] = items[p]
      /\ items'[k + 1] = Item(id, "pending", Nowhere)
  BY <1>1, <1>2, <1>3, AppendProperties
<1>5. /\ validAppArticles' \in Seq(Articles)
      /\ Len(validAppArticles') = Len(validAppArticles) + 1
      /\ \A j \in 1..Len(validAppArticles) : validAppArticles'[j] = validAppArticles[j]
      /\ validAppArticles'[Len(validAppArticles) + 1] = id
  BY <1>1, <1>2, AppendProperties
<1>6. /\ queue'[id] \in Seq(1..MaxIds)
      /\ Len(queue'[id]) = Len(queue[id]) + 1
      /\ \A i \in 1..Len(queue[id]) : queue'[id][i] = queue[id][i]
      /\ queue'[id][Len(queue[id]) + 1] = k + 1
      /\ \A a \in Articles \ {id} : queue'[a] = queue[a]
      /\ queue' \in [Articles -> Seq(1..MaxIds)]
  <2>1. queue'[id] = Append(queue[id], k + 1)
    BY <1>1, <1>2
  <2>2. \A a \in Articles \ {id} : queue'[a] = queue[a]
    BY <1>1, <1>2
  <2>3. DOMAIN queue' = Articles
    BY <1>1, <1>2
  <2> HIDE DEF k, id
  <2>4. /\ queue'[id] \in Seq(1..MaxIds)
        /\ Len(queue'[id]) = Len(queue[id]) + 1
        /\ \A i \in 1..Len(queue[id]) : queue'[id][i] = queue[id][i]
        /\ queue'[id][Len(queue[id]) + 1] = k + 1
    BY <1>2, <2>1, AppendProperties
  <2>5. queue' \in [Articles -> Seq(1..MaxIds)]
    <3>1. queue' = [a \in Articles |-> queue'[a]]
      BY <1>1, <1>2
    <3>2. \A a \in Articles : queue'[a] \in Seq(1..MaxIds)
      BY <1>2, <2>2, <2>4
    <3> QED
      BY <3>1, <3>2
  <2> QED
    BY <2>2, <2>4, <2>5
<1>7. RankIn(request.ids, k + 1) = RankIn(request.ids, k) + 1
  BY <1>2, RankStep
<1>8. Types'
  BY <1>4, <1>5, <1>6, LoopState DEF Types
<1>9. Progress'
  BY <1>2, <1>4, LoopState DEF Progress, Batched
<1>10. Counted'
  BY LoopState DEF Counted, Batched, Progress
<1>11. BatchInv'
  <2>1. \A p \in 1..(k + 1) : p \in 1..k \/ p = k + 1
    BY <1>2
  <2>2. items'[k + 1].id = id /\ items'[k + 1].status = "pending" /\ items'[k + 1].from = Nowhere
    BY <1>4 DEF Item
  <2>3. LoopItems'
    <3>1. \A p \in 1..k : items'[p].id = request.ids[p]
            /\ (~Usable(request.ids[p]) => items'[p].status = "failed" /\ items'[p].from = Nowhere)
      BY <1>4, LoopState DEF BatchInv, LoopItems
    <3> QED
      BY <1>4, <2>1, <2>2, <3>1, LoopState DEF LoopItems
  <2> HIDE DEF k, id
  <2>4. Usable(id) /\ id = request.ids[k + 1] /\ k = Len(items)
    BY DEF id, k
  <2>5. /\ Len(validAppArticles) \in Nat
        /\ \A a \in Articles : Len(queue[a]) \in Nat
    BY <1>2, Lengths
  <2>6. \A p \in 1..k : Usable(request.ids[p]) =>
          RankIn(request.ids, p) \in 1..Len(validAppArticles)
    <3> SUFFICES ASSUME NEW p \in 1..k, Usable(request.ids[p])
                 PROVE  RankIn(request.ids, p) \in 1..Len(validAppArticles)
      OBVIOUS
    <3>1. RankIn(request.ids, p) <= RankIn(request.ids, k)
      BY <1>2, RankGrows
    <3>2. Len(validAppArticles) = RankIn(request.ids, k)
      BY <2>4, LoopState DEF BatchInv, BatchByRank
    <3>3. RankIn(request.ids, p) \in Nat \ {0}
      BY <1>2, RankPositive
    <3> QED
      BY <2>5, <3>1, <3>2, <3>3
  <2>7. BatchByRank'
    <3>1. /\ Len(validAppArticles) = RankIn(request.ids, k)
          /\ \A p \in 1..k :
               Usable(request.ids[p]) => validAppArticles[RankIn(request.ids, p)] = request.ids[p]
          /\ \A j \in 1..Len(validAppArticles) :
               \E p \in 1..k : Usable(request.ids[p]) /\ RankIn(request.ids, p) = j
      BY <2>4, LoopState DEF BatchInv, BatchByRank
    <3>2. Len(validAppArticles') = RankIn(request.ids, k + 1)
      BY <1>5, <1>7, <3>1
    <3>3. \A p \in 1..(k + 1) :
            Usable(request.ids[p]) => validAppArticles'[RankIn(request.ids, p)] = request.ids[p]
      BY <1>5, <1>7, <2>1, <2>4, <2>6, <3>1
    <3>4. \A j \in 1..Len(validAppArticles') :
            \E p \in 1..(k + 1) : Usable(request.ids[p]) /\ RankIn(request.ids, p) = j
      <4>1. \A j \in 1..Len(validAppArticles') : j \in 1..Len(validAppArticles) \/ j = Len(validAppArticles) + 1
        BY <1>5, <2>5
      <4>2. RankIn(request.ids, k + 1) = Len(validAppArticles) + 1 /\ k + 1 \in 1..(k + 1)
        BY <1>2, <1>7, <3>1
      <4>3. \A p \in 1..k : p \in 1..(k + 1)
        BY <1>2
      <4> QED
        BY <2>4, <3>1, <4>1, <4>2, <4>3
    <3> QED
      BY <1>4, <3>2, <3>3, <3>4, LoopState DEF BatchByRank
  <2>8. ResultsByRank'
    <3>1. Len(batch) = 0
      BY LoopState
    <3> QED
      BY <1>5, <2>5, <3>1, LoopState DEF ResultsByRank
  <2>9. ItemsByRank'
    <3>1. \A p \in 1..k : Usable(request.ids[p]) => items[p].from = Nowhere /\ items[p].status = "pending"
      BY <1>2, <2>4, <2>6, LoopState DEF BatchInv, ItemsByRank
    <3>2. ASSUME NEW p \in 1..(k + 1), Usable(request.ids[p]) PROVE ~(RankIn(request.ids, p) <= 0)
      <4>1. RankIn(request.ids, p) \in Nat \ {0}
        BY <1>2, <3>2, RankPositive
      <4> QED
        BY <4>1
    <3> QED
      BY <1>4, <2>1, <2>2, <3>1, <3>2, LoopState DEF ItemsByRank
  <2>10. QueuesWait'
    <3>1. \A a \in Articles : Waits(request.ids, queue[a], a, k, 0)
      BY <2>4, LoopState DEF BatchInv, QueuesWait
    <3>2. ASSUME NEW a \in Articles \ {id} PROVE Waits(request.ids, queue[a], a, k + 1, 0)
      BY <1>2, <2>4, <3>1, WaitsSame
    <3>3. Waits(request.ids, queue'[id], id, k + 1, 0)
      BY <1>2, <1>6, <2>4, <2>5, <3>1, WaitsLonger
    <3>4. \A a \in Articles : Waits(request.ids, queue'[a], a, k + 1, 0)
      BY <1>6, <3>2, <3>3
    <3> QED
      BY <1>4, <3>4, LoopState DEF QueuesWait
  <2> QED
    BY <2>3, <2>7, <2>8, <2>9, <2>10 DEF BatchInv
<1> QED
  BY <1>8, <1>9, <1>10, <1>11 DEF IInv

-----------------------------------------------------------------------------
(* The results of the batch                                                *)

LEMMA RunBatchInv ==
  ASSUME IInv, RunBatch
  PROVE  IInv'
<1>1. Types /\ Progress /\ Counted /\ BatchInv /\ Batched /\ pc = "run"
  BY DEF IInv, RunBatch, Batched
<1>2. PICK outcome \in [DOMAIN validAppArticles -> Outcomes] :
        batch' = [i \in DOMAIN validAppArticles |-> Item(validAppArticles[i], outcome[i], i)]
  BY DEF RunBatch
<1>3. pc' = "assign" /\ UNCHANGED <<request, items, validAppArticles, queue, code, counts>>
  BY DEF RunBatch
<1> DEFINE n == Len(validAppArticles)
<1>4. n \in Nat /\ DOMAIN validAppArticles = 1..n /\ \A i \in 1..n : validAppArticles[i] \in Articles
  BY <1>1, LenProperties DEF Types
<1>5. n <= MaxIds
  <2>1. n = RankIn(request.ids, Len(items)) /\ Len(items) = Len(request.ids)
    BY <1>1 DEF BatchInv, BatchByRank, Progress
  <2>2. Len(request.ids) \in Nat /\ Len(request.ids) <= MaxIds
    BY <1>1, RequestIds
  <2> QED
    BY <1>4, <2>1, <2>2, RankType, EndpointsAssumption
<1> HIDE DEF n
<1>6. \A i \in 1..n : Item(validAppArticles[i], outcome[i], i)
                        \in [id: Articles, status: Outcomes, from: 1..MaxIds]
  BY <1>4, <1>5, EndpointsAssumption DEF Item
<1>7. batch' \in Seq([id: Articles, status: Outcomes, from: 1..MaxIds]) /\ Len(batch') = n
  BY <1>2, <1>4, <1>6
<1>8. \A i \in 1..n : batch'[i].id = validAppArticles[i] /\ batch'[i].from = i
  BY <1>2, <1>4 DEF Item
<1>9. Types'
  BY <1>1, <1>3, <1>7 DEF Types
<1>10. Progress' /\ Counted'
  BY <1>1, <1>3 DEF Progress, Counted, Batched
<1>11. Handed' = 0 /\ Handed = 0
  BY <1>1, <1>3, <1>4, <1>7 DEF Handed, n
<1>12. BatchInv'
  <2>1. LoopItems' /\ BatchByRank' /\ ItemsByRank' /\ QueuesWait'
    BY <1>1, <1>3, <1>11 DEF BatchInv, LoopItems, BatchByRank, ItemsByRank, QueuesWait
  <2>2. ResultsByRank'
    BY <1>3, <1>4, <1>7, <1>8, <1>11 DEF ResultsByRank, n
  <2> QED
    BY <2>1, <2>2 DEF BatchInv
<1> QED
  BY <1>9, <1>10, <1>12 DEF IInv

\* The next result is that of the first waiting item of its article: its place
\* has the next rank.
LEMMA NextResult ==
  ASSUME IInv, Assign
  PROVE  \E p \in 1..Len(items) :
           /\ Usable(request.ids[p]) /\ request.ids[p] \in Articles
           /\ RankIn(request.ids, p) = Handed + 1
           /\ Head(batch).from = Handed + 1 /\ Head(batch).id = request.ids[p]
           /\ Len(queue[request.ids[p]]) > 0 /\ queue[request.ids[p]][1] = p
<1>1. Types /\ Progress /\ BatchInv /\ Batched /\ pc = "assign" /\ batch # <<>>
  BY DEF IInv, Assign, Progress
<1>2. /\ Len(batch) \in Nat \ {0} /\ Len(validAppArticles) \in Nat /\ Handed \in Nat
      /\ Handed = Len(validAppArticles) - Len(batch)
      /\ Head(batch) = batch[1]
  <2>1. Len(batch) \in Nat /\ Len(validAppArticles) \in Nat
    BY <1>1, Lengths
  <2>2. Len(batch) # 0 /\ Head(batch) = batch[1]
    <3>1. batch \in Seq([id: Articles, status: Outcomes, from: 1..MaxIds])
      BY <1>1 DEF Types
    <3> QED
      BY <1>1, <3>1, EmptySeq, HeadTailProperties
  <2>3. Len(batch) <= Len(validAppArticles)
    BY <1>1 DEF BatchInv, ResultsByRank
  <2>4. Handed = Len(validAppArticles) - Len(batch)
    BY <1>1 DEF Handed
  <2> QED
    BY <2>1, <2>2, <2>3, <2>4
<1>3. Handed + 1 \in 1..Len(validAppArticles)
  BY <1>2
<1>4. batch[1].from = Handed + 1 /\ batch[1].id = validAppArticles[Handed + 1]
  BY <1>1, <1>2 DEF BatchInv, ResultsByRank
<1>5. PICK p \in 1..Len(items) : Usable(request.ids[p]) /\ RankIn(request.ids, p) = Handed + 1
  BY <1>1, <1>3 DEF BatchInv, BatchByRank
<1>6. validAppArticles[Handed + 1] = request.ids[p]
  BY <1>1, <1>5 DEF BatchInv, BatchByRank
<1> DEFINE a == request.ids[p]
           q == queue[a]
<1>7. a \in Articles /\ q \in Seq(1..MaxIds) /\ Len(q) \in Nat
  BY <1>1, <1>5, UsableIsArticle, Lengths
<1>8. Waits(request.ids, q, a, Len(items), Handed)
  BY <1>1, <1>7 DEF BatchInv, QueuesWait
<1>9. RankIn(request.ids, p) > Handed
  BY <1>2, <1>5
<1>10. PICK i \in 1..Len(q) : q[i] = p
  BY <1>5, <1>8, <1>9 DEF Waits
<1>11. /\ 1 \in 1..Len(q) /\ q[1] \in 1..Len(items) /\ request.ids[q[1]] = a
       /\ RankIn(request.ids, q[1]) > Handed /\ (1 < i => q[1] < q[i])
  <2>1. 1 \in 1..Len(q)
    BY <1>7, <1>10
  <2> QED
    BY <1>8, <2>1 DEF Waits
<1>12. q[1] = p
  <2> HIDE DEF q, a
  <2>1. Len(items) \in Nat
    BY <1>1, Lengths
  <2>2. q[1] <= p /\ q[1] \in Nat /\ p \in Nat
    BY <1>7, <1>10, <1>11, <2>1
  <2>3. CASE q[1] < p
    <3>1. RankIn(request.ids, q[1]) < Handed + 1
      BY <1>5, <2>2, <2>3, RankGrows
    <3>2. RankIn(request.ids, q[1]) \in Nat
      BY <2>2, RankType
    <3> QED
      BY <1>2, <1>11, <3>1, <3>2
  <2> QED
    BY <2>2, <2>3
<1> QED
  BY <1>2, <1>4, <1>5, <1>6, <1>7, <1>11, <1>12

\* The queue without its first item, which has got the result of the next rank.
LEMMA WaitsShorter ==
  ASSUME NEW s, NEW q, NEW a, NEW k \in Nat, NEW h \in Nat, Waits(s, q, a, k, h),
         q \in Seq(Nat), Len(q) > 0, RankIn(s, q[1]) = h + 1
  PROVE  Waits(s, Tail(q), a, k, h + 1)
<1>1. /\ Len(q) \in Nat \ {0} /\ Len(Tail(q)) = Len(q) - 1
      /\ \A i \in 1..(Len(q) - 1) : Tail(q)[i] = q[i + 1]
  <2>1. Len(q) \in Nat /\ q # <<>>
    BY LenProperties, EmptySeq
  <2> QED
    BY <2>1, HeadTailProperties
<1> DEFINE m == Len(q)
           t == Tail(q)
<1>2. /\ \A i \in 1..m : q[i] \in 1..k /\ s[q[i]] = a /\ Usable(a) /\ RankIn(s, q[i]) > h
      /\ \A i \in 1..m : \A j \in 1..m : i < j => q[i] < q[j]
      /\ \A p \in 1..k : s[p] = a /\ Usable(a) /\ RankIn(s, p) > h => \E i \in 1..m : q[i] = p
  BY DEF Waits
<1>3. m \in Nat \ {0} /\ Len(t) = m - 1 /\ \A i \in 1..(m - 1) : t[i] = q[i + 1]
  BY <1>1
<1> HIDE DEF m, t
<1>4. 1 \in 1..m /\ \A i \in 1..(m - 1) : i + 1 \in 1..m /\ 1 < i + 1
  BY <1>3
<1>5. ASSUME NEW i \in 1..(m - 1)
      PROVE  t[i] \in 1..k /\ s[t[i]] = a /\ Usable(a) /\ RankIn(s, t[i]) > h + 1
  <2>1. t[i] = q[i + 1] /\ i + 1 \in 1..m
    BY <1>3, <1>4
  <2>2. q[i + 1] \in 1..k /\ s[q[i + 1]] = a /\ Usable(a) /\ q[1] < q[i + 1] /\ q[1] \in 1..k
    BY <1>2, <1>4, <2>1
  <2>3. RankIn(s, q[1]) < RankIn(s, q[i + 1])
    BY <2>2, RankGrows
  <2> QED
    BY <2>1, <2>2, <2>3
<1>6. ASSUME NEW i \in 1..(m - 1), NEW j \in 1..(m - 1), i < j PROVE t[i] < t[j]
  <2>1. i + 1 < j + 1 /\ i + 1 \in 1..m /\ j + 1 \in 1..m
    BY <1>3, <1>6
  <2>2. q[i + 1] < q[j + 1]
    BY <1>2, <2>1
  <2> QED
    BY <1>3, <2>2
<1>7. ASSUME NEW p \in 1..k, s[p] = a, Usable(a), RankIn(s, p) > h + 1
      PROVE  \E i \in 1..(m - 1) : t[i] = p
  <2>1. RankIn(s, p) \in Nat
    BY RankType
  <2>2. PICK i \in 1..m : q[i] = p
    BY <1>2, <1>7, <2>1
  <2>3. i # 1
    BY <1>7, <2>1, <2>2
  <2>4. i - 1 \in 1..(m - 1) /\ (i - 1) + 1 = i
    BY <1>3, <2>2, <2>3
  <2>5. t[i - 1] = p
    BY <1>3, <2>2, <2>4
  <2> QED
    BY <2>4, <2>5
<1> QED
  BY <1>3, <1>5, <1>6, <1>7 DEF Waits, t

\* The queues of other articles do not wait for that result.
LEMMA WaitsOn ==
  ASSUME NEW s, NEW q, NEW a, NEW k \in Nat, NEW h \in Nat, NEW p \in 1..k, Waits(s, q, a, k, h),
         RankIn(s, p) = h + 1, Usable(s[p]), s[p] # a
  PROVE  Waits(s, q, a, k, h + 1)
<1>1. ASSUME NEW r \in 1..k, s[r] = a, Usable(a), RankIn(s, r) > h PROVE RankIn(s, r) > h + 1
  <2>1. r # p
    BY <1>1
  <2>2. RankIn(s, r) # RankIn(s, p)
    <3>1. CASE r < p
      BY <3>1, RankGrows, RankType
    <3>2. CASE p < r
      BY <1>1, <3>2, RankGrows, RankType
    <3> QED
      BY <2>1, <3>1, <3>2
  <2>3. RankIn(s, r) \in Nat
    BY RankType
  <2> QED
    BY <1>1, <2>2, <2>3
<1>2. ASSUME NEW r \in 1..k, RankIn(s, r) > h + 1 PROVE RankIn(s, r) > h
  <2>1. RankIn(s, r) \in Nat
    BY RankType
  <2> QED
    BY <1>2, <2>1
<1> QED
  BY <1>1, <1>2 DEF Waits

LEMMA AssignInv ==
  ASSUME IInv, Roomy, Assign
  PROVE  IInv'
<1>1. /\ Types /\ Progress /\ Counted /\ BatchInv /\ Batched /\ pc = "assign" /\ batch # <<>>
      /\ UNCHANGED <<request, pc, validAppArticles, code, counts>>
      /\ batch' = Tail(batch)
  BY DEF IInv, Assign, Progress
<1>2. PICK p \in 1..Len(items) :
           /\ Usable(request.ids[p]) /\ request.ids[p] \in Articles
           /\ RankIn(request.ids, p) = Handed + 1
           /\ Head(batch).from = Handed + 1 /\ Head(batch).id = request.ids[p]
           /\ Len(queue[request.ids[p]]) > 0 /\ queue[request.ids[p]][1] = p
  BY NextResult
<1> DEFINE a == request.ids[p]
           k == Len(items)
           h == Handed
           item == Item(items[p].id, StatusOf(Head(batch).status), h + 1)
<1>3. /\ items' = [items EXCEPT ![p] = item]
      /\ queue' = [queue EXCEPT ![a] = Tail(queue[a])]
  <2>1. queue[a] # <<>>
    BY <1>2, EmptySeq
  <2> QED
    BY <1>2, <2>1 DEF Assign, Taken, Roomy
<1>4. /\ batch \in Seq([id: Articles, status: Outcomes, from: 1..MaxIds])
      /\ Len(batch) \in Nat \ {0} /\ Head(batch) = batch[1]
      /\ Tail(batch) \in Seq([id: Articles, status: Outcomes, from: 1..MaxIds])
      /\ Len(Tail(batch)) = Len(batch) - 1
      /\ \A j \in 1..(Len(batch) - 1) : Tail(batch)[j] = batch[j + 1]
  <2>1. batch \in Seq([id: Articles, status: Outcomes, from: 1..MaxIds])
    BY <1>1 DEF Types
  <2>2. Len(batch) \in Nat \ {0}
    BY <1>1, <2>1, EmptySeq
  <2> QED
    BY <1>1, <2>1, <2>2, HeadTailProperties
<1>5. Head(batch) \in [id: Articles, status: Outcomes, from: 1..MaxIds]
  <2>1. 1 \in 1..Len(batch)
    BY <1>4
  <2>2. batch[1] \in [id: Articles, status: Outcomes, from: 1..MaxIds]
    BY <1>4, <2>1, ElementOfSeq
  <2> QED
    BY <1>4, <2>2
<1>6. StatusOf(Head(batch).status) \in Succeeds \cup {"failed"} /\ h + 1 \in 1..MaxIds
  BY <1>2, <1>5 DEF StatusOf, Succeeds, Outcomes
<1>7. /\ k \in Nat /\ h \in Nat /\ Len(validAppArticles) \in Nat
      /\ h = Len(validAppArticles) - Len(batch) /\ Handed' = h + 1
  BY <1>1, <1>4, NothingYet, Lengths DEF Handed
<1>8. items \in Seq([id: Ids, status: Statuses, from: 0..MaxIds]) /\ items[p].id = a
  BY <1>1 DEF Types, BatchInv, LoopItems
<1> HIDE DEF a, k, h
<1>9. item \in [id: Ids, status: Statuses, from: 0..MaxIds]
  <2>1. a \in Ids
    BY <1>2 DEF Ids, a
  <2>2. h + 1 \in 0..MaxIds
    BY <1>6, EndpointsAssumption
  <2>3. StatusOf(Head(batch).status) \in Statuses
    BY <1>6 DEF Succeeds, Statuses, Outcomes
  <2> QED
    BY <1>8, <2>1, <2>2, <2>3 DEF Item
<1>10. item.id = a /\ item.status = StatusOf(Head(batch).status) /\ item.from = h + 1
  BY <1>8 DEF Item
<1> HIDE DEF item
<1>11. /\ items' \in Seq([id: Ids, status: Statuses, from: 0..MaxIds]) /\ Len(items') = k
       /\ items'[p] = item
       /\ \A r \in 1..k : r # p => items'[r] = items[r]
  BY <1>2, <1>3, <1>8, <1>9, ExceptSeq DEF k
<1>12. /\ queue[a] \in Seq(1..MaxIds) /\ queue'[a] = Tail(queue[a])
       /\ \A b \in Articles \ {a} : queue'[b] = queue[b]
       /\ queue' \in [Articles -> Seq(1..MaxIds)]
  <2>1. a \in Articles /\ queue \in [Articles -> Seq(1..MaxIds)]
    BY <1>1, <1>2 DEF Types, a
  <2>2. queue[a] \in Seq(1..MaxIds) /\ queue[a] # <<>>
    BY <1>2, <2>1, EmptySeq DEF a
  <2>3. Tail(queue[a]) \in Seq(1..MaxIds)
    BY <2>2, HeadTailProperties
  <2> QED
    BY <1>3, <2>1, <2>2, <2>3
<1>13. Types'
  BY <1>1, <1>4, <1>11, <1>12 DEF Types
<1>14. Progress'
  BY <1>1, <1>11 DEF Progress, Batched, k
<1>15. Counted'
  BY <1>1 DEF Counted, Progress, Batched
<1>16. BatchInv'
  <2>1. LoopItems'
    <3>1. \A r \in 1..k : items[r].id = request.ids[r]
            /\ (~Usable(request.ids[r]) => items[r].status = "failed" /\ items[r].from = Nowhere)
      BY <1>1 DEF BatchInv, LoopItems, k
    <3>2. item.id = request.ids[p] /\ Usable(request.ids[p])
      BY <1>2, <1>10 DEF a
    <3> QED
      BY <1>1, <1>11, <3>1, <3>2 DEF LoopItems
  <2>2. BatchByRank'
    BY <1>1, <1>11 DEF BatchInv, BatchByRank, k
  <2>3. ResultsByRank'
    <3>1. Len(batch') = Len(batch) - 1 /\ Len(batch) <= Len(validAppArticles)
      BY <1>1, <1>4 DEF BatchInv, ResultsByRank
    <3>2. ASSUME NEW j \in 1..(Len(batch) - 1)
          PROVE  batch'[j].from = (h + 1) + j /\ batch'[j].id = validAppArticles[(h + 1) + j]
      <4>1. j + 1 \in 1..Len(batch) /\ h + (j + 1) = (h + 1) + j
        BY <1>4, <1>7
      <4>2. batch[j + 1].from = h + (j + 1) /\ batch[j + 1].id = validAppArticles[h + (j + 1)]
        BY <1>1, <4>1 DEF BatchInv, ResultsByRank, h
      <4>3. batch'[j] = batch[j + 1]
        BY <1>1, <1>4
      <4> QED
        BY <4>1, <4>2, <4>3
    <3>3. Len(batch') <= Len(validAppArticles)
      BY <1>4, <1>7, <3>1
    <3> QED
      BY <1>1, <1>7, <3>1, <3>2, <3>3 DEF ResultsByRank
  <2>4. ItemsByRank'
    <3>1. ASSUME NEW r \in 1..k, Usable(request.ids[r])
          PROVE  IF RankIn(request.ids, r) <= h + 1
                 THEN items'[r].from = RankIn(request.ids, r) /\ items'[r].status \in Succeeds \cup {"failed"}
                 ELSE items'[r].from = Nowhere /\ items'[r].status = "pending"
      <4>1. CASE r = p
        BY <1>2, <1>6, <1>7, <1>10, <1>11, <4>1 DEF h
      <4>2. CASE r # p
        <5>1. IF RankIn(request.ids, r) <= h
              THEN items[r].from = RankIn(request.ids, r) /\ items[r].status \in Succeeds \cup {"failed"}
              ELSE items[r].from = Nowhere /\ items[r].status = "pending"
          BY <1>1, <3>1 DEF BatchInv, ItemsByRank, k, h
        <5>2. RankIn(request.ids, r) \in Nat /\ r \in Nat /\ p \in Nat
          BY <1>2, <1>7, RankType DEF k
        <5>3. RankIn(request.ids, r) # h + 1
          <6>1. RankIn(request.ids, p) = h + 1
            BY <1>2 DEF h
          <6>2. CASE r < p
            BY <1>2, <1>7, <5>2, <6>1, <6>2, RankGrows
          <6>3. CASE p < r
            BY <1>7, <3>1, <5>2, <6>1, <6>3, RankGrows
          <6> QED
            BY <4>2, <5>2, <6>2, <6>3
        <5>4. RankIn(request.ids, r) <= h + 1 <=> RankIn(request.ids, r) <= h
          BY <1>7, <5>2, <5>3
        <5> QED
          BY <1>11, <4>2, <5>1, <5>4
      <4> QED
        BY <4>1, <4>2
    <3> QED
      BY <1>1, <1>7, <1>11, <3>1 DEF ItemsByRank
  <2>5. QueuesWait'
    <3>1. \A b \in Articles : Waits(request.ids, queue[b], b, k, h)
      BY <1>1 DEF BatchInv, QueuesWait, k, h
    <3>2. Waits(request.ids, queue'[a], a, k, h + 1)
      <4>1. queue[a] \in Seq(Nat) /\ Len(queue[a]) > 0 /\ RankIn(request.ids, queue[a][1]) = h + 1
        BY <1>2, <1>12, EndpointsAssumption DEF a, h
      <4>2. Waits(request.ids, queue[a], a, k, h)
        BY <1>2, <3>1 DEF a
      <4> QED
        BY <1>7, <1>12, <4>1, <4>2, WaitsShorter
    <3>3. ASSUME NEW b \in Articles \ {a} PROVE Waits(request.ids, queue'[b], b, k, h + 1)
      <4>1. Waits(request.ids, queue[b], b, k, h) /\ queue'[b] = queue[b]
        BY <1>12, <3>1
      <4>2. RankIn(request.ids, p) = h + 1 /\ Usable(request.ids[p]) /\ request.ids[p] # b /\ p \in 1..k
        BY <1>2 DEF a, h, k
      <4> QED
        BY <1>7, <4>1, <4>2, WaitsOn
    <3> QED
      BY <1>1, <1>7, <1>11, <3>2, <3>3 DEF QueuesWait
  <2> QED
    BY <2>1, <2>2, <2>3, <2>4, <2>5 DEF BatchInv
<1> QED
  BY <1>13, <1>14, <1>15, <1>16 DEF IInv

\* Once all results are handed over no item waits any more.
LEMMA AllHanded ==
  ASSUME Types, BatchInv, Handed = Len(validAppArticles), NEW p \in 1..Len(items)
  PROVE  /\ items[p].id = request.ids[p]
         /\ Usable(request.ids[p]) =>
              items[p].from = RankIn(request.ids, p) /\ items[p].status \in Succeeds \cup {"failed"}
         /\ ~Usable(request.ids[p]) => items[p].from = Nowhere /\ items[p].status = "failed"
<1>1. items[p].id = request.ids[p]
      /\ (~Usable(request.ids[p]) => items[p].from = Nowhere /\ items[p].status = "failed")
  BY DEF BatchInv, LoopItems
<1>2. ASSUME Usable(request.ids[p])
      PROVE  items[p].from = RankIn(request.ids, p) /\ items[p].status \in Succeeds \cup {"failed"}
  <2>1. RankIn(request.ids, p) <= Handed
    <3>1. Len(items) \in Nat /\ p \in Nat /\ p <= Len(items)
      BY Lengths
    <3>2. RankIn(request.ids, p) <= RankIn(request.ids, Len(items))
      BY <3>1, RankGrows
    <3> QED
      BY <3>2 DEF BatchInv, BatchByRank
  <2> QED
    BY <1>2, <2>1 DEF BatchInv, ItemsByRank
<1> QED
  BY <1>1, <1>2

\* A set of places and the others.
LEMMA Halves ==
  ASSUME NEW n \in Nat, NEW F \in SUBSET (1..n)
  PROVE  /\ Cardinality(F) \in Nat /\ Cardinality((1..n) \ F) \in Nat
         /\ Cardinality((1..n) \ F) + Cardinality(F) = n
<1>1. IsFiniteSet(1..n) /\ Cardinality(1..n) = n
  BY FS_Interval
<1>2. IsFiniteSet(F) /\ Cardinality(F) \in Nat
  BY <1>1, FS_Subset, FS_CardinalityType
<1>3. /\ IsFiniteSet((1..n) \ F)
      /\ Cardinality((1..n) \ F) = Cardinality(1..n) - Cardinality((1..n) \cap F)
  BY <1>1, FS_Difference
<1>4. Cardinality((1..n) \ F) \in Nat
  BY <1>3, FS_CardinalityType
<1>5. (1..n) \cap F = F
  OBVIOUS
<1>6. Cardinality((1..n) \ F) = n - Cardinality(F)
  BY <1>1, <1>3, <1>5
<1> QED
  BY <1>2, <1>4, <1>6

LEMMA CountInv ==
  ASSUME IInv, Count
  PROVE  IInv'
<1>1. /\ Types /\ Progress /\ Counted /\ BatchInv /\ Batched /\ pc = "assign" /\ batch = <<>>
      /\ pc' = "responded" /\ code' = 200
      /\ UNCHANGED <<request, items, validAppArticles, queue, batch>>
  BY DEF IInv, Count, Progress, Respond
<1>2. Handed = Len(validAppArticles) /\ Handed' = Handed
  <2>1. Len(batch) = 0 /\ Len(validAppArticles) \in Nat
    BY <1>1, Lengths
  <2> QED
    BY <1>1, <2>1 DEF Handed
<1>3. Types'
  BY <1>1 DEF Types
<1>4. Progress'
  BY <1>1, <1>2 DEF Progress, Batched
<1>5. Counted'
  <2> DEFINE n == Len(items)
             F == {p \in DOMAIN items : items[p].status = "failed"}
  <2>1. n \in Nat /\ n <= MaxIds /\ DOMAIN items = 1..n
    <3>1. n = Len(request.ids)
      BY <1>1 DEF Progress
    <3> QED
      BY <1>1, <3>1, Lengths, RequestIds
  <2>2. \A p \in 1..n : items[p].status \in Succeeds <=> items[p].status # "failed"
    BY <1>1, <1>2, AllHanded DEF Succeeds
  <2>3. DOMAIN items \ Succeeded = F /\ Succeeded = (1..n) \ F /\ F \subseteq 1..n
    BY <2>1, <2>2 DEF Succeeded
  <2>4. counts' = [succeeded |-> Cardinality((1..n) \ F), failed |-> Cardinality(F)]
    BY <2>3 DEF Count
  <2>5. F' = F /\ Len(items') = n
    BY <1>1
  <2> HIDE DEF F, n
  <2>6. /\ Cardinality(F) \in Nat /\ Cardinality((1..n) \ F) \in Nat
        /\ Cardinality((1..n) \ F) + Cardinality(F) = n
    BY <2>1, <2>3, Halves
  <2>7. /\ counts' \in [succeeded: Nat, failed: Nat]
        /\ counts'.failed = Cardinality(F) /\ counts'.succeeded + counts'.failed = n
    BY <2>4, <2>6
  <2>8. counts'.succeeded + counts'.failed <= MaxIds
    BY <2>1, <2>7
  <2>9. Cardinality(F) = Cardinality({p \in DOMAIN items' : items'[p].status = "failed"})
    BY <1>1 DEF F
  <2> QED
    BY <1>1, <2>5, <2>7, <2>8, <2>9 DEF Counted
<1>6. BatchInv'
  BY <1>1, <1>2, Same
<1> QED
  BY <1>3, <1>4, <1>5, <1>6 DEF IInv

\* No append moves the items.
LEMMA StaysRoomy ==
  ASSUME IInv, Roomy, [Next]_vars
  PROVE  Roomy'
<1>1. Types /\ Progress
  BY DEF IInv
<1>2. CASE Check \/ Find \/ Run \/ Built \/ RunBatch \/ Assign \/ Count
  <2>1. UNCHANGED <<request, array>> /\ (pc' = "find" => pc = "find")
    BY <1>2 DEF Check, Find, Run, Built, RunBatch, Assign, Count, Respond
  <2> QED
    BY <2>1 DEF Roomy, Batched, array
<1>3. CASE Fetch
  <2>1. UNCHANGED <<request, stale>> /\ pc' \in {"find", "responded"}
    BY <1>3 DEF Fetch, Respond
  <2>2. (pc' = "find" /\ capacity' = Len(request.ids)) \/ (pc' = "responded" /\ capacity' = capacity)
    BY <1>3 DEF Fetch, Respond, Reserved
  <2>3. Len(request.ids) \in Nat
    BY <1>1, RequestIds
  <2> QED
    BY <2>1, <2>2, <2>3 DEF Roomy, Batched
<1>4. CASE Build
  <2>1. pc = "find" /\ Batched /\ Len(items) < Len(request.ids) /\ UNCHANGED <<request, pc>> /\ Grow
    BY <1>4 DEF Build, Batched
  <2>2. UNCHANGED array
    BY <2>1 DEF Roomy, Grow
  <2> QED
    BY <2>1, <2>2 DEF Roomy, Batched, array
<1>5. CASE UNCHANGED vars
  BY <1>5 DEF vars, Roomy, Batched, array
<1> QED
  BY <1>2, <1>3, <1>4, <1>5 DEF Next

-----------------------------------------------------------------------------
(* Theorems                                                                *)

\* What each place of the handler knows of items, queues and results, for any
\* request, any listing and any outcomes.
THEOREM Inductive == Spec => [](IInv /\ Roomy)
<1>1. Init => Roomy
  BY DEF Init, Roomy
<1>2. IInv /\ Roomy /\ [Next]_vars => (IInv /\ Roomy)'
  <2> SUFFICES ASSUME IInv, Roomy, [Next]_vars PROVE IInv' /\ Roomy'
    OBVIOUS
  <2>1. Roomy'
    BY StaysRoomy
  <2>2. CASE Build
    BY <2>1, <2>2, BuildFailed, BuildPending
  <2>3. CASE UNCHANGED vars
    <3>1. Handed' = Handed
      BY <2>3 DEF vars, Handed
    <3>2. Types' /\ Progress' /\ Counted' /\ Batched' = Batched
      BY <2>3, <3>1 DEF vars, IInv, Types, Progress, Counted, Batched
    <3>3. BatchInv => BatchInv'
      BY <2>3, <3>1, Same DEF vars
    <3> QED
      BY <2>1, <3>2, <3>3 DEF IInv
  <2> QED
    BY <2>1, <2>2, <2>3, QuietInv, RunInv, RunBatchInv, AssignInv, CountInv DEF Next
<1> QED
  BY <1>1, <1>2, InitInv, PTL DEF Spec

\* Every variable has its type, for any articles and any length of a request.
THEOREM TypeCorrect == Spec => []TypeOK
<1>1. IInv /\ Roomy => TypeOK
  <2> SUFFICES ASSUME IInv, Roomy PROVE TypeOK
    OBVIOUS
  <2>1. counts \in [succeeded: 0..MaxIds, failed: 0..MaxIds]
    <3>1. counts \in [succeeded: Nat, failed: Nat] /\ counts.succeeded + counts.failed <= MaxIds
      BY DEF IInv, Counted
    <3>2. counts.succeeded \in 0..MaxIds /\ counts.failed \in 0..MaxIds
      BY <3>1, EndpointsAssumption
    <3> QED
      BY <3>1, <3>2
  <2> QED
    BY <2>1 DEF IInv, Types, Roomy, TypeOK
<1> QED
  BY <1>1, Inductive, PTL

\* However often ids are repeated, unknown or invalid, each place of a batch
\* response has the result that the batch has for that very place.
THEOREM OwnResults == Spec => []EachItemItsOwnResult
<1>1. IInv => EachItemItsOwnResult
  <2> SUFFICES ASSUME IInv, code = 200, Batched
               PROVE  /\ Len(items) = Len(request.ids)
                      /\ \A p \in DOMAIN items :
                           /\ items[p].id = request.ids[p]
                           /\ items[p].status # "pending"
                           /\ items[p].from = IF Usable(items[p].id) THEN Rank(p) ELSE Nowhere
    BY DEF EachItemItsOwnResult, Batched
  <2>1. Len(items) = Len(request.ids) /\ Handed = Len(validAppArticles) /\ Types /\ BatchInv
    BY DEF IInv, Progress
  <2>2. DOMAIN items = 1..Len(items)
    BY <2>1, Lengths
  <2>3. ASSUME NEW p \in 1..Len(items)
        PROVE  /\ items[p].id = request.ids[p]
               /\ items[p].status # "pending"
               /\ items[p].from = IF Usable(items[p].id) THEN Rank(p) ELSE Nowhere
    BY <2>1, AllHanded, RankIsIn DEF Succeeds
  <2> QED
    BY <2>1, <2>2, <2>3
<1> QED
  BY <1>1, Inductive, PTL

\* The counters of a batch response agree with the statuses of its items.
THEOREM TrueCounters == Spec => []CountersAgreeWithItems
<1>1. IInv => CountersAgreeWithItems
  BY DEF IInv, Counted, Progress, CountersAgreeWithItems, Batched
<1> QED
  BY <1>1, Inductive, PTL
=============================================================================
