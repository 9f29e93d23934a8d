-------------------------- MODULE ExtractEndpoints --------------------------
(***************************************************************************)
(* One request to POST /api/extract/run or /api/extract/run-batch          *)
(* (internal/http/handler.go): validation, the lookup of the requested     *)
(* articles on the first upstream page, the persisted extraction, and the  *)
(* response.  The batch handler may be given an article more than once; it *)
(* keeps a queue of response items per article id and hands the results of *)
(* the batch to them in order.  The queues hold pointers into the array of *)
(* the response items, which append leaves behind when it is full.         *)
(*                                                                         *)
(* What the extraction of an article comes to is ExtractionLifecycle's and *)
(* BatchPool's subject; here it is any outcome, marked with the place of   *)
(* the result in the batch.                                                *)
(***************************************************************************)
EXTENDS Naturals, Sequences, FiniteSets

CONSTANTS
  Articles,
  Invalid,       \* an id that is not positive
  Listed,        \* articles on the upstream page that the handlers fetch
  Convertible,   \* articles that FromModelArticle accepts
  MaxIds         \* bound on the length of a batch request

ASSUME EndpointsAssumption ==
  /\ Invalid \notin Articles
  /\ Listed \subseteq Articles /\ Convertible \subseteq Articles
  /\ MaxIds \in Nat \ {0}

Ids == Articles \cup {Invalid}

\* form: the method and the JSON body; concurrency: the sign of the field.
Request ==
  [endpoint: {"run"}, form: {"ok", "method", "body"}, ids: {<<id>> : id \in Ids}, concurrency: {"none"}]
  \cup [endpoint: {"run-batch"}, form: {"ok", "method", "body"},
        ids: UNION {[1..n -> Ids] : n \in 0..MaxIds}, concurrency: {"none", "negative"}]

VARIABLES
  request,
  pc,        \* "check", "fetch", "find", "run", "assign" or "responded"
    \* history: upstream was asked
  items,     \* the response items, one per id that the loop has looked at
  validAppArticles,   \* the articles for the batch, in the order of the request
  capacity,  \* of the array that holds the items
  stale,     \* places whose pointers lead into an array left behind
  queue,     \* queue[a]: places of the items that wait for a result of a
  batch,     \* the items of the finished batch
  code,      \* the HTTP status
  counts     \* succeeded and failed of a batch response

array == <<capacity, stale>>
vars == <<request, pc, items, array, validAppArticles, queue, batch, code, counts>>

-----------------------------------------------------------------------------
Outcomes == {"newly_extracted", "already_done", "already_pending", "already_failed", "error"}

\* What a response may call an item; "error" is internal.
Statuses == (Outcomes \ {"error"}) \cup {"pending", "failed"}

Item(id, status, from) == [id |-> id, status |-> status, from |-> from]

\* No result of the batch.
Nowhere == 0

Usable(id) == id \in Listed \cap Convertible

Succeeds == {"newly_extracted", "already_done", "already_pending"}

Init ==
  /\ request \in Request
  /\ pc = "check"
  /\ items = <<>>
  /\ validAppArticles = <<>>
  /\ capacity = 0 /\ stale = {}
  /\ queue = [a \in Articles |-> <<>>]
  /\ batch = <<>>
  /\ code = 0
  /\ counts = [succeeded |-> 0, failed |-> 0]

Respond(status) == pc' = "responded" /\ code' = status

(* Checks before any other work; the ids of a batch are not among them.    *)
Check ==
  /\ pc = "check"
  /\ CASE request.form = "method" -> Respond(405)
       [] request.form = "body" -> Respond(400)
       [] request.endpoint = "run" /\ request.ids = <<Invalid>> -> Respond(400)
       [] request.endpoint = "run-batch" /\ (request.ids = <<>> \/ request.concurrency = "negative") ->
            Respond(400)
       [] OTHER -> pc' = "fetch" /\ UNCHANGED code
  /\ UNCHANGED <<request, items, array, validAppArticles, queue, batch, counts>>

\* Mutant: the items start without an array.
NothingReserved(n) == 0

\* The capacity that the response items of n ids are given.
Reserved(n) == n

(* FetchArticles: the first page, or an error.                             *)
Fetch ==
  /\ pc = "fetch"
  /\ \/ Respond(502) /\ UNCHANGED capacity
     \/ pc' = "find" /\ capacity' = Reserved(Len(request.ids)) /\ UNCHANGED code
  /\ UNCHANGED <<request, items, stale, validAppArticles, queue, batch, counts>>

(* run: the article must be on the page and convertible.                   *)
Find ==
  /\ pc = "find" /\ request.endpoint = "run"
  /\ LET id == request.ids[1] IN
       CASE id \notin Listed -> Respond(404)
         [] id \in Listed \ Convertible -> Respond(500)
         [] OTHER -> pc' = "run" /\ UNCHANGED code
  /\ UNCHANGED <<request, items, array, validAppArticles, queue, batch, counts>>

(* run: the outcome of the extraction is the status; an error is "failed". *)
Run ==
  /\ pc = "run" /\ request.endpoint = "run"
  /\ \E outcome \in Outcomes :
       items' = <<Item(request.ids[1], IF outcome = "error" THEN "failed" ELSE outcome, 1)>>
  /\ Respond(200)
  /\ UNCHANGED <<request, array, validAppArticles, queue, batch, counts>>

(* append moves the items to a new array if the present one is full.       *)
Grow ==
  IF Len(items) < capacity THEN UNCHANGED array
  ELSE /\ capacity' = 2 * capacity + 1
       /\ stale' = DOMAIN items

(* run-batch: the next id becomes a response item.  The item of a usable   *)
(* article waits in the queue of the article, which joins the batch.       *)
Build ==
  /\ pc = "find" /\ request.endpoint = "run-batch"
  /\ Len(items) < Len(request.ids)
  /\ LET place == Len(items) + 1
         id == request.ids[place] IN
       IF Usable(id)
       THEN /\ items' = Append(items, Item(id, "pending", Nowhere))
            /\ queue' = [queue EXCEPT ![id] = Append(@, place)]
            /\ validAppArticles' = Append(validAppArticles, id)
       ELSE /\ items' = Append(items, Item(id, "failed", Nowhere))
            /\ UNCHANGED <<queue, validAppArticles>>
  /\ Grow
  /\ UNCHANGED <<request, pc, batch, code, counts>>

(* run-batch: all ids have been looked at.                                 *)
Built ==
  /\ pc = "find" /\ request.endpoint = "run-batch"
  /\ Len(items) = Len(request.ids)
  /\ pc' = IF validAppArticles = <<>> THEN "assign" ELSE "run"
  /\ UNCHANGED <<request, items, array, validAppArticles, queue, batch, code, counts>>

(* run-batch: RunBatchAndPersistWithOutcome returns one item per article.  *)
(* Its own errors are setup errors, which Check has excluded.              *)
RunBatch ==
  /\ pc = "run" /\ request.endpoint = "run-batch"
  /\ \E outcome \in [DOMAIN validAppArticles -> Outcomes] :
       batch' = [i \in DOMAIN validAppArticles |-> Item(validAppArticles[i], outcome[i], i)]
  /\ pc' = "assign"
  /\ UNCHANGED <<request, items, array, validAppArticles, queue, code, counts>>

\* Mutant: the result stays with the first item of its article.
TakenFirstOnly(places) == places

\* The queue without the item that has its result.
Taken(places) == Tail(places)

\* A failure of any kind is reported as "failed".
StatusOf(outcome) == IF outcome \in {"error", "already_failed"} THEN "failed" ELSE outcome

(* run-batch: the next result goes to the first item that waits for it; a  *)
(* write through a stale pointer is not seen in the response.              *)
Assign ==
  /\ pc = "assign" /\ batch # <<>>
  /\ LET result == Head(batch)
         places == queue[result.id] IN
       IF places = <<>> THEN UNCHANGED <<items, queue>>
       ELSE /\ items' = IF places[1] \in stale THEN items
                        ELSE [items EXCEPT ![places[1]] = Item(@.id, StatusOf(result.status), result.from)]
            /\ queue' = [queue EXCEPT ![result.id] = Taken(places)]
  /\ batch' = Tail(batch)
  /\ UNCHANGED <<request, pc, array, validAppArticles, code, counts>>

\* Mutant: a failed item is taken for one that was not extracted anew.
SucceededUnlessFailed == {p \in DOMAIN items : items[p].status # "error"}

Succeeded == {p \in DOMAIN items : items[p].status \in Succeeds}

Count ==
  /\ pc = "assign" /\ batch = <<>>
  /\ counts' = [succeeded |-> Cardinality(Succeeded),
                failed |-> Cardinality(DOMAIN items \ Succeeded)]
  /\ Respond(200)
  /\ UNCHANGED <<request, items, array, validAppArticles, queue, batch>>

Next == Check \/ Fetch \/ Find \/ Run \/ Build \/ Built \/ RunBatch \/ Assign \/ Count

Spec == Init /\ [][Next]_vars

-----------------------------------------------------------------------------
(* Properties                                                              *)

\* Every variable has its type.
TypeOK ==
  /\ request \in Request
  /\ pc \in {"check", "fetch", "find", "run", "assign", "responded"}
  /\ items \in Seq([id: Ids, status: Statuses, from: 0..MaxIds])
  /\ validAppArticles \in Seq(Articles)
  /\ capacity \in Nat /\ stale \subseteq 1..MaxIds
  /\ queue \in [Articles -> Seq(1..MaxIds)]
  /\ batch \in Seq([id: Articles, status: Outcomes, from: 1..MaxIds])
  /\ code \in {0, 200, 400, 404, 405, 500, 502}
  /\ counts \in [succeeded: 0..MaxIds, failed: 0..MaxIds]

\* The place of an id of the request among the articles of the batch.
Rank(p) == Cardinality({q \in 1..p : Usable(request.ids[q])})

\* A batch response answers the ids of the request one by one: the item at a
\* place carries that id and the very result that the batch has for that place,
\* however often the id occurs, and no item is left at its placeholder, as one
\* would be whose result went into an array that the items had outgrown.
EachItemItsOwnResult ==
  (code = 200 /\ request.endpoint = "run-batch") =>
    /\ Len(items) = Len(request.ids)
    /\ \A p \in DOMAIN items :
         /\ items[p].id = request.ids[p]
         /\ items[p].status # "pending"
         /\ items[p].from = IF Usable(items[p].id) THEN Rank(p) ELSE Nowhere

\* The counters of a batch response tell failed items from the others: as many
\* failed as there are items with status "failed".
CountersAgreeWithItems ==
  (code = 200 /\ request.endpoint = "run-batch") =>
    /\ counts.failed = Cardinality({p \in DOMAIN items : items[p].status = "failed"})
    /\ counts.succeeded + counts.failed = Len(request.ids)
=============================================================================
