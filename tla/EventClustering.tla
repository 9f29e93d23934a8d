-------------------------- MODULE EventClustering --------------------------
(***************************************************************************)
(* Incremental clustering of finished extractions into events              *)
(* (internal/app/events/cluster.go, driven by events/scheduler.go, stored  *)
(* by internal/repository/extraction/repository_events.go), together with  *)
(* the part of persisted extraction it depends on: finishedAt is taken     *)
(* from the clock BEFORE the row is committed (persist.go:92-93).          *)
(*                                                                         *)
(* One cycle reads the clock, loads the cursor, lists the rows that        *)
(* finished after it, and for every listed row reads the event of its      *)
(* cluster key, merges and writes it back; only then does it store the     *)
(* cursor.  Any statement may fail, which ends the cycle, and the process  *)
(* may restart between any two statements.                                 *)
(*                                                                         *)
(* Strength, confidence and direction of an event are abstracted to the    *)
(* number of times each article was folded into them.                      *)
(***************************************************************************)
EXTENDS Naturals, FiniteSets

CONSTANTS
  Articles,      \* article ids (naturals: listing breaks ties by id)
  Keys,          \* cluster keys
  KeyOf,         \* KeyOf[a]: what BuildClusterKey yields for article a
  MaxTime,       \* bound on the clock
  MaxFailures    \* bound on failed statements and restarts

ASSUME ClusteringAssumption ==
  /\ Articles \subseteq Nat
  /\ KeyOf \in [Articles -> Keys]
  /\ MaxTime \in Nat \ {0}
  /\ MaxFailures \in Nat

VARIABLES
  clock,      \* the wall clock at the precision of the stored timestamps
  stage,      \* stage[a]: "running", "stamped" (not visible yet) or "done"
  finished,   \* finished[a]: extraction_finished_at, set when stamped
  events,     \* events[k]: the aggregated event row (no articles: no row)
  cursor,     \* the stored clustering cursor (0, the epoch, when absent)
  pc,         \* where the clustering goroutine is
  now, since, \* arguments of the running cycle
  todo,       \* listed rows that the cycle has still to merge
  latest,     \* latestProcessedAt
  existing,   \* the event read for the row being merged
  failures,   \* statements failed and restarts so far
  listed      \* history: rows returned by any listing so far

cycle == <<now, since, todo, latest, existing>>
rows == <<stage, finished>>
vars == <<clock, rows, events, cursor, pc, cycle, failures, listed>>

-----------------------------------------------------------------------------
Times == 0..MaxTime

Stages == {"running", "stamped", "done"}

Event == [articles: SUBSET Articles, folded: [Articles -> Nat], first: Times, last: Times]

NoEvent == [articles |-> {}, folded |-> [a \in Articles |-> 0], first |-> 0, last |-> 0]

Later(s, t) == IF t > s THEN t ELSE s

\* Mutant: the comparison is the wrong way round.
EarlierSwapped(s, t) == IF t < s THEN s ELSE t

Earlier(s, t) == IF t < s THEN t ELSE s

Init ==
  /\ clock = 1
  /\ stage = [a \in Articles |-> "running"]
  /\ finished = [a \in Articles |-> 0]
  /\ events = [k \in Keys |-> NoEvent]
  /\ cursor = 0
  /\ pc = "sleep"
  /\ now = 0 /\ since = 0 /\ todo = {} /\ latest = 0 /\ existing = NoEvent
  /\ failures = 0
  /\ listed = {}

(* Time passes; two readings of the clock may return the same timestamp.   *)
Tick ==
  /\ clock < MaxTime
  /\ clock' = clock + 1
  /\ UNCHANGED <<rows, events, cursor, pc, cycle, failures, listed>>

-----------------------------------------------------------------------------
(* Persisted extraction: finishedAt := time.Now() ...                      *)
Stamp(a) ==
  /\ stage[a] = "running"
  /\ stage' = [stage EXCEPT ![a] = "stamped"]
  /\ finished' = [finished EXCEPT ![a] = clock]
  /\ UNCHANGED <<clock, events, cursor, pc, cycle, failures, listed>>

(* ... and UpsertSuccess, which makes the row visible with that timestamp. *)
Commit(a) ==
  /\ stage[a] = "stamped"
  /\ stage' = [stage EXCEPT ![a] = "done"]
  /\ UNCHANGED <<clock, finished, events, cursor, pc, cycle, failures, listed>>

-----------------------------------------------------------------------------
Goto(from, to) == pc = from /\ pc' = to

\* The locals of a cycle are gone when it ends.
EndCycle ==
  /\ pc' = "sleep"
  /\ now' = 0 /\ since' = 0 /\ todo' = {} /\ latest' = 0 /\ existing' = NoEvent

(* runOnce on a tick of the scheduler.                                     *)
BeginCycle ==
  /\ Goto("sleep", "load")
  /\ now' = clock
  /\ UNCHANGED <<clock, rows, events, cursor, since, todo, latest, existing, failures, listed>>

LoadCursor ==
  /\ Goto("load", "list")
  /\ since' = cursor
  /\ UNCHANGED <<clock, rows, events, cursor, now, todo, latest, existing, failures, listed>>

\* Mutant: the listing has a limit of one row.
ListingLimited ==
  LET visible == {a \in Articles : stage[a] = "done" /\ finished[a] > since} IN
    {a \in visible : \A b \in visible : a <= b}

\* ListSuccessfulExtractionsSince: done rows strictly after the cursor.
Listing == {a \in Articles : stage[a] = "done" /\ finished[a] > since}

List ==
  /\ Goto("list", "each")
  /\ todo' = Listing
  /\ listed' = listed \cup Listing
  /\ latest' = since
  /\ UNCHANGED <<clock, rows, events, cursor, now, since, existing, failures>>

\* The rows come ordered by finished_at, then article_id.
NextRow ==
  CHOOSE a \in todo : \A b \in todo :
    finished[a] < finished[b] \/ (finished[a] = finished[b] /\ a <= b)

(* GetEventByClusterKey for the next listed row.                           *)
ReadEvent ==
  /\ todo # {}
  /\ Goto("each", "write")
  /\ latest' = Later(latest, finished[NextRow])
  /\ existing' = events[KeyOf[NextRow]]
  /\ UNCHANGED <<clock, rows, events, cursor, now, since, todo, failures, listed>>

NewEventFromExtraction(a) ==
  [articles |-> {a},
   folded |-> [NoEvent.folded EXCEPT ![a] = 1],
   first |-> finished[a],
   last |-> finished[a]]

\* Mutant: the aggregates take a row in every time it is merged.
MergeEventAgain(e, a) ==
  [articles |-> e.articles \cup {a},
   folded |-> [e.folded EXCEPT ![a] = @ + 1],
   first |-> Earlier(e.first, finished[a]),
   last |-> Later(e.last, finished[a])]

\* Direction, strength and confidence take a row in only when its article is
\* not part of the event yet; the seen bounds always do.
MergeEvent(e, a) ==
  [articles |-> e.articles \cup {a},
   folded |-> IF a \in e.articles THEN e.folded ELSE [e.folded EXCEPT ![a] = @ + 1],
   first |-> Earlier(e.first, finished[a]),
   last |-> Later(e.last, finished[a])]

Merged ==
  IF existing.articles = {} THEN NewEventFromExtraction(NextRow) ELSE MergeEvent(existing, NextRow)

(* UpsertEventByClusterKey, and on to the next row.                        *)
WriteEvent ==
  /\ Goto("write", "each")
  /\ events' = [events EXCEPT ![KeyOf[NextRow]] = Merged]
  /\ todo' = todo \ {NextRow}
  /\ UNCHANGED <<clock, rows, cursor, now, since, latest, existing, failures, listed>>

\* Mutant: nothing stored for a cycle without rows.
CursorToStoreOrEpoch == IF latest > since THEN latest ELSE 0

\* The newest processed row, or the start of the cycle when there was none.
CursorToStore == IF latest > since THEN latest ELSE now

\* Mutant: the cursor is stored after any row.
StoreCursorAnyTime ==
  /\ pc = "each"
  /\ cursor' = CursorToStore
  /\ EndCycle
  /\ UNCHANGED <<clock, rows, events, failures, listed>>

(* SetClusteringCursor ends the cycle.                                     *)
StoreCursor ==
  /\ todo = {}
  /\ pc = "each"
  /\ cursor' = CursorToStore
  /\ EndCycle
  /\ UNCHANGED <<clock, rows, events, failures, listed>>

\* Mutant: the cursor is stored on the way out of a failed cycle, too.
AbortStoringCursor ==
  /\ failures < MaxFailures
  /\ failures' = failures + 1
  /\ pc \in {"each", "write"}
  /\ EndCycle
  /\ cursor' = CursorToStore
  /\ UNCHANGED <<clock, rows, events, listed>>

(* A statement fails and the cycle is aborted, to be retried on the next   *)
(* tick, or the process restarts; a failing write may have been executed.  *)
Abort ==
  /\ failures < MaxFailures
  /\ failures' = failures + 1
  /\ pc # "sleep"
  /\ EndCycle
  /\ \/ UNCHANGED <<events, cursor>>
     \/ /\ pc = "write"
        /\ events' = [events EXCEPT ![KeyOf[NextRow]] = Merged]
        /\ UNCHANGED cursor
     \/ /\ pc = "each" /\ todo = {}
        /\ cursor' = CursorToStore
        /\ UNCHANGED events
  /\ UNCHANGED <<clock, rows, listed>>

Cycle == BeginCycle \/ LoadCursor \/ List \/ ReadEvent \/ WriteEvent \/ StoreCursor

Next == Tick \/ (\E a \in Articles : Stamp(a) \/ Commit(a)) \/ Cycle \/ Abort

Spec == Init /\ [][Next]_vars

\* The ticker keeps firing and the clustering goroutine keeps running.
FairSpec == Spec /\ WF_vars(Cycle)

-----------------------------------------------------------------------------
(* Properties                                                              *)

\* Every variable has its type.
TypeOK ==
  /\ clock \in Times
  /\ stage \in [Articles -> Stages]
  /\ finished \in [Articles -> Times]
  /\ events \in [Keys -> Event]
  /\ cursor \in Times
  /\ pc \in {"sleep", "load", "list", "each", "write"}
  /\ now \in Times /\ since \in Times /\ latest \in Times
  /\ todo \subseteq Articles
  /\ existing \in Event
  /\ failures \in 0..MaxFailures
  /\ listed \subseteq Articles

Clustered(a) == a \in events[KeyOf[a]].articles

\* However often a cycle fails half-way and is repeated, every article of an
\* event is folded into its aggregates exactly once, and no other article is.
FoldedExactlyOnce ==
  \A k \in Keys, a \in Articles :
    events[k].folded[a] = IF a \in events[k].articles THEN 1 ELSE 0

\* The cursor passes a listed row only after the row is part of its event: a
\* cycle that fails or restarts half-way loses nothing it has listed.
CursorPassesOnlyClustered ==
  \A a \in listed : finished[a] <= cursor => Clustered(a)

\* first_seen_at and last_seen_at are the bounds of the event's rows, in
\* whatever order and however often the rows were merged.
SeenBoundsExact ==
  \A k \in Keys : events[k].articles # {} =>
    LET stamps == {finished[a] : a \in events[k].articles} IN
      /\ events[k].first \in stamps /\ \A t \in stamps : events[k].first <= t
      /\ events[k].last \in stamps  /\ \A t \in stamps : t <= events[k].last

\* The stored cursor never moves back, whether a cycle stores the newest
\* processed row or, finding none, the time it began.  This rests on a clock that
\* does not go back, as the model's does not: the code never compares the two.
CursorNeverMovesBack == [][cursor' >= cursor]_vars

\* When failures end, every row that was ever listed becomes part of an event.
ListedGetsClustered == \A a \in Articles : a \in listed ~> Clustered(a)

\* events/scheduler.go:29 says that the loop "clusters new extraction results
\* each interval": once the cursor has passed a finished extraction, so that
\* no later listing returns it, the extraction is part of its event.
NewResultsAreClustered ==
  \A a \in Articles : stage[a] = "done" /\ finished[a] <= cursor => Clustered(a)

-----------------------------------------------------------------------------
(* Refinement: a row is done when it is committed, not when it is stamped, *)
(* and what a cycle holds in its locals is nobody's business.              *)
Done == {a \in Articles : stage[a] = "done"}

DoneStamp == [a \in Articles |-> IF a \in Done THEN finished[a] ELSE 0]

Promised == INSTANCE FoldOnce WITH done <- Done, stamp <- DoneStamp, event <- events

\* Whatever fails, restarts and is merged again, and whatever is committed
\* meanwhile, readers of the events are given what FoldOnce promises.
ImplementsFoldOnce == Promised!Spec
=============================================================================
