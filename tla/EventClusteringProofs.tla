----------------------- MODULE EventClusteringProofs -----------------------
(***************************************************************************)
(* Proofs about EventClustering, for any articles, keys and bounds.        *)
(***************************************************************************)
EXTENDS EventClustering, WellFoundedInduction, TLAPS

(***************************************************************************)
(* The order of the listing                                                *)
(***************************************************************************)

\* A set of naturals that is not empty has a least element.
LEMMA LeastNat ==
  ASSUME NEW T \in SUBSET Nat, T # {}
  PROVE  \E x \in T : \A y \in T : x <= y
<1>1. \E x \in T : \A y \in T : ~ (<<y, x>> \in OpToRel(<, Nat))
  BY NatLessThanWellFounded, WFMin
<1>2. PICK x \in T : \A y \in T : ~ (<<y, x>> \in OpToRel(<, Nat))
  BY <1>1
<1>3. ASSUME NEW y \in T PROVE x <= y
  <2>1. ~ (y < x)
    BY <1>2 DEF OpToRel
  <2> QED
    BY <2>1
<1> QED
  BY <1>3

\* The order in which rows finished at f are listed.
Before(f, a, b) == f[a] < f[b] \/ (f[a] = f[b] /\ a <= b)

IsFirst(f, set, a) == a \in set /\ \A b \in set : Before(f, a, b)

First(f, set) == CHOOSE a \in set : \A b \in set : Before(f, a, b)

\* Every listing with rows has a first row.
LEMMA FirstExists ==
  ASSUME NEW f \in [Articles -> Nat], NEW set \in SUBSET Articles, set # {}
  PROVE  \E a \in set : IsFirst(f, set, a)
<1> USE ClusteringAssumption
<1> DEFINE stamps == {f[a] : a \in set}
<1>1. stamps \in SUBSET Nat /\ stamps # {}
  OBVIOUS
<1>2. PICK t \in stamps : \A u \in stamps : t <= u
  <2> HIDE DEF stamps
  <2> QED
    BY <1>1, LeastNat
<1>3. t \in Nat /\ \A b \in set : t <= f[b]
  BY <1>2
<1> DEFINE early == {a \in set : f[a] = t}
<1>4. early \in SUBSET Nat /\ early # {}
  BY <1>2
<1>5. PICK x \in early : \A y \in early : x <= y
  <2> HIDE DEF early
  <2> QED
    BY <1>4, LeastNat
<1>6. ASSUME NEW b \in set PROVE Before(f, x, b)
  <2>1. f[x] = t /\ f[b] \in Nat /\ t <= f[b]
    BY <1>3, <1>5
  <2>2. f[b] = t => x <= b
    BY <1>5
  <2> QED
    BY <1>3, <2>1, <2>2 DEF Before
<1> QED
  BY <1>5, <1>6 DEF IsFirst

\* First is that row.
LEMMA FirstIsFirst ==
  ASSUME NEW f \in [Articles -> Nat], NEW set \in SUBSET Articles, set # {}
  PROVE  IsFirst(f, set, First(f, set))
BY FirstExists DEF IsFirst, First

\* The first row depends on the timestamps of the listed rows alone.
LEMMA FirstAgrees ==
  ASSUME NEW f \in [Articles -> Nat], NEW g \in [Articles -> Nat],
         NEW set \in SUBSET Articles, set # {},
         \A a \in set : f[a] = g[a]
  PROVE  First(f, set) = First(g, set)
<1> USE ClusteringAssumption
<1> DEFINE x == First(f, set)
           y == First(g, set)
<1>1. IsFirst(f, set, x) /\ IsFirst(g, set, y)
  BY FirstIsFirst
<1> HIDE DEF x, y
<1>2. x \in set /\ y \in set /\ Before(f, x, y) /\ Before(g, y, x)
  BY <1>1 DEF IsFirst
<1>3. x \in Nat /\ y \in Nat /\ f[x] \in Nat /\ f[y] \in Nat /\ g[x] = f[x] /\ g[y] = f[y]
  BY <1>2
<1>4. x = y
  BY <1>2, <1>3 DEF Before
<1> QED
  BY <1>4 DEF x, y

LEMMA NextRowIsFirst == NextRow = First(finished, todo)
BY DEF NextRow, First, Before

\* While a row is to be merged, the next row is one of them.
LEMMA NextRowListed ==
  ASSUME TypeOK, todo # {}
  PROVE  NextRow \in todo
<1>1. finished \in [Articles -> Nat]
  BY ClusteringAssumption DEF TypeOK, Times
<1> QED
  BY <1>1, NextRowIsFirst, FirstIsFirst DEF TypeOK, IsFirst

(***************************************************************************)
(* Type correctness                                                        *)
(***************************************************************************)

\* Merging a row yields an event that contains it and whatever was there.
LEMMA MergedEvent ==
  ASSUME TypeOK, todo # {}
  PROVE  /\ Merged \in Event
         /\ Merged.articles = existing.articles \cup {NextRow}
<1> DEFINE a == NextRow
<1>1. a \in Articles /\ finished[a] \in Times
  BY NextRowListed DEF TypeOK
<1>2. existing \in Event
  BY DEF TypeOK
<1> HIDE DEF a
<1>3. NewEventFromExtraction(a) \in Event
  BY <1>1 DEF NewEventFromExtraction, NoEvent, Event
<1>4. MergeEvent(existing, a) \in Event
  <2>1. Earlier(existing.first, finished[a]) \in Times /\ Later(existing.last, finished[a]) \in Times
    BY <1>1, <1>2 DEF Earlier, Later, Event
  <2>2. [existing.folded EXCEPT ![a] = @ + 1] \in [Articles -> Nat]
    BY <1>1, <1>2 DEF Event
  <2> QED
    BY <1>1, <1>2, <2>1, <2>2 DEF MergeEvent, Event
<1>5. /\ NewEventFromExtraction(a).articles = {a}
      /\ MergeEvent(existing, a).articles = existing.articles \cup {a}
  BY DEF NewEventFromExtraction, MergeEvent
<1> QED
  BY <1>3, <1>4, <1>5 DEF Merged, a

LEMMA TypeInit == Init => TypeOK
BY ClusteringAssumption DEF Init, TypeOK, Times, Stages, Event, NoEvent

LEMMA NoEventType == NoEvent \in Event
BY ClusteringAssumption DEF NoEvent, Event, Times

\* Every step keeps the types.
LEMMA TypeStep == TypeOK /\ (pc = "write" => todo # {}) /\ [Next]_vars => TypeOK'
<1> SUFFICES ASSUME TypeOK, pc = "write" => todo # {}, [Next]_vars PROVE TypeOK'
  OBVIOUS
<1> USE ClusteringAssumption DEF TypeOK
<1>1. CASE Tick
  BY <1>1 DEF Tick, rows, cycle, Times
<1>2. ASSUME NEW a \in Articles, Stamp(a) \/ Commit(a) PROVE TypeOK'
  BY <1>2 DEF Stamp, Commit, cycle, rows, Stages
<1>3. CASE BeginCycle \/ LoadCursor
  BY <1>3 DEF BeginCycle, LoadCursor, Goto, rows
<1>4. CASE List
  BY <1>4 DEF List, Listing, Goto, rows
<1>5. CASE ReadEvent
  <2>1. NextRow \in Articles
    BY <1>5, NextRowListed DEF ReadEvent
  <2>2. latest' \in Times /\ existing' \in Event
    BY <1>5, <2>1 DEF ReadEvent, Later
  <2> QED
    BY <1>5, <2>2 DEF ReadEvent, Goto, rows
<1>6. CASE WriteEvent
  <2>1. Merged \in Event
    BY <1>6, MergedEvent DEF WriteEvent, Goto
  <2>2. events' \in [Keys -> Event]
    BY <1>6, <2>1 DEF WriteEvent
  <2> QED
    BY <1>6, <2>2 DEF WriteEvent, Goto, rows
<1>7. CASE StoreCursor
  BY <1>7, NoEventType DEF StoreCursor, CursorToStore, EndCycle, rows, Times
<1>8. CASE Abort
  <2>1. events' \in [Keys -> Event]
    BY <1>8, MergedEvent DEF Abort
  <2>2. cursor' \in Times
    BY <1>8 DEF Abort, CursorToStore
  <2>3. failures' \in 0..MaxFailures
    BY <1>8 DEF Abort
  <2> QED
    BY <1>8, <2>1, <2>2, <2>3, NoEventType DEF Abort, EndCycle, rows, Times
<1>9. CASE UNCHANGED vars
  BY <1>9 DEF vars, rows, cycle
<1> QED
  BY <1>1, <1>2, <1>3, <1>4, <1>5, <1>6, <1>7, <1>8, <1>9 DEF Next, Cycle

(***************************************************************************)
(* The inductive invariant.  The cursor may pass a row only when the cycle *)
(* that stores it has merged every row between the cursor it loaded and    *)
(* the one it stores.  So the invariant says what the locals of a cycle    *)
(* know: since is still the stored cursor, every listed row is either      *)
(* waiting in todo or clustered, and the event that was read is still the  *)
(* stored one.  Rows are listed once they are done, and a done row keeps   *)
(* its timestamp.                                                          *)
(***************************************************************************)

\* A row waiting to be merged has been read together with its stored event.
ReadIsCurrent ==
  pc = "write" => todo # {} /\ existing = events[KeyOf[NextRow]]

\* Rows that were listed or clustered are committed.
SeenRowsDone ==
  /\ \A a \in todo \cup listed : stage[a] = "done"
  /\ \A k \in Keys : \A a \in events[k].articles : stage[a] = "done"

\* The cursor is not ahead of the cycle that is going to store it.
CursorBehind ==
  /\ cursor <= clock
  /\ \A a \in Articles : finished[a] <= clock
  /\ pc # "sleep" => cursor <= now /\ now <= clock
  /\ pc \in {"list", "each", "write"} => since = cursor
  /\ pc \in {"each", "write"} => latest <= clock

\* A listed row is clustered or waits in todo.
ListedAccountedFor ==
  pc \in {"each", "write"} => \A a \in listed : a \in todo \/ Clustered(a)

IInv ==
  /\ TypeOK
  /\ ReadIsCurrent
  /\ SeenRowsDone
  /\ CursorBehind
  /\ ListedAccountedFor
  /\ CursorPassesOnlyClustered

\* What storing a merged event, completely or as the last statement of an
\* aborted cycle, does to the articles of the events.
WriteMerged == events' = [events EXCEPT ![KeyOf[NextRow]] = Merged]

LEMMA WriteMergedArticles ==
  ASSUME TypeOK, ReadIsCurrent, pc = "write", WriteMerged
  PROVE  /\ \A k \in Keys :
              /\ events[k].articles \subseteq events'[k].articles
              /\ events'[k].articles \subseteq events[k].articles \cup {NextRow}
         /\ NextRow \in events'[KeyOf[NextRow]].articles
         /\ NextRow \in todo
<1> DEFINE a == NextRow
<1>1. a \in todo /\ existing = events[KeyOf[a]]
  BY NextRowListed DEF ReadIsCurrent
<1>2. a \in Articles /\ KeyOf[a] \in Keys
  BY <1>1, ClusteringAssumption DEF TypeOK
<1>3. Merged.articles = events[KeyOf[a]].articles \cup {a}
  BY <1>1, MergedEvent
<1>4. events' = [events EXCEPT ![KeyOf[a]] = Merged] /\ events \in [Keys -> Event]
  BY DEF WriteMerged, TypeOK
<1> HIDE DEF a
<1>5. events'[KeyOf[a]] = Merged /\ \A k \in Keys : k # KeyOf[a] => events'[k] = events[k]
  BY <1>2, <1>4
<1>6. /\ \A k \in Keys :
         /\ events[k].articles \subseteq events'[k].articles
         /\ events'[k].articles \subseteq events[k].articles \cup {a}
      /\ a \in events'[KeyOf[a]].articles
  BY <1>2, <1>3, <1>5
<1> QED
  BY <1>1, <1>6 DEF a

\* The cursor a cycle stores is not behind the stored one, nor ahead of the
\* clock.
LEMMA StoredCursorAhead ==
  ASSUME TypeOK, CursorBehind, pc = "each"
  PROVE  cursor <= CursorToStore /\ CursorToStore <= clock
<1>1. cursor \in Nat /\ clock \in Nat /\ now \in Nat /\ latest \in Nat /\ since = cursor
  BY DEF TypeOK, CursorBehind, Times
<1>2. cursor <= now /\ now <= clock /\ latest <= clock
  BY DEF CursorBehind
<1> QED
  BY <1>1, <1>2 DEF CursorToStore

\* A committed row keeps its stage and timestamp in every step.
LEMMA DoneRowsKept ==
  ASSUME TypeOK, [Next]_vars, NEW a \in Articles, stage[a] = "done"
  PROVE  stage'[a] = "done" /\ finished'[a] = finished[a]
<1>1. ASSUME NEW b \in Articles, Stamp(b) \/ Commit(b)
      PROVE  stage'[a] = "done" /\ finished'[a] = finished[a]
  BY <1>1 DEF Stamp, Commit, TypeOK
<1>2. CASE Tick \/ Cycle \/ Abort \/ UNCHANGED vars
  BY <1>2 DEF Tick, Cycle, BeginCycle, LoadCursor, List, ReadEvent, WriteEvent, StoreCursor,
     Abort, rows, vars
<1> QED
  BY <1>1, <1>2 DEF Next

\* The row to be merged next stays the same while other rows are committed.
LEMMA NextRowKept ==
  ASSUME TypeOK, TypeOK', SeenRowsDone, [Next]_vars, todo # {}, todo' = todo
  PROVE  NextRow' = NextRow
<1>1. /\ finished \in [Articles -> Nat] /\ finished' \in [Articles -> Nat]
      /\ todo \in SUBSET Articles
  BY ClusteringAssumption DEF TypeOK, Times
<1>2. \A a \in todo : finished[a] = finished'[a]
  BY DoneRowsKept, <1>1 DEF SeenRowsDone
<1>3. First(finished, todo) = First(finished', todo)
  BY <1>1, <1>2, FirstAgrees
<1>4. NextRow' = First(finished', todo')
  BY DEF NextRow, First, Before
<1> QED
  BY <1>3, <1>4, NextRowIsFirst

LEMMA ReadIsCurrentStep ==
  ASSUME IInv, TypeOK', [Next]_vars
  PROVE  ReadIsCurrent'
<1> SUFFICES ASSUME pc' = "write"
             PROVE  todo' # {} /\ existing' = events'[KeyOf[NextRow']]
  BY DEF ReadIsCurrent
<1>1. TypeOK /\ ReadIsCurrent /\ SeenRowsDone
  BY DEF IInv
<1>2. CASE ReadEvent
  <2>1. todo # {} /\ todo' = todo /\ events' = events /\ existing' = events[KeyOf[NextRow]]
    BY <1>2 DEF ReadEvent
  <2> QED
    BY <1>1, <2>1, NextRowKept
<1>3. CASE Tick \/ (\E a \in Articles : Stamp(a) \/ Commit(a)) \/ UNCHANGED vars
  <2>1. UNCHANGED <<pc, todo, existing, events>>
    BY <1>3 DEF Tick, Stamp, Commit, cycle, vars
  <2>2. todo # {} /\ existing = events[KeyOf[NextRow]]
    BY <1>1, <2>1 DEF ReadIsCurrent
  <2> QED
    BY <1>1, <2>1, <2>2, NextRowKept
<1>4. CASE BeginCycle \/ LoadCursor \/ List \/ WriteEvent \/ StoreCursor \/ Abort
  BY <1>4 DEF BeginCycle, LoadCursor, List, WriteEvent, StoreCursor, Abort, Goto, EndCycle
<1> QED
  BY <1>2, <1>3, <1>4 DEF Next, Cycle

LEMMA SeenRowsDoneStep ==
  ASSUME IInv, TypeOK', [Next]_vars
  PROVE  SeenRowsDone'
<1> USE DEF SeenRowsDone
<1>1. TypeOK /\ ReadIsCurrent /\ SeenRowsDone
  BY DEF IInv
<1>2. \A a \in Articles : stage[a] = "done" => stage'[a] = "done"
  BY <1>1, DoneRowsKept
<1>3. ASSUME WriteMerged, pc = "write"
      PROVE  \A k \in Keys : \A a \in events'[k].articles : stage'[a] = "done"
  <2>1. NextRow \in todo /\ \A k \in Keys : events'[k].articles \subseteq events[k].articles \cup {NextRow}
    BY <1>1, <1>3, WriteMergedArticles
  <2>2. \A k \in Keys : events'[k].articles \subseteq Articles
    BY DEF TypeOK, Event
  <2> QED
    BY <1>1, <1>2, <2>1, <2>2
<1>4. ASSUME events' = events
      PROVE  \A k \in Keys : \A a \in events'[k].articles : stage'[a] = "done"
  BY <1>1, <1>2, <1>4 DEF TypeOK, Event
<1>5. \A k \in Keys : \A a \in events'[k].articles : stage'[a] = "done"
  <2>1. events' = events \/ (WriteMerged /\ pc = "write")
    BY DEF Next, Cycle, Tick, Stamp, Commit, BeginCycle, LoadCursor, List, ReadEvent, WriteEvent,
       StoreCursor, Abort, Goto, WriteMerged, vars
  <2> QED
    BY <1>3, <1>4, <2>1
<1>6. \A a \in todo' \cup listed' : stage'[a] = "done"
  <2>1. CASE List
    <3>1. \A a \in Listing : a \in Articles /\ stage[a] = "done"
      BY DEF Listing
    <3> QED
      BY <1>1, <1>2, <2>1, <3>1 DEF List, TypeOK
  <2>2. CASE ~List
    <3>1. todo' \subseteq todo /\ listed' = listed
      BY <2>2 DEF Next, Cycle, Tick, Stamp, Commit, BeginCycle, LoadCursor, ReadEvent, WriteEvent,
         StoreCursor, Abort, EndCycle, cycle, vars
    <3> QED
      BY <1>1, <1>2, <3>1 DEF TypeOK
  <2> QED
    BY <2>1, <2>2
<1> QED
  BY <1>5, <1>6

\* Time only moves forward, and a cycle only moves towards its own start.
LEMMA CursorBehindStep ==
  ASSUME IInv, TypeOK', [Next]_vars
  PROVE  CursorBehind'
<1> USE DEF CursorBehind
<1>1. TypeOK /\ CursorBehind
  BY DEF IInv
<1>2. /\ clock \in Nat /\ cursor \in Nat /\ now \in Nat /\ latest \in Nat /\ since \in Nat
      /\ finished \in [Articles -> Nat]
  BY <1>1 DEF TypeOK, Times
<1>3. CASE Tick
  BY <1>1, <1>2, <1>3 DEF Tick, rows, cycle
<1>4. ASSUME NEW a \in Articles, Stamp(a) \/ Commit(a) PROVE CursorBehind'
  BY <1>1, <1>2, <1>4 DEF Stamp, Commit, cycle
<1>5. CASE BeginCycle \/ LoadCursor \/ List \/ WriteEvent
  BY <1>1, <1>2, <1>5 DEF BeginCycle, LoadCursor, List, WriteEvent, Goto, rows
<1>6. CASE ReadEvent
  <2>1. NextRow \in Articles
    BY <1>1, <1>6, NextRowListed DEF ReadEvent, TypeOK
  <2>2. latest' <= clock
    BY <1>1, <1>2, <1>6, <2>1 DEF ReadEvent, Goto, Later
  <2> QED
    BY <1>1, <1>2, <1>6, <2>2 DEF ReadEvent, Goto, rows
<1>7. CASE StoreCursor \/ Abort
  <2>1. cursor' <= clock
    BY <1>1, <1>2, <1>7, StoredCursorAhead DEF StoreCursor, Abort
  <2> QED
    BY <1>1, <1>2, <1>7, <2>1 DEF StoreCursor, Abort, EndCycle, rows
<1>8. CASE UNCHANGED vars
  BY <1>1, <1>8 DEF vars, cycle, rows
<1> QED
  BY <1>3, <1>4, <1>5, <1>6, <1>7, <1>8 DEF Next, Cycle

\* An event never loses an article.
LEMMA ClusteredKept ==
  ASSUME IInv, [Next]_vars, NEW a \in Articles, Clustered(a)
  PROVE  a \in events'[KeyOf[a]].articles
<1>1. TypeOK /\ ReadIsCurrent /\ KeyOf[a] \in Keys
  BY ClusteringAssumption DEF IInv
<1>2. events' = events \/ (WriteMerged /\ pc = "write")
  BY DEF Next, Cycle, Tick, Stamp, Commit, BeginCycle, LoadCursor, List, ReadEvent, WriteEvent,
     StoreCursor, Abort, Goto, WriteMerged, vars
<1> QED
  BY <1>1, <1>2, WriteMergedArticles DEF Clustered

LEMMA ListedAccountedForStep ==
  ASSUME IInv, TypeOK', [Next]_vars
  PROVE  ListedAccountedFor'
<1> SUFFICES ASSUME pc' \in {"each", "write"}, NEW a \in listed'
             PROVE  a \in todo' \/ a \in events'[KeyOf[a]].articles
  BY DEF ListedAccountedFor, Clustered
<1>1. /\ TypeOK /\ ReadIsCurrent /\ SeenRowsDone /\ CursorBehind
      /\ ListedAccountedFor /\ CursorPassesOnlyClustered
  BY DEF IInv
<1>2. a \in Articles
  BY DEF TypeOK
<1>3. CASE List
  <2>1. since = cursor /\ since \in Nat /\ finished[a] \in Nat
    BY <1>1, <1>2, <1>3 DEF List, Goto, CursorBehind, TypeOK, Times
  <2>2. a \in listed => a \in Listing \/ Clustered(a)
    BY <1>1, <1>2, <2>1 DEF SeenRowsDone, Listing, CursorPassesOnlyClustered
  <2> QED
    BY <1>2, <1>3, <2>2, ClusteredKept DEF List
<1>4. CASE WriteEvent
  <2>1. pc = "write" /\ WriteMerged /\ todo' = todo \ {NextRow} /\ listed' = listed
    BY <1>4 DEF WriteEvent, Goto, WriteMerged
  <2>2. a \in todo \/ Clustered(a)
    BY <1>1, <2>1 DEF ListedAccountedFor
  <2> QED
    BY <1>1, <1>2, <2>1, <2>2, ClusteredKept, WriteMergedArticles
<1>5. CASE Tick \/ (\E b \in Articles : Stamp(b) \/ Commit(b)) \/ ReadEvent \/ UNCHANGED vars
  <2>1. todo' = todo /\ listed' = listed /\ pc \in {"each", "write"}
    BY <1>5 DEF Tick, Stamp, Commit, ReadEvent, Goto, cycle, vars
  <2> QED
    BY <1>1, <1>2, <2>1, ClusteredKept DEF ListedAccountedFor
<1>6. CASE BeginCycle \/ LoadCursor \/ StoreCursor \/ Abort
  BY <1>6 DEF BeginCycle, LoadCursor, StoreCursor, Abort, Goto, EndCycle
<1> QED
  BY <1>3, <1>4, <1>5, <1>6 DEF Next, Cycle

LEMMA CursorPassesStep ==
  ASSUME IInv, TypeOK', [Next]_vars
  PROVE  CursorPassesOnlyClustered'
<1> SUFFICES ASSUME NEW a \in listed', finished'[a] <= cursor'
             PROVE  a \in events'[KeyOf[a]].articles
  BY DEF CursorPassesOnlyClustered, Clustered
<1>1. /\ TypeOK /\ SeenRowsDone /\ CursorBehind
      /\ ListedAccountedFor /\ CursorPassesOnlyClustered
  BY DEF IInv
<1>2. a \in Articles
  BY DEF TypeOK
<1>3. ASSUME a \in listed, cursor' = cursor PROVE Clustered(a)
  <2>1. finished'[a] = finished[a]
    BY <1>1, <1>2, <1>3, DoneRowsKept DEF SeenRowsDone
  <2> QED
    BY <1>1, <1>3, <2>1 DEF CursorPassesOnlyClustered
<1>4. CASE List
  <2>1. cursor' = cursor /\ finished' = finished /\ since = cursor
    BY <1>1, <1>4 DEF List, rows, Goto, CursorBehind
  <2>2. finished[a] \in Nat /\ cursor \in Nat
    BY <1>1, <1>2 DEF TypeOK, Times
  <2>3. a \notin Listing
    BY <2>1, <2>2 DEF Listing
  <2> QED
    BY <1>2, <1>3, <1>4, <2>1, <2>3, ClusteredKept DEF List
<1>5. ASSUME pc = "each", todo = {}, listed' = listed PROVE Clustered(a)
  BY <1>1, <1>5 DEF ListedAccountedFor
<1>6. CASE StoreCursor
  BY <1>2, <1>5, <1>6, ClusteredKept DEF StoreCursor
<1>7. CASE Abort
  <2>1. listed' = listed /\ (cursor' = cursor \/ (pc = "each" /\ todo = {}))
    BY <1>7 DEF Abort
  <2> QED
    BY <1>2, <1>3, <1>5, <2>1, ClusteredKept
<1>8. CASE ~List /\ ~StoreCursor /\ ~Abort
  <2>1. listed' = listed /\ cursor' = cursor
    BY <1>8 DEF Next, Cycle, Tick, Stamp, Commit, BeginCycle, LoadCursor, ReadEvent, WriteEvent, vars
  <2> QED
    BY <1>2, <1>3, <2>1, ClusteredKept
<1> QED
  BY <1>4, <1>6, <1>7, <1>8

LEMMA IInvInit == Init => IInv
<1> SUFFICES ASSUME Init PROVE IInv
  OBVIOUS
<1>1. TypeOK
  BY TypeInit
<1>2. SeenRowsDone
  BY DEF Init, SeenRowsDone, NoEvent
<1>3. ReadIsCurrent /\ CursorBehind /\ ListedAccountedFor /\ CursorPassesOnlyClustered
  BY DEF Init, ReadIsCurrent, CursorBehind, ListedAccountedFor, CursorPassesOnlyClustered
<1> QED
  BY <1>1, <1>2, <1>3 DEF IInv

LEMMA IInvStep == IInv /\ [Next]_vars => IInv'
<1> SUFFICES ASSUME IInv, [Next]_vars PROVE IInv'
  OBVIOUS
<1>1. TypeOK'
  BY TypeStep DEF IInv, ReadIsCurrent
<1> QED
  BY <1>1, ReadIsCurrentStep, SeenRowsDoneStep, CursorBehindStep, ListedAccountedForStep,
     CursorPassesStep
  DEF IInv

\* In every reachable state the locals of a cycle agree with the stored rows,
\* events and cursor.
THEOREM Inductive == Spec => []IInv
<1> QED
  BY IInvInit, IInvStep, PTL DEF Spec

(***************************************************************************)
(* What follows from it                                                    *)
(***************************************************************************)

\* The state of the rows, the events, the cursor and the cycle always has
\* its type.
THEOREM TypeCorrect == Spec => []TypeOK
<1>1. IInv => TypeOK
  BY DEF IInv
<1> QED
  BY <1>1, Inductive, PTL

\* A cycle that fails or restarts half-way loses nothing it has listed: the
\* cursor passes a listed row only after the row is part of its event.
THEOREM NothingListedIsLost == Spec => []CursorPassesOnlyClustered
<1>1. IInv => CursorPassesOnlyClustered
  BY DEF IInv
<1> QED
  BY <1>1, Inductive, PTL

\* The stored cursor never moves back, whether a cycle stores the newest
\* processed row or the time it began.
THEOREM CursorMonotonic == Spec => CursorNeverMovesBack
<1>1. IInv /\ [Next]_vars => [cursor' >= cursor]_vars
  <2> SUFFICES ASSUME IInv, [Next]_vars PROVE cursor' >= cursor \/ UNCHANGED vars
    OBVIOUS
  <2>1. TypeOK /\ CursorBehind /\ cursor \in Nat
    BY DEF IInv, TypeOK, Times
  <2>2. cursor' = cursor \/ (pc = "each" /\ cursor' = CursorToStore)
    BY DEF Next, Cycle, Tick, Stamp, Commit, BeginCycle, LoadCursor, List, ReadEvent, WriteEvent,
       StoreCursor, Abort, vars
  <2>3. cursor' \in Nat
    BY IInvStep DEF IInv, TypeOK, Times
  <2> QED
    BY <2>1, <2>2, <2>3, StoredCursorAhead
<1> QED
  BY <1>1, Inductive, PTL DEF Spec, CursorNeverMovesBack

(***************************************************************************)
(* What an event says about its articles                                   *)
(***************************************************************************)

Counted(e) == \A a \in Articles : e.folded[a] = IF a \in e.articles THEN 1 ELSE 0

\* Merging the next row counts its article unless it is counted already.
LEMMA MergedCounted ==
  ASSUME TypeOK, todo # {}, Counted(existing)
  PROVE  Counted(Merged)
<1> DEFINE x == NextRow
<1>1. x \in Articles /\ existing \in Event
  BY NextRowListed DEF TypeOK
<1> HIDE DEF x
<1>2. Counted(NewEventFromExtraction(x))
  BY <1>1 DEF NewEventFromExtraction, NoEvent, Counted
<1>3. Counted(MergeEvent(existing, x))
  <2>1. CASE x \in existing.articles
    BY <1>1, <2>1 DEF MergeEvent, Counted
  <2>2. CASE x \notin existing.articles
    BY <1>1, <2>2 DEF MergeEvent, Counted, Event
  <2> QED
    BY <2>1, <2>2
<1> QED
  BY <1>2, <1>3 DEF Merged, x

LEMMA FoldedStep ==
  ASSUME IInv, FoldedExactlyOnce, [Next]_vars
  PROVE  FoldedExactlyOnce'
<1> SUFFICES ASSUME NEW k \in Keys PROVE Counted(events'[k])
  BY DEF FoldedExactlyOnce, Counted
<1>1. TypeOK /\ ReadIsCurrent /\ \A j \in Keys : Counted(events[j])
  BY DEF IInv, FoldedExactlyOnce, Counted
<1>2. CASE events' = events
  BY <1>1, <1>2
<1>3. CASE WriteMerged /\ pc = "write"
  <2>1. todo # {} /\ existing = events[KeyOf[NextRow]] /\ KeyOf[NextRow] \in Keys
    BY <1>1, <1>3, NextRowListed, ClusteringAssumption DEF ReadIsCurrent, TypeOK
  <2>2. Counted(Merged)
    BY <1>1, <2>1, MergedCounted
  <2>3. events'[k] = Merged \/ events'[k] = events[k]
    BY <1>1, <1>3 DEF WriteMerged, TypeOK
  <2> QED
    BY <1>1, <2>2, <2>3
<1>4. events' = events \/ (WriteMerged /\ pc = "write")
  BY DEF Next, Cycle, Tick, Stamp, Commit, BeginCycle, LoadCursor, List, ReadEvent, WriteEvent,
     StoreCursor, Abort, Goto, WriteMerged, vars
<1> QED
  BY <1>2, <1>3, <1>4

\* However often a cycle fails half-way and is repeated, every article of an
\* event is folded into its aggregates exactly once, and no other article is.
THEOREM FoldedOnce == Spec => []FoldedExactlyOnce
<1>1. Init => FoldedExactlyOnce
  BY DEF Init, FoldedExactlyOnce, NoEvent
<1> QED
  BY <1>1, FoldedStep, Inductive, PTL DEF Spec

\* first and last are the bounds of the timestamps f gives an event's rows.
Bounded(e, f) ==
  e.articles # {} =>
    /\ \E a \in e.articles : e.first = f[a]
    /\ \E a \in e.articles : e.last = f[a]
    /\ \A a \in e.articles : e.first <= f[a] /\ f[a] <= e.last

LEMMA BoundedIsExact == SeenBoundsExact <=> \A k \in Keys : Bounded(events[k], finished)
BY DEF SeenBoundsExact, Bounded

\* Merging the next row widens the bounds as far as its timestamp.
LEMMA MergedBounded ==
  ASSUME TypeOK, todo # {}, Bounded(existing, finished)
  PROVE  Bounded(Merged, finished)
<1> DEFINE x == NextRow
<1>1. /\ x \in Articles /\ finished \in [Articles -> Nat]
      /\ existing.articles \subseteq Articles /\ existing.first \in Nat /\ existing.last \in Nat
  <2>1. Times \subseteq Nat
    BY ClusteringAssumption DEF Times
  <2>2. x \in Articles
    BY NextRowListed DEF TypeOK
  <2>3. existing \in Event /\ finished \in [Articles -> Times]
    BY DEF TypeOK
  <2> QED
    BY <2>1, <2>2, <2>3 DEF Event
<1> HIDE DEF x
<1>2. Bounded(NewEventFromExtraction(x), finished)
  BY <1>1 DEF NewEventFromExtraction, Bounded
<1>3. CASE existing.articles # {}
  <2>1. /\ Merged.articles = existing.articles \cup {x}
        /\ Merged.first = Earlier(existing.first, finished[x])
        /\ Merged.last = Later(existing.last, finished[x])
    BY <1>3 DEF Merged, MergeEvent, x
  <2>2. finished[x] \in Nat
    BY <1>1
  <2>3. \A a \in Merged.articles : Merged.first <= finished[a] /\ finished[a] <= Merged.last
    BY <1>1, <1>3, <2>1, <2>2 DEF Bounded, Earlier, Later
  <2>4. \E a \in Merged.articles : Merged.first = finished[a]
    BY <1>3, <2>1 DEF Bounded, Earlier
  <2>5. \E a \in Merged.articles : Merged.last = finished[a]
    BY <1>3, <2>1 DEF Bounded, Later
  <2> QED
    BY <2>3, <2>4, <2>5 DEF Bounded
<1>4. CASE existing.articles = {}
  BY <1>2, <1>4 DEF Merged, x
<1> QED
  BY <1>3, <1>4

LEMMA SeenBoundsStep ==
  ASSUME IInv, SeenBoundsExact, [Next]_vars
  PROVE  SeenBoundsExact'
<1> SUFFICES ASSUME NEW k \in Keys PROVE Bounded(events'[k], finished')
  BY DEF SeenBoundsExact, Bounded
<1>1. TypeOK /\ ReadIsCurrent /\ SeenRowsDone /\ \A j \in Keys : Bounded(events[j], finished)
  BY BoundedIsExact DEF IInv
<1>2. CASE events' = events
  <2>1. \A a \in events[k].articles : finished'[a] = finished[a]
    BY <1>1, DoneRowsKept DEF SeenRowsDone, TypeOK, Event
  <2>2. Bounded(events[k], finished)
    BY <1>1
  <2> QED
    BY <1>2, <2>1, <2>2 DEF Bounded
<1>3. CASE WriteMerged /\ pc = "write" /\ finished' = finished
  <2>1. todo # {} /\ existing = events[KeyOf[NextRow]] /\ KeyOf[NextRow] \in Keys
    BY <1>1, <1>3, NextRowListed, ClusteringAssumption DEF ReadIsCurrent, TypeOK
  <2>2. Bounded(Merged, finished)
    BY <1>1, <2>1, MergedBounded
  <2>3. events'[k] = Merged \/ events'[k] = events[k]
    BY <1>1, <1>3 DEF WriteMerged, TypeOK
  <2> QED
    BY <1>1, <1>3, <2>2, <2>3
<1>4. events' = events \/ (WriteMerged /\ pc = "write" /\ finished' = finished)
  BY DEF Next, Cycle, Tick, Stamp, Commit, BeginCycle, LoadCursor, List, ReadEvent, WriteEvent,
     StoreCursor, Abort, Goto, WriteMerged, rows, vars
<1> QED
  BY <1>2, <1>3, <1>4

\* first_seen_at and last_seen_at are the bounds of the event's rows, in
\* whatever order and however often the rows were merged.
THEOREM SeenBounds == Spec => []SeenBoundsExact
<1>1. Init => SeenBoundsExact
  BY DEF Init, SeenBoundsExact, NoEvent
<1> QED
  BY <1>1, SeenBoundsStep, Inductive, PTL DEF Spec

(***************************************************************************)
(* EventClustering implements FoldOnce: Commit finishes an article, a      *)
(* write folds it in or, merging it again, changes nothing, and storing    *)
(* the cursor advances it.  Everything else stutters.                      *)
(***************************************************************************)

\* Only listed rows wait to be merged.
TodoListed == todo \subseteq listed

LEMMA TodoListedStep ==
  ASSUME TodoListed, [Next]_vars
  PROVE  TodoListed'
<1>1. CASE List
  BY <1>1 DEF List, TodoListed
<1>2. CASE ~List
  <2>1. todo' \subseteq todo /\ listed' = listed
    BY <1>2 DEF Next, Cycle, Tick, Stamp, Commit, BeginCycle, LoadCursor, ReadEvent, WriteEvent,
       StoreCursor, Abort, EndCycle, cycle, vars
  <2> QED
    BY <2>1 DEF TodoListed
<1> QED
  BY <1>1, <1>2

\* What the refinement needs to know of a state.
Accounts == IInv /\ TodoListed /\ FoldedExactlyOnce /\ SeenBoundsExact

LEMMA AlwaysAccounts == Spec => []Accounts
<1>1. Init => TodoListed
  BY DEF Init, TodoListed
<1> QED
  BY <1>1, TodoListedStep, Inductive, FoldedOnce, SeenBounds, PTL DEF Spec, Accounts

\* An event that counts its articles once, between exact bounds, is their account.
LEMMA AccountExact ==
  ASSUME NEW e \in Event, NEW f \in [Articles -> Nat],
         e.articles # {}, Counted(e), Bounded(e, f)
  PROVE  /\ e.folded = [a \in Articles |-> IF a \in e.articles THEN 1 ELSE 0]
         /\ LET stamps == {f[a] : a \in e.articles} IN
              /\ e.first = CHOOSE t \in stamps : \A u \in stamps : t <= u
              /\ e.last = CHOOSE t \in stamps : \A u \in stamps : u <= t
<1> DEFINE stamps == {f[a] : a \in e.articles}
<1>1. e.articles \subseteq Articles /\ e.folded \in [Articles -> Nat]
  BY DEF Event
<1>2. stamps \subseteq Nat
  BY <1>1
<1>3. /\ e.first \in stamps /\ \A u \in stamps : e.first <= u
      /\ e.last \in stamps /\ \A u \in stamps : u <= e.last
  BY DEF Bounded
<1>4. e.folded = [a \in Articles |-> IF a \in e.articles THEN 1 ELSE 0]
  BY <1>1 DEF Counted
<1> HIDE DEF stamps
<1>5. ASSUME NEW t \in stamps, \A u \in stamps : t <= u PROVE t = e.first
  <2>1. t \in Nat /\ e.first \in Nat
    BY <1>2, <1>3
  <2>2. t <= e.first /\ e.first <= t
    BY <1>3, <1>5
  <2> QED
    BY <2>1, <2>2
<1>6. ASSUME NEW t \in stamps, \A u \in stamps : u <= t PROVE t = e.last
  <2>1. t \in Nat /\ e.last \in Nat
    BY <1>2, <1>3
  <2>2. t <= e.last /\ e.last <= t
    BY <1>3, <1>6
  <2> QED
    BY <2>1, <2>2
<1>7. e.first = CHOOSE t \in stamps : \A u \in stamps : t <= u
  BY <1>3, <1>5
<1>8. e.last = CHOOSE t \in stamps : \A u \in stamps : u <= t
  BY <1>3, <1>6
<1> QED
  BY <1>4, <1>7, <1>8 DEF stamps

\* A merged event is the account of what it had and the row.
LEMMA MergedIsAccount ==
  ASSUME Accounts, pc = "write"
  PROVE  Merged = Promised!Account(existing.articles \cup {NextRow})
<1>1. /\ TypeOK /\ SeenRowsDone /\ todo # {} /\ NextRow \in todo
      /\ existing = events[KeyOf[NextRow]]
  BY NextRowListed DEF Accounts, IInv, ReadIsCurrent
<1>2. NextRow \in Articles /\ KeyOf[NextRow] \in Keys
  BY <1>1, ClusteringAssumption DEF TypeOK
<1>3. Counted(existing) /\ Bounded(existing, finished)
  BY <1>1, <1>2, BoundedIsExact DEF Accounts, FoldedExactlyOnce, Counted
<1>4. /\ Merged \in Event /\ Merged.articles = existing.articles \cup {NextRow}
      /\ Counted(Merged) /\ Bounded(Merged, finished)
  BY <1>1, <1>3, MergedEvent, MergedCounted, MergedBounded
<1> DEFINE e == Merged
           f == DoneStamp
<1>5. \A a \in e.articles : a \in Articles /\ f[a] = finished[a]
  BY <1>1, <1>2, <1>4 DEF SeenRowsDone, DoneStamp, Done, Event
<1>6. f \in [Articles -> Nat]
  BY <1>1, ClusteringAssumption DEF TypeOK, DoneStamp, Times
<1> HIDE DEF e, f
<1>7. e \in Event /\ e.articles # {} /\ Counted(e) /\ Bounded(e, f)
  BY <1>4, <1>5 DEF e, Bounded
<1>8. /\ e.folded = [a \in Articles |-> IF a \in e.articles THEN 1 ELSE 0]
      /\ e.first = CHOOSE t \in {f[a] : a \in e.articles} : \A u \in {f[a] : a \in e.articles} : t <= u
      /\ e.last = CHOOSE t \in {f[a] : a \in e.articles} : \A u \in {f[a] : a \in e.articles} : u <= t
  BY <1>6, <1>7, AccountExact
<1>9. e = Promised!Account(e.articles)
  <2>1. e = [articles |-> e.articles, folded |-> e.folded, first |-> e.first, last |-> e.last]
    BY <1>7 DEF Event
  <2> QED
    BY <1>8, <2>1 DEF Promised!Account, f
<1> QED
  BY <1>4, <1>9 DEF e

\* Merging a row again changes nothing.
LEMMA MergedAgain ==
  ASSUME Accounts, pc = "write", NextRow \in existing.articles
  PROVE  Merged = existing
<1> DEFINE x == NextRow
<1>1. TypeOK /\ todo # {} /\ x \in todo /\ existing = events[KeyOf[x]]
  BY NextRowListed DEF Accounts, IInv, ReadIsCurrent
<1>2. x \in Articles /\ KeyOf[x] \in Keys /\ existing \in Event /\ finished \in [Articles -> Nat]
  BY <1>1, ClusteringAssumption DEF TypeOK, Times
<1>3. Bounded(existing, finished)
  BY <1>1, <1>2, BoundedIsExact DEF Accounts
<1>4. existing.first <= finished[x] /\ finished[x] <= existing.last
  BY <1>3 DEF Bounded
<1>5. existing.first \in Nat /\ existing.last \in Nat /\ finished[x] \in Nat
  BY <1>2, ClusteringAssumption DEF Event, Times
<1>6. Earlier(existing.first, finished[x]) = existing.first /\ Later(existing.last, finished[x]) = existing.last
  BY <1>4, <1>5 DEF Earlier, Later
<1>7. existing.articles \cup {x} = existing.articles /\ existing.articles # {} /\ x \in existing.articles
  OBVIOUS
<1> HIDE DEF x
<1>8. MergeEvent(existing, x) = existing
  BY <1>2, <1>6, <1>7 DEF MergeEvent, Event
<1> QED
  BY <1>7, <1>8 DEF Merged, x

\* A write folds the row in, or merges it again and changes nothing.
LEMMA WriteRefines ==
  ASSUME Accounts, pc = "write", WriteMerged,
         UNCHANGED <<rows, cursor, listed>>
  PROVE  [Promised!Next]_(Promised!vars)
<1> DEFINE x == NextRow
           k == KeyOf[x]
<1>1. /\ TypeOK /\ TodoListed /\ todo # {} /\ x \in todo
      /\ existing = events[k]
  BY NextRowListed DEF Accounts, IInv, ReadIsCurrent
<1>2. x \in Articles /\ k \in Keys /\ x \in listed
  BY <1>1, ClusteringAssumption DEF TypeOK, TodoListed
<1>3. events' = [events EXCEPT ![k] = Merged] /\ events \in [Keys -> Event]
  BY <1>1 DEF WriteMerged, TypeOK
<1>4. Done' = Done /\ DoneStamp' = DoneStamp /\ cursor' = cursor /\ listed' = listed
  BY DEF rows, Done, DoneStamp
<1>5. CASE x \in existing.articles
  <2>1. Merged = events[k]
    BY <1>1, <1>5, MergedAgain
  <2>2. events' = events
    BY <1>2, <1>3, <2>1
  <2> QED
    BY <1>4, <2>2 DEF Promised!vars
<1>6. CASE x \notin existing.articles
  <2>1. Merged = Promised!Account(events[k].articles \cup {x})
    BY <1>1, MergedIsAccount
  <2> HIDE DEF x
  <2>2. Promised!Fold(x)
    BY <1>1, <1>2, <1>3, <1>4, <1>6, <2>1 DEF Promised!Fold
  <2> QED
    BY <1>2, <2>2 DEF Promised!Next
<1> QED
  BY <1>5, <1>6

\* Storing the cursor of a cycle whose rows are all merged advances it.
LEMMA CursorRefines ==
  ASSUME Accounts, pc = "each", todo = {}, cursor' = CursorToStore,
         UNCHANGED <<rows, events, listed>>
  PROVE  Promised!Next
<1>1. TypeOK /\ SeenRowsDone /\ CursorBehind /\ ListedAccountedFor
  BY DEF Accounts, IInv
<1>2. cursor <= CursorToStore /\ CursorToStore \in Times
  BY <1>1, StoredCursorAhead DEF CursorToStore, TypeOK
<1>3. \A a \in listed : a \in events[KeyOf[a]].articles
  BY <1>1 DEF ListedAccountedFor, Clustered
<1>4. Done' = Done /\ DoneStamp' = DoneStamp
  BY DEF rows, Done, DoneStamp
<1>5. Promised!Advance(CursorToStore)
  <2>1. CursorToStore >= cursor
    BY <1>1, <1>2, ClusteringAssumption DEF TypeOK, Times
  <2> QED
    BY <1>3, <1>4, <2>1 DEF Promised!Advance
<1>6. CursorToStore \in Promised!Times
  BY <1>2 DEF Times, Promised!Times
<1> QED
  BY <1>5, <1>6 DEF Promised!Next

LEMMA FoldInitRefines == Init => Promised!Init
<1> SUFFICES ASSUME Init PROVE Promised!Init
  OBVIOUS
<1>1. Done = {}
  BY DEF Init, Done
<1>2. DoneStamp = [a \in Articles |-> 0]
  BY <1>1 DEF DoneStamp
<1>3. events = [k \in Keys |-> Promised!NoEvent] /\ cursor = 0 /\ listed = {}
  BY DEF Init, NoEvent, Promised!NoEvent
<1> QED
  BY <1>1, <1>2, <1>3 DEF Promised!Init

LEMMA FoldStepRefines ==
  ASSUME Accounts, [Next]_vars
  PROVE  [Promised!Next]_(Promised!vars)
<1>1. TypeOK /\ CursorBehind
  BY DEF Accounts, IInv
<1>2. CASE Tick \/ BeginCycle \/ LoadCursor \/ ReadEvent \/ UNCHANGED vars
  <2>1. UNCHANGED <<rows, events, cursor, listed>>
    BY <1>2 DEF Tick, BeginCycle, LoadCursor, ReadEvent, vars
  <2>2. Done' = Done /\ DoneStamp' = DoneStamp
    BY <2>1 DEF rows, Done, DoneStamp
  <2> QED
    BY <2>1, <2>2 DEF Promised!vars
<1>3. ASSUME NEW a \in Articles, Stamp(a) PROVE [Promised!Next]_(Promised!vars)
  <2>1. /\ stage' = [stage EXCEPT ![a] = "stamped"] /\ stage[a] = "running"
        /\ finished' = [finished EXCEPT ![a] = clock] /\ UNCHANGED <<events, cursor, listed>>
    BY <1>3 DEF Stamp
  <2>2. Done' = Done
    BY <1>1, <2>1 DEF Done, TypeOK
  <2>3. \A b \in Done : finished'[b] = finished[b]
    BY <1>1, <2>1 DEF Done, TypeOK
  <2>4. DoneStamp' = DoneStamp
    BY <2>2, <2>3 DEF DoneStamp
  <2> QED
    BY <2>1, <2>2, <2>4 DEF Promised!vars
<1>4. ASSUME NEW a \in Articles, Commit(a) PROVE [Promised!Next]_(Promised!vars)
  <2>1. /\ stage' = [stage EXCEPT ![a] = "done"] /\ stage[a] = "stamped"
        /\ finished' = finished /\ UNCHANGED <<events, cursor, listed>>
    BY <1>4 DEF Commit
  <2>2. a \notin Done /\ Done' = Done \cup {a}
    BY <1>1, <2>1 DEF Done, TypeOK
  <2>3. DoneStamp' = [DoneStamp EXCEPT ![a] = finished[a]]
    BY <2>1, <2>2 DEF DoneStamp
  <2>4. finished[a] \in Promised!Times
    BY <1>1 DEF TypeOK, Times, Promised!Times
  <2>5. Promised!Finish(a)
    BY <2>1, <2>2, <2>3, <2>4 DEF Promised!Finish
  <2> QED
    BY <2>5 DEF Promised!Next
<1>5. CASE List
  <2>1. /\ UNCHANGED <<rows, events, cursor>>
        /\ listed' = listed \cup Listing /\ since = cursor
    BY <1>1, <1>5 DEF List, Goto, CursorBehind
  <2>2. Done' = Done /\ DoneStamp' = DoneStamp
    BY <2>1 DEF rows, Done, DoneStamp
  <2>3. Listing = {a \in Done : DoneStamp[a] > cursor}
    BY <2>1 DEF Listing, Done, DoneStamp
  <2>4. Promised!List
    BY <2>1, <2>2, <2>3 DEF Promised!List
  <2> QED
    BY <2>4 DEF Promised!Next
<1>6. CASE WriteEvent
  <2>1. pc = "write" /\ WriteMerged /\ UNCHANGED <<rows, cursor, listed>>
    BY <1>6 DEF WriteEvent, Goto, WriteMerged
  <2> QED
    BY <2>1, WriteRefines
<1>7. CASE StoreCursor
  BY <1>7, CursorRefines DEF StoreCursor
<1>8. CASE Abort
  <2>1. CASE UNCHANGED <<events, cursor>>
    <3>1. UNCHANGED <<rows, events, cursor, listed>>
      BY <1>8, <2>1 DEF Abort
    <3>2. Done' = Done /\ DoneStamp' = DoneStamp
      BY <3>1 DEF rows, Done, DoneStamp
    <3> QED
      BY <3>1, <3>2 DEF Promised!vars
  <2>2. CASE pc = "write" /\ WriteMerged /\ UNCHANGED cursor
    <3>1. UNCHANGED <<rows, cursor, listed>>
      BY <1>8, <2>2 DEF Abort
    <3> QED
      BY <2>2, <3>1, WriteRefines
  <2>3. CASE pc = "each" /\ todo = {} /\ cursor' = CursorToStore /\ UNCHANGED events
    <3>1. UNCHANGED <<rows, events, listed>>
      BY <1>8, <2>3 DEF Abort
    <3> QED
      BY <2>3, <3>1, CursorRefines
  <2> QED
    BY <1>8, <2>1, <2>2, <2>3 DEF Abort, WriteMerged
<1> QED
  BY <1>2, <1>3, <1>4, <1>5, <1>6, <1>7, <1>8 DEF Next, Cycle

\* Whatever fails, restarts and is merged again, and whatever is committed
\* meanwhile, readers of the events are given what FoldOnce promises.
THEOREM EventsKeepThePromise == Spec => ImplementsFoldOnce
<1>1. Init => Promised!Init
  BY FoldInitRefines
<1>2. Accounts /\ [Next]_vars => [Promised!Next]_(Promised!vars)
  BY FoldStepRefines
<1> QED
  BY <1>1, <1>2, AlwaysAccounts, PTL DEF Spec, ImplementsFoldOnce, Promised!Spec
=============================================================================
