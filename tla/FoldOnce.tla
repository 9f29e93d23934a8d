------------------------------ MODULE FoldOnce ------------------------------
(***************************************************************************)
(* What clustering promises the readers of events, without statements,     *)
(* cycles or retries: the articles that are done are listed, a listed one  *)
(* is folded into the event of its key once, the event then says exactly   *)
(* what its articles amount to, and the cursor passes what was listed only *)
(* when it is folded.                                                      *)
(*                                                                         *)
(* Nothing is promised of a row that is done behind the cursor: no listing *)
(* may return it any more.                                                 *)
(*                                                                         *)
(* EventClustering implements this specification.                          *)
(***************************************************************************)
EXTENDS Naturals

CONSTANTS Articles, Keys, KeyOf, MaxTime

VARIABLES
  done,     \* the articles whose extraction can be seen
  stamp,    \* stamp[a]: when a done article says it finished
  event,    \* event[k]: what is said of the articles of cluster k
  cursor,   \* the time up to which listings are not repeated
  listed    \* the articles that have been listed

vars == <<done, stamp, event, cursor, listed>>

Times == 0..MaxTime

\* What the articles of a set that is not empty amount to.
Account(set) ==
  LET stamps == {stamp[a] : a \in set} IN
    [articles |-> set,
     folded |-> [a \in Articles |-> IF a \in set THEN 1 ELSE 0],
     first |-> CHOOSE t \in stamps : \A u \in stamps : t <= u,
     last |-> CHOOSE t \in stamps : \A u \in stamps : u <= t]

NoEvent == [articles |-> {}, folded |-> [a \in Articles |-> 0], first |-> 0, last |-> 0]

Init ==
  /\ done = {}
  /\ stamp = [a \in Articles |-> 0]
  /\ event = [k \in Keys |-> NoEvent]
  /\ cursor = 0
  /\ listed = {}

(* An extraction is seen, under a time that may lie behind the cursor.     *)
Finish(a) ==
  /\ a \notin done
  /\ done' = done \cup {a}
  /\ \E t \in Times : stamp' = [stamp EXCEPT ![a] = t]
  /\ UNCHANGED <<event, cursor, listed>>

(* What is done after the cursor is listed, all of it.                     *)
List ==
  /\ listed' = listed \cup {a \in done : stamp[a] > cursor}
  /\ UNCHANGED <<done, stamp, event, cursor>>

(* A listed article becomes part of its event.                             *)
Fold(a) ==
  LET k == KeyOf[a] IN
    /\ a \in listed \ event[k].articles
    /\ event' = [event EXCEPT ![k] = Account(@.articles \cup {a})]
    /\ UNCHANGED <<done, stamp, cursor, listed>>

(* The cursor moves on, past listed articles that have been folded.        *)
Advance(t) ==
  /\ t >= cursor
  /\ \A a \in listed : stamp[a] <= t => a \in event[KeyOf[a]].articles
  /\ cursor' = t
  /\ UNCHANGED <<done, stamp, event, listed>>

Next ==
  \/ List
  \/ \E a \in Articles : Finish(a) \/ Fold(a)
  \/ \E t \in Times : Advance(t)

Spec == Init /\ [][Next]_vars
=============================================================================
