-------------------------- MODULE EventAggregates --------------------------
(***************************************************************************)
(* The aggregates of one event: direction, strength and confidence as      *)
(* NewEventFromExtraction starts them and MergeEvent folds one extraction  *)
(* after the other into them (internal/app/events/cluster.go).             *)
(*                                                                         *)
(* Rows arrive in any order, and again whenever a clustering cycle is      *)
(* repeated (EventClustering).  The fold sees the stored aggregate, never  *)
(* the rows it came from.                                                  *)
(*                                                                         *)
(* Confidences are exact fractions instead of floats.  An item's is in     *)
(* hundredths; an event's is in hundredths times its SourceCount, the      *)
(* common denominator of its running mean.                                 *)
(***************************************************************************)
EXTENDS Integers, FiniteSets

CONSTANTS
  Articles,
  Items      \* what extractions return

Directions == {"mixed", "negative", "neutral", "positive"}

\* ExtractResult.Validate lets no other value reach a row.
Item == [direction: Directions, strength: 0..100, confidence: 0..100]

ASSUME AggregatesAssumption == Items \subseteq Item

VARIABLES
  item,    \* item[a]: the extracted fields of article a, for good
  event,   \* the stored event of the cluster
  totals   \* history: sums over the items folded into the event

vars == <<item, event, totals>>

-----------------------------------------------------------------------------
NoEvent == [articles |-> {}, sources |-> 0, direction |-> "", strength |-> 0, confidence |-> 0]

clamp(value, minValue, maxValue) ==
  IF value < minValue THEN minValue ELSE IF value > maxValue THEN maxValue ELSE value

multiSourceBonus(sourceCount) == IF sourceCount > 1 THEN 2 ELSE 0

\* math.Round of a non-negative quotient.
Round(num, den) == (2 * num + den) \div (2 * den)

Before(d, e) ==
  LET rank == [mixed |-> 1, negative |-> 2, neutral |-> 3, positive |-> 4] IN rank[d] <= rank[e]

\* Most votes; a tie goes to mixed if it is among the winners, otherwise to
\* the winner that sorts first.
majorityDirection(counts) ==
  LET winners == {d \in DOMAIN counts : \A e \in DOMAIN counts : counts[e] <= counts[d]}
  IN IF "mixed" \in winners THEN "mixed"
     ELSE CHOOSE d \in winners : \A e \in winners : Before(d, e)

\* The vote taken by a merge: the event's direction has one vote per source,
\* the item's has one (written last, it replaces an equal key of the map).
Votes(e, i) == [d \in {e.direction, i.direction} |-> IF d = i.direction THEN 1 ELSE e.sources]

\* Mutants: the mean is taken over the sources before the merge; the quotient
\* is truncated by the conversion to int.
MergedStrengthOldWeight(e, i) ==
  clamp(Round(e.strength * e.sources + i.strength, e.sources), 0, 100)

MergedStrengthTruncated(e, i) ==
  clamp((e.strength * e.sources + i.strength) \div (e.sources + 1), 0, 100)

MergedStrength(e, i) ==
  clamp(Round(e.strength * e.sources + i.strength, e.sources + 1), 0, 100)

\* Mutants: the bonus of the stored mean is not removed; the result is not clamped.
MergedConfidenceCompounding(e, i) ==
  LET n == e.sources + 1
  IN clamp(e.confidence + i.confidence + multiSourceBonus(n) * n, 0, 100 * n)

MergedConfidenceUnclamped(e, i) ==
  LET n == e.sources + 1
      base == clamp(e.confidence - multiSourceBonus(e.sources) * e.sources, 0, 100 * e.sources)
  IN base + i.confidence + multiSourceBonus(n) * n

\* The bonus of the stored mean is removed, the item joins the mean, and the
\* bonus of the new number of sources is added.
MergedConfidence(e, i) ==
  LET n == e.sources + 1
      base == clamp(e.confidence - multiSourceBonus(e.sources) * e.sources, 0, 100 * e.sources)
  IN clamp(base + i.confidence + multiSourceBonus(n) * n, 0, 100 * n)

NewEventFromExtraction(a) ==
  [articles |-> {a},
   sources |-> 1,
   direction |-> item[a].direction,
   strength |-> clamp(item[a].strength, 0, 100),
   confidence |-> clamp(item[a].confidence, 0, 100)]

MergeEvent(e, a) ==
  LET ids == e.articles \cup {a} IN
  IF a \in e.articles THEN e
  ELSE [articles |-> ids,
        sources |-> Cardinality(ids),
        direction |-> majorityDirection(Votes(e, item[a])),
        strength |-> MergedStrength(e, item[a]),
        confidence |-> MergedConfidence(e, item[a])]

\* Event.Validate, which UpsertEventByClusterKey runs before it writes.
Validate(e) ==
  /\ e.direction # ""
  /\ e.strength \in 0..100
  /\ 0 <= e.confidence /\ e.confidence <= 100 * e.sources
  /\ e.articles # {}
  /\ e.sources = Cardinality(e.articles)

Merged(a) == IF event.articles = {} THEN NewEventFromExtraction(a) ELSE MergeEvent(event, a)

-----------------------------------------------------------------------------
Init ==
  /\ item \in [Articles -> Items]
  /\ event = NoEvent
  /\ totals = [strength |-> 0, confidence |-> 0]

(* A clustering cycle reaches the row of article a: the first time or, when *)
(* an earlier cycle failed after the write, once more.                     *)
Merge(a) ==
  /\ Validate(Merged(a))
  /\ event' = Merged(a)
  /\ totals' = IF a \in event.articles THEN totals
               ELSE [strength |-> totals.strength + item[a].strength,
                     confidence |-> totals.confidence + item[a].confidence]
  /\ UNCHANGED item

Next == \E a \in Articles : Merge(a)

Spec == Init /\ [][Next]_vars

-----------------------------------------------------------------------------
(* Properties                                                              *)

Count == event.sources

\* Every variable has its type.
TypeOK ==
  /\ item \in [Articles -> Items]
  /\ event \in [articles: SUBSET Articles, sources: Nat, direction: Directions \cup {""},
                strength: 0..100, confidence: Nat]
  /\ totals \in [strength: Nat, confidence: Nat]

\* No row is poisonous: whatever rows an event was made of, the event that a
\* cycle would write for any next row passes Event.Validate.  A rejected write
\* ends the cycle before its cursor is stored, and would do so for good.
NoPoisonedRow == \A a \in Articles : Validate(Merged(a))

\* The strength of an event lies between the strengths of its articles, however
\* often the running mean was rounded.
StrengthWithinItems ==
  event.articles # {} =>
    /\ \E a \in event.articles : item[a].strength <= event.strength
    /\ \E a \in event.articles : event.strength <= item[a].strength

\* The rounding errors of the running mean add up to at most
\* (n*(n+1) - 2) / (4*n) for n sources: half a point per merge, each weighted
\* with the number of sources at that merge.
RoundingDriftBounded ==
  LET drift == Count * event.strength - totals.strength
      bound == Count * (Count + 1) - 2
  IN Count > 0 => 4 * drift <= bound /\ -4 * drift <= bound

\* The confidence lies between the mean of the articles' confidences and that
\* mean plus the bonus: the bonus is applied once, not once per merge, and the
\* clamping of earlier sums never costs more than the bonus.
ConfidenceNearMean ==
  Count > 0 =>
    /\ totals.confidence <= event.confidence
    /\ event.confidence <= totals.confidence + multiSourceBonus(Count) * Count

\* The comment of majorityDirection (cluster.go:356) says that it "resolves
\* cluster direction using majority vote": a direction that more articles have
\* than any other direction is the direction of the event.
DirectionIsMajority ==
  LET votes(d) == Cardinality({a \in event.articles : item[a].direction = d}) IN
  \A d \in Directions :
    (event.articles # {} /\ \A e \in Directions \ {d} : votes(e) < votes(d)) => event.direction = d
=============================================================================
