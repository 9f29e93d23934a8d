----------------------- MODULE EventAggregatesProofs -----------------------
(***************************************************************************)
(* The aggregates of an event keep their bounds whatever the articles are, *)
(* however many are folded and in whatever order: the theorems about       *)
(* EventAggregates.                                                        *)
(***************************************************************************)
EXTENDS EventAggregates, FiniteSetTheorems, TLAPS

-----------------------------------------------------------------------------
(* Arithmetic                                                              *)

\* A rounded quotient is off by half at most.
LEMMA RoundError ==
  ASSUME NEW num \in Nat, NEW den \in Nat \ {0}
  PROVE  /\ Round(num, den) \in Nat
         /\ 2 * (den * Round(num, den)) <= 2 * num + den
         /\ 2 * num - den <= 2 * (den * Round(num, den))
<1> DEFINE q == (2 * num + den) \div (2 * den)
<1>1. q \in Nat /\ (2 * den) * q <= 2 * num + den /\ 2 * num + den < (2 * den) * q + 2 * den
  OBVIOUS
<1>2. (2 * den) * q = 2 * (den * q)
  BY <1>1
<1> QED
  BY <1>1, <1>2 DEF Round

\* One step of a running mean lies between the old mean and the new value.
LEMMA MeanBetween ==
  ASSUME NEW n \in Nat \ {0}, NEW s \in Nat, NEW t \in Nat, NEW q \in Nat,
         2 * ((n + 1) * q) <= 2 * (s * n + t) + (n + 1),
         2 * (s * n + t) - (n + 1) <= 2 * ((n + 1) * q)
  PROVE  /\ s <= q \/ t <= q
         /\ q <= s \/ q <= t
<1>1. ASSUME q < s, q < t PROVE FALSE
  <2>1. q * n + n <= s * n
    <3>1. (q + 1) * n <= s * n
      BY <1>1
    <3> QED
      BY <3>1
  <2>2. (n + 1) * q = q * n + q
    OBVIOUS
  <2> QED
    BY <1>1, <2>1, <2>2
<1>2. ASSUME s < q, t < q PROVE FALSE
  <2>1. s * n + n <= q * n
    <3>1. (s + 1) * n <= q * n
      BY <1>2
    <3> QED
      BY <3>1
  <2>2. (n + 1) * q = q * n + q
    OBVIOUS
  <2> QED
    BY <1>2, <2>1, <2>2
<1> QED
  BY <1>1, <1>2


\* The rounded mean stays within the range of its values.
LEMMA MeanInRange ==
  ASSUME NEW n \in Nat \ {0}, NEW s \in 0..100, NEW t \in 0..100
  PROVE  LET q == Round(s * n + t, n + 1) IN
         /\ clamp(q, 0, 100) = q /\ q \in 0..100
         /\ 2 * ((n + 1) * q) <= 2 * (s * n + t) + (n + 1)
         /\ 2 * (s * n + t) - (n + 1) <= 2 * ((n + 1) * q)
         /\ s <= q \/ t <= q
         /\ q <= s \/ q <= t
<1> DEFINE q == Round(s * n + t, n + 1)
<1>1. s * n + t \in Nat /\ n + 1 \in Nat \ {0}
  OBVIOUS
<1>2. /\ q \in Nat
      /\ 2 * ((n + 1) * q) <= 2 * (s * n + t) + (n + 1)
      /\ 2 * (s * n + t) - (n + 1) <= 2 * ((n + 1) * q)
  BY <1>1, RoundError
<1> HIDE DEF q
<1>3. /\ s <= q \/ t <= q
      /\ q <= s \/ q <= t
  BY <1>2, MeanBetween
<1>4. q \in 0..100 /\ clamp(q, 0, 100) = q
  BY <1>2, <1>3 DEF clamp
<1> QED
  BY <1>2, <1>3, <1>4 DEF q

\* One more rounding adds half a point per source to the drift.
LEMMA DriftGrows ==
  ASSUME NEW n \in Nat \ {0}, NEW s \in Nat, NEW t \in Nat, NEW q \in Nat, NEW total \in Nat,
         2 * ((n + 1) * q) <= 2 * (s * n + t) + (n + 1),
         2 * (s * n + t) - (n + 1) <= 2 * ((n + 1) * q),
         4 * (n * s - total) <= n * (n + 1) - 2,
         -4 * (n * s - total) <= n * (n + 1) - 2
  PROVE  /\ 4 * ((n + 1) * q - (total + t)) <= (n + 1) * (n + 2) - 2
         /\ -4 * ((n + 1) * q - (total + t)) <= (n + 1) * (n + 2) - 2
<1>1. (n + 1) * (n + 2) = n * (n + 1) + 2 * (n + 1)
  OBVIOUS
<1>2. s * n = n * s
  OBVIOUS
<1> DEFINE nq == (n + 1) * q
           ns == n * s
           nn == n * (n + 1)
<1>3. nq \in Int /\ ns \in Int /\ nn \in Int
  OBVIOUS
<1>4. /\ 2 * nq <= 2 * (ns + t) + (n + 1)
      /\ 2 * (ns + t) - (n + 1) <= 2 * nq
      /\ 4 * (ns - total) <= nn - 2
      /\ -4 * (ns - total) <= nn - 2
  BY <1>2
<1> HIDE DEF nq, ns, nn
<1>5. 4 * (nq - (total + t)) <= nn + 2 * (n + 1) - 2 /\ -4 * (nq - (total + t)) <= nn + 2 * (n + 1) - 2
  BY <1>3, <1>4
<1> QED
  BY <1>1, <1>5 DEF nq, nn

\* A merge takes the bonus out of the mean and puts it back once.
LEMMA BonusOnce ==
  ASSUME NEW n \in Nat \ {0}, NEW c \in Nat, NEW t \in 0..100, NEW total \in Nat,
         c <= 100 * n, total <= c, c <= total + multiSourceBonus(n) * n
  PROVE  LET base == clamp(c - multiSourceBonus(n) * n, 0, 100 * n)
             merged == clamp(base + t + multiSourceBonus(n + 1) * (n + 1), 0, 100 * (n + 1))
         IN /\ merged \in Nat /\ merged <= 100 * (n + 1)
            /\ total + t <= merged
            /\ merged <= total + t + multiSourceBonus(n + 1) * (n + 1)
<1>1. multiSourceBonus(n + 1) * (n + 1) = 2 * (n + 1)
  BY DEF multiSourceBonus
<1>2. CASE n = 1
  <2>1. multiSourceBonus(n) * n = 0
    BY <1>2 DEF multiSourceBonus
  <2> QED
    BY <1>1, <1>2, <2>1 DEF clamp
<1>3. CASE n > 1
  <2>1. multiSourceBonus(n) * n = 2 * n
    BY <1>3 DEF multiSourceBonus
  <2> QED
    BY <1>1, <1>3, <2>1 DEF clamp
<1> QED
  BY <1>2, <1>3

-----------------------------------------------------------------------------
(* The vote                                                                *)

LEMMA VoteElects ==
  ASSUME NEW old \in Directions, NEW new \in Directions, NEW n \in Nat
  PROVE  majorityDirection([d \in {old, new} |-> IF d = new THEN 1 ELSE n]) \in Directions
<1> DEFINE counts == [d \in {old, new} |-> IF d = new THEN 1 ELSE n]
           winners == {d \in DOMAIN counts : \A e \in DOMAIN counts : counts[e] <= counts[d]}
<1>1. winners \subseteq Directions
  OBVIOUS
<1>2. winners = {old} \/ winners = {new} \/ winners = {old, new}
  <2>1. DOMAIN counts = {old, new} /\ \A d \in {old, new} : counts[d] \in Nat
    OBVIOUS
  <2>2. old \in winners \/ new \in winners
    <3> HIDE DEF counts
    <3> QED
      BY <2>1
  <2> QED
    BY <2>2
<1>3. \E d \in winners : \A e \in winners : Before(d, e)
  <2>1. Before(old, new) \/ Before(new, old)
    BY DEF Before, Directions
  <2>2. Before(old, old) /\ Before(new, new)
    BY DEF Before, Directions
  <2> HIDE DEF winners
  <2> QED
    BY <1>2, <2>1, <2>2
<1>4. "mixed" \in Directions
  BY DEF Directions
<1> HIDE DEF counts
<1>5. majorityDirection(counts) =
        IF "mixed" \in winners THEN "mixed" ELSE CHOOSE d \in winners : \A e \in winners : Before(d, e)
  BY DEF majorityDirection
<1> HIDE DEF winners
<1> QED
  BY <1>1, <1>3, <1>4, <1>5 DEF counts

-----------------------------------------------------------------------------
(* The invariant                                                           *)

\* What the event's columns are, and what an event of no articles is.
EventOK ==
  /\ IsFiniteSet(event.articles)
  /\ event.sources = Cardinality(event.articles)
  /\ event.articles = {} => event = NoEvent /\ totals = [strength |-> 0, confidence |-> 0]
  /\ event.articles # {} => event.direction \in Directions
  /\ event.confidence <= 100 * event.sources

IInv == TypeOK /\ EventOK /\ StrengthWithinItems /\ RoundingDriftBounded /\ ConfidenceNearMean

LEMMA ItemsTyped ==
  ASSUME TypeOK, NEW a \in Articles
  PROVE  item[a].direction \in Directions /\ item[a].strength \in 0..100 /\ item[a].confidence \in 0..100
<1>1. item[a] \in Item
  BY AggregatesAssumption DEF TypeOK
<1> QED
  BY <1>1 DEF Item

LEMMA InitInv == Init => IInv
<1> SUFFICES ASSUME Init PROVE IInv
  OBVIOUS
<1>1. event = NoEvent /\ totals = [strength |-> 0, confidence |-> 0] /\ item \in [Articles -> Items]
  BY DEF Init
<1>2. NoEvent \in [articles: SUBSET Articles, sources: Nat, direction: Directions \cup {""},
                   strength: 0..100, confidence: Nat]
  BY DEF NoEvent
<1>3. TypeOK
  BY <1>1, <1>2 DEF TypeOK
<1>4. event.articles = {} /\ event.sources = 0 /\ event.confidence = 0
  BY <1>1 DEF NoEvent
<1>5. EventOK
  BY <1>1, <1>4, FS_EmptySet DEF EventOK
<1>6. StrengthWithinItems /\ RoundingDriftBounded /\ ConfidenceNearMean
  BY <1>4 DEF StrengthWithinItems, RoundingDriftBounded, ConfidenceNearMean, Count
<1> QED
  BY <1>3, <1>5, <1>6 DEF IInv

\* The sources are counted one by one.
LEMMA OneMoreSource ==
  ASSUME IInv, NEW a \in Articles, a \notin event.articles
  PROVE  /\ IsFiniteSet(event.articles \cup {a})
         /\ Cardinality(event.articles \cup {a}) = event.sources + 1
         /\ event.sources \in Nat
         /\ event.sources = 0 <=> event.articles = {}
<1>1. IsFiniteSet(event.articles) /\ event.sources = Cardinality(event.articles)
  BY DEF IInv, EventOK
<1> QED
  BY <1>1, FS_AddElement, FS_EmptySet, FS_CardinalityType


-----------------------------------------------------------------------------
(* One merge                                                               *)

EventType ==
  [articles: SUBSET Articles, sources: Nat, direction: Directions \cup {""}, strength: 0..100, confidence: Nat]

LEMMA EventTyped ==
  \A ids \in SUBSET Articles, n \in Nat, d \in Directions, s \in 0..100, c \in Nat :
    [articles |-> ids, sources |-> n, direction |-> d, strength |-> s, confidence |-> c] \in EventType
BY DEF EventType

\* What Event.Validate asks for.
LEMMA EventValid ==
  \A e : /\ e \in EventType /\ e.direction \in Directions /\ e.confidence <= 100 * e.sources
        /\ e.articles # {} /\ e.sources = Cardinality(e.articles)
        => Validate(e)
<1> SUFFICES ASSUME NEW e \in EventType, e.direction \in Directions, e.confidence <= 100 * e.sources,
                    e.articles # {}, e.sources = Cardinality(e.articles)
             PROVE  Validate(e)
  OBVIOUS
<1>1. e.direction # ""
  BY DEF Directions
<1>2. e.strength \in 0..100 /\ e.confidence \in Nat /\ e.sources \in Nat
  BY DEF EventType
<1>3. 0 <= e.confidence
  BY <1>2
<1> QED
  BY <1>1, <1>2, <1>3 DEF Validate

\* The event of the first article.
LEMMA FirstMerged ==
  ASSUME IInv, NEW a \in Articles, event.articles = {}
  PROVE  Merged(a) = [articles |-> {a}, sources |-> 1, direction |-> item[a].direction,
                      strength |-> item[a].strength, confidence |-> item[a].confidence]
<1>1. item[a].strength \in 0..100 /\ item[a].confidence \in 0..100
  BY ItemsTyped DEF IInv
<1>2. clamp(item[a].strength, 0, 100) = item[a].strength
  BY <1>1 DEF clamp
<1>3. clamp(item[a].confidence, 0, 100) = item[a].confidence
  BY <1>1 DEF clamp
<1> QED
  BY <1>2, <1>3 DEF Merged, NewEventFromExtraction

\* The event with one more article.
LEMMA NextMerged ==
  ASSUME IInv, NEW a \in Articles, event.articles # {}, a \notin event.articles
  PROVE  LET n == event.sources
             s == item[a].strength
             c == item[a].confidence
             e == Merged(a)
         IN /\ e \in EventType
            /\ n \in Nat \ {0}
            /\ e.articles = event.articles \cup {a}
            /\ e.sources = n + 1
            /\ e.direction \in Directions
            /\ event.strength <= e.strength \/ s <= e.strength
            /\ e.strength <= event.strength \/ e.strength <= s
            /\ 4 * ((n + 1) * e.strength - (totals.strength + s)) <= (n + 1) * (n + 2) - 2
            /\ -4 * ((n + 1) * e.strength - (totals.strength + s)) <= (n + 1) * (n + 2) - 2
            /\ e.confidence \in Nat /\ e.confidence <= 100 * (n + 1)
            /\ totals.confidence + c <= e.confidence
            /\ e.confidence <= totals.confidence + c + multiSourceBonus(n + 1) * (n + 1)
<1> DEFINE n == event.sources
           s == item[a].strength
           c == item[a].confidence
           e == Merged(a)
<1>1. s \in 0..100 /\ c \in 0..100 /\ item[a].direction \in Directions
  BY ItemsTyped DEF IInv
<1>2. /\ event \in EventType
      /\ event.direction \in Directions
      /\ event.confidence <= 100 * n
      /\ totals.strength \in Nat /\ totals.confidence \in Nat
  BY DEF IInv, TypeOK, EventOK, EventType
<1>3. /\ event.strength \in 0..100 /\ event.confidence \in Nat
      /\ event.articles \subseteq Articles
  BY <1>2 DEF EventType
<1>4. n \in Nat \ {0} /\ Cardinality(event.articles \cup {a}) = n + 1
  BY OneMoreSource
<1>5. e = [articles |-> event.articles \cup {a}, sources |-> n + 1,
           direction |-> majorityDirection(Votes(event, item[a])),
           strength |-> MergedStrength(event, item[a]),
           confidence |-> MergedConfidence(event, item[a])]
  BY <1>4 DEF Merged, MergeEvent
<1>6. majorityDirection(Votes(event, item[a])) \in Directions
  BY <1>1, <1>2, <1>4, VoteElects DEF Votes
<1> DEFINE q == Round(event.strength * n + s, n + 1)
<1>7. /\ MergedStrength(event, item[a]) = q
      /\ q \in 0..100
      /\ 2 * ((n + 1) * q) <= 2 * (event.strength * n + s) + (n + 1)
      /\ 2 * (event.strength * n + s) - (n + 1) <= 2 * ((n + 1) * q)
      /\ event.strength <= q \/ s <= q
      /\ q <= event.strength \/ q <= s
  BY <1>1, <1>3, <1>4, MeanInRange DEF MergedStrength
<1>8. /\ 4 * (n * event.strength - totals.strength) <= n * (n + 1) - 2
      /\ -4 * (n * event.strength - totals.strength) <= n * (n + 1) - 2
  BY <1>4 DEF IInv, RoundingDriftBounded, Count
<1> HIDE DEF q
<1>9. /\ 4 * ((n + 1) * q - (totals.strength + s)) <= (n + 1) * (n + 2) - 2
      /\ -4 * ((n + 1) * q - (totals.strength + s)) <= (n + 1) * (n + 2) - 2
  <2> HIDE DEF n, s
  <2>1. event.strength \in Nat /\ s \in Nat /\ q \in Nat
    BY <1>1, <1>3, <1>7
  <2> QED
    BY <1>2, <1>4, <1>7, <1>8, <2>1, DriftGrows
<1>10. totals.confidence <= event.confidence /\ event.confidence <= totals.confidence + multiSourceBonus(n) * n
  BY <1>4 DEF IInv, ConfidenceNearMean, Count
<1> DEFINE d == MergedConfidence(event, item[a])
<1>11. /\ d \in Nat /\ d <= 100 * (n + 1)
       /\ totals.confidence + c <= d
       /\ d <= totals.confidence + c + multiSourceBonus(n + 1) * (n + 1)
  BY <1>1, <1>2, <1>3, <1>4, <1>10, BonusOnce DEF MergedConfidence
<1> HIDE DEF d
<1>12. /\ e.articles = event.articles \cup {a} /\ e.sources = n + 1 /\ e.direction \in Directions
       /\ e.strength = q /\ e.confidence = d
  BY <1>5, <1>6, <1>7 DEF d
<1>13. e \in EventType
  <2> DEFINE ids == event.articles \cup {a}
             vote == majorityDirection(Votes(event, item[a]))
  <2>1. ids \in SUBSET Articles
    BY <1>3
  <2>2. e = [articles |-> ids, sources |-> n + 1, direction |-> vote, strength |-> q, confidence |-> d]
    BY <1>5, <1>7 DEF d
  <2>3. vote \in Directions \cup {""}
    BY <1>6
  <2>4. n + 1 \in Nat /\ q \in 0..100 /\ d \in Nat
    BY <1>4, <1>7, <1>11
  <2> HIDE DEF ids, vote, e, n
  <2> QED
    BY <2>1, <2>2, <2>3, <2>4 DEF EventType
<1> HIDE DEF e, n
<1> QED
  BY <1>4, <1>7, <1>9, <1>11, <1>12, <1>13 DEF e, n


-----------------------------------------------------------------------------
(* The theorems                                                            *)

LEMMA MergeInv ==
  ASSUME IInv, NEW a \in Articles, Merge(a)
  PROVE  IInv'
<1> DEFINE s == item[a].strength
           c == item[a].confidence
<1>1. event' = Merged(a) /\ item' = item
  BY DEF Merge
<1>2. s \in 0..100 /\ c \in 0..100 /\ item[a].direction \in Directions /\ item \in [Articles -> Items]
  BY ItemsTyped DEF IInv, TypeOK
<1>3. /\ totals \in [strength: Nat, confidence: Nat]
      /\ IsFiniteSet(event.articles)
  BY DEF IInv, TypeOK, EventOK
<1>4. CASE a \in event.articles
  <2>1. event' = event /\ totals' = totals /\ item' = item
    BY <1>1, <1>4 DEF Merge, Merged, MergeEvent
  <2> QED
    BY <2>1 DEF IInv, TypeOK, EventOK, StrengthWithinItems, RoundingDriftBounded, ConfidenceNearMean, Count
<1>5. CASE event.articles = {}
  <2>1. event' = [articles |-> {a}, sources |-> 1, direction |-> item[a].direction, strength |-> s, confidence |-> c]
    BY <1>1, <1>5, FirstMerged
  <2>2. totals' = [strength |-> s, confidence |-> c]
    <3>1. totals = [strength |-> 0, confidence |-> 0]
      BY <1>5 DEF IInv, EventOK
    <3>2. totals' = [strength |-> totals.strength + s, confidence |-> totals.confidence + c]
      BY <1>5 DEF Merge
    <3> QED
      BY <1>2, <3>1, <3>2
  <2> HIDE DEF s, c
  <2>3. TypeOK'
    <3>1. {a} \in SUBSET Articles /\ c \in Nat
      BY <1>2
    <3>2. event' \in EventType
      BY <1>2, <2>1, <3>1, EventTyped
    <3>3. totals' \in [strength: Nat, confidence: Nat]
      BY <1>2, <2>2
    <3> QED
      BY <1>1, <1>2, <3>2, <3>3 DEF TypeOK, EventType
  <2>4. EventOK'
    <3>1. IsFiniteSet({a}) /\ Cardinality({a}) = 1
      BY FS_Singleton
    <3>2. /\ event'.articles = {a} /\ event'.sources = 1
          /\ event'.direction = item[a].direction /\ event'.confidence = c
      BY <2>1
    <3> QED
      BY <1>2, <3>1, <3>2 DEF EventOK
  <2>5. StrengthWithinItems'
    BY <1>1, <1>2, <2>1 DEF StrengthWithinItems, s
  <2>6. RoundingDriftBounded' /\ ConfidenceNearMean'
    BY <1>2, <2>1, <2>2 DEF RoundingDriftBounded, ConfidenceNearMean, Count, multiSourceBonus
  <2> QED
    BY <2>3, <2>4, <2>5, <2>6 DEF IInv
<1>6. CASE event.articles # {} /\ a \notin event.articles
  <2> DEFINE n == event.sources
  <2>1. /\ event' \in EventType
        /\ n \in Nat \ {0}
        /\ event'.articles = event.articles \cup {a}
        /\ event'.sources = n + 1
        /\ event'.direction \in Directions
        /\ event.strength <= event'.strength \/ s <= event'.strength
        /\ event'.strength <= event.strength \/ event'.strength <= s
        /\ 4 * ((n + 1) * event'.strength - (totals.strength + s)) <= (n + 1) * (n + 2) - 2
        /\ -4 * ((n + 1) * event'.strength - (totals.strength + s)) <= (n + 1) * (n + 2) - 2
        /\ event'.confidence \in Nat /\ event'.confidence <= 100 * (n + 1)
        /\ totals.confidence + c <= event'.confidence
        /\ event'.confidence <= totals.confidence + c + multiSourceBonus(n + 1) * (n + 1)
    BY <1>1, <1>6, NextMerged
  <2>2. totals' = [strength |-> totals.strength + s, confidence |-> totals.confidence + c]
    BY <1>6 DEF Merge
  <2>3. totals'.strength = totals.strength + s /\ totals'.confidence = totals.confidence + c
    BY <2>2
  <2> HIDE DEF n
  <2>4. TypeOK'
    <3>1. totals' \in [strength: Nat, confidence: Nat]
      BY <1>2, <1>3, <2>2
    <3> QED
      BY <1>1, <1>2, <2>1, <3>1 DEF TypeOK, EventType
  <2>5. EventOK'
    <3>1. IsFiniteSet(event'.articles) /\ Cardinality(event'.articles) = n + 1
      BY <1>6, <2>1, OneMoreSource DEF n
    <3>2. event'.articles # {}
      BY <2>1
    <3> QED
      BY <2>1, <3>1, <3>2 DEF EventOK
  <2>6. StrengthWithinItems'
    <3>1. /\ \E b \in event.articles : item[b].strength <= event.strength
          /\ \E b \in event.articles : event.strength <= item[b].strength
      BY <1>6 DEF IInv, StrengthWithinItems
    <3>2. /\ event.strength \in Nat /\ event'.strength \in Nat
          /\ \A b \in event.articles : item[b].strength \in Nat
      <4>1. event \in EventType /\ event.articles \subseteq Articles
        BY DEF IInv, TypeOK, EventType
      <4>2. event.strength \in Nat /\ event'.strength \in Nat
        <5>1. event' \in EventType
          BY <2>1
        <5>2. event.strength \in 0..100
          BY <4>1 DEF EventType
        <5>3. event'.strength \in 0..100
          BY <5>1 DEF EventType
        <5> QED
          BY <5>2, <5>3
      <4>3. \A b \in event.articles : item[b].strength \in 0..100
        BY <4>1, ItemsTyped DEF IInv
      <4> QED
        BY <4>2, <4>3
    <3>3. \E b \in event'.articles : item[b].strength <= event'.strength
      BY <2>1, <3>1, <3>2
    <3>4. \E b \in event'.articles : event'.strength <= item[b].strength
      BY <2>1, <3>1, <3>2
    <3> QED
      BY <1>1, <3>3, <3>4 DEF StrengthWithinItems
  <2>7. RoundingDriftBounded'
    <3>1. event'.sources = n + 1 /\ n + 1 + 1 = n + 2
      BY <2>1
    <3> QED
      BY <2>1, <2>3, <3>1 DEF RoundingDriftBounded, Count
  <2>8. ConfidenceNearMean'
    BY <2>1, <2>3 DEF ConfidenceNearMean, Count
  <2> QED
    BY <2>4, <2>5, <2>6, <2>7, <2>8 DEF IInv
<1> QED
  BY <1>4, <1>5, <1>6

\* The invariant of an event and of what was folded into it.
THEOREM Inductive == Spec => []IInv
<1>1. IInv /\ [Next]_vars => IInv'
  <2>1. IInv /\ UNCHANGED vars => IInv'
    BY DEF vars, IInv, TypeOK, EventOK, StrengthWithinItems, RoundingDriftBounded, ConfidenceNearMean, Count
  <2> QED
    BY <2>1, MergeInv DEF Next
<1> QED
  BY <1>1, InitInv, PTL DEF Spec

\* The event, its rows and what was folded into it have their types.
THEOREM TypeCorrect == Spec => []TypeOK
BY Inductive, PTL DEF IInv

\* No event that a cycle would write for a next row is rejected.
THEOREM NothingPoisonous == Spec => []NoPoisonedRow
<1>1. IInv => NoPoisonedRow
  <2> SUFFICES ASSUME IInv, NEW a \in Articles PROVE Validate(Merged(a))
    BY DEF NoPoisonedRow
  <2>1. CASE event.articles = {}
    <3>1. /\ item[a].direction \in Directions /\ item[a].strength \in 0..100
          /\ item[a].confidence \in Nat /\ item[a].confidence <= 100
      BY ItemsTyped DEF IInv
    <3>2. {a} \in SUBSET Articles /\ Cardinality({a}) = 1
      BY FS_Singleton
    <3>3. Merged(a) = [articles |-> {a}, sources |-> 1, direction |-> item[a].direction,
                       strength |-> item[a].strength, confidence |-> item[a].confidence]
      BY <2>1, FirstMerged
    <3>4. Merged(a) \in EventType
      <4> DEFINE e == Merged(a)
                 d == item[a].direction
                 s == item[a].strength
                 c == item[a].confidence
      <4>1. e = [articles |-> {a}, sources |-> 1, direction |-> d, strength |-> s, confidence |-> c]
        BY <3>3
      <4>2. d \in Directions /\ s \in 0..100 /\ c \in Nat
        BY <3>1
      <4> HIDE DEF e, d, s, c
      <4>3. e \in EventType
        BY <3>2, <4>1, <4>2, EventTyped
      <4> QED
        BY <4>3 DEF e
    <3> QED
      BY <3>1, <3>2, <3>3, <3>4, EventValid
  <2>2. CASE a \in event.articles
    <3>1. Merged(a) = event
      BY <2>2 DEF Merged, MergeEvent
    <3>2. event \in EventType /\ event.direction \in Directions
      BY <2>2 DEF IInv, TypeOK, EventOK, EventType
    <3>3. event.sources = Cardinality(event.articles) /\ event.confidence <= 100 * event.sources
      BY DEF IInv, EventOK
    <3> QED
      BY <2>2, <3>1, <3>2, <3>3, EventValid
  <2>3. CASE event.articles # {} /\ a \notin event.articles
    <3> DEFINE e == Merged(a)
               n == event.sources
    <3>1. /\ e \in EventType /\ n \in Nat \ {0} /\ e.articles = event.articles \cup {a} /\ e.sources = n + 1
          /\ e.direction \in Directions /\ e.confidence <= 100 * (n + 1)
      BY <2>3, NextMerged
    <3>2. Cardinality(event.articles \cup {a}) = n + 1
      BY <2>3, OneMoreSource
    <3> HIDE DEF e
    <3>3. Validate(e)
      BY <3>1, <3>2, EventValid
    <3> QED
      BY <3>3 DEF e
  <2> QED
    BY <2>1, <2>2, <2>3
<1> QED
  BY <1>1, Inductive, PTL

\* The strength lies between the strengths of the articles.
THEOREM StrengthBounds == Spec => []StrengthWithinItems
BY Inductive, PTL DEF IInv

\* The roundings of the running mean never add up to more than the bound.
THEOREM DriftBounds == Spec => []RoundingDriftBounded
BY Inductive, PTL DEF IInv

\* The bonus is in the confidence once.
THEOREM ConfidenceBounds == Spec => []ConfidenceNearMean
BY Inductive, PTL DEF IInv
=============================================================================
