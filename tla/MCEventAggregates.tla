------------------------- MODULE MCEventAggregates -------------------------
(* Small instances of EventAggregates for TLC.                             *)
EXTENDS EventAggregates, TLC

Extraction(d, s, c) == [direction |-> d, strength |-> s, confidence |-> c]

\* Extreme and neighbouring strengths and confidences, and every direction.
Extremes ==
  {Extraction("positive", s, c) : s \in {0, 1, 100}, c \in {0, 97, 100}}
  \cup {Extraction(d, 50, 50) : d \in Directions}

\* Extractions that differ in their direction only.
DirectionsOnly == {Extraction(d, 50, 50) : d \in Directions}

\* Articles are interchangeable: their ids only sort the stored list.
Interchangeable == Permutations(Articles)
=============================================================================
