\* Five articles, extreme and neighbouring values, folded in any order.
SPECIFICATION Spec
CONSTANTS
  Articles = {a1, a2, a3, a4, a5}
  Items <- Extremes
SYMMETRY Interchangeable
INVARIANTS
  NoPoisonedRow
  StrengthWithinItems
  RoundingDriftBounded
  ConfidenceNearMean
