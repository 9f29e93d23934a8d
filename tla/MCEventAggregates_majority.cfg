\* Four articles, three of which agree.
SPECIFICATION Spec
CONSTANTS
  Articles = {a1, a2, a3, a4}
  Items <- DirectionsOnly
INVARIANTS
  DirectionIsMajority
