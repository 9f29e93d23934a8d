\* Batches of up to four ids, repeated, unknown, not convertible or invalid.
SPECIFICATION Spec
CONSTANTS
  Articles = {a1, a2, unlisted, broken}
  Invalid = Invalid
  Listed = {a1, a2, broken}
  Convertible = {a1, a2, unlisted}
  MaxIds = 4
INVARIANTS
  EachItemItsOwnResult
  CountersAgreeWithItems
\* One request, which is answered.
CHECK_DEADLOCK FALSE
