---------------------- MODULE MCExtractionLifecycle ----------------------
(* Small instances of ExtractionLifecycle for TLC.                         *)
EXTENDS ExtractionLifecycle, TLC

\* Articles and calls are interchangeable: nothing orders or names them.
Interchangeable == Permutations(Articles) \cup Permutations(Calls)
=============================================================================
