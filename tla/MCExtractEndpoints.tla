------------------------- MODULE MCExtractEndpoints -------------------------
(* Small instances of ExtractEndpoints for TLC.                            *)
EXTENDS ExtractEndpoints
=============================================================================
