---------------------------- MODULE MCBatchPool ----------------------------
(* Small instances of BatchPool for TLC: an HTTP batch and a scheduler      *)
(* batch that overlap on one article.                                       *)
EXTENDS BatchPool, TLC

CONSTANTS a1, a2, http, cron

MCArticles == {a1, a2}

MCBatches == {http, cron}

\* The request has two workers, the scheduler one.
TwoAndOne == (http :> 2) @@ (cron :> 1)

\* A request that lists a1 twice races a scheduler batch on a1; with
\* StopAfter = 2 its last article is not processed.
Overlapping == (http :> <<a1, a1, a2>>) @@ (cron :> <<a1>>)
=============================================================================
