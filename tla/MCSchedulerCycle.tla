-------------------------- MODULE MCSchedulerCycle --------------------------
(* Small instances of SchedulerCycle for TLC.                              *)
EXTENDS SchedulerCycle

CONSTANTS a1, a2, a3

MCArticles == {a1, a2, a3}

\* a3 cannot be converted.  It is not listed at first: when it is, it comes
\* first and shifts the others, one of which is then collected twice or shares
\* its batch.
MCConvertible == {a1, a2}

MCListing == <<a1, a2>>
=============================================================================
