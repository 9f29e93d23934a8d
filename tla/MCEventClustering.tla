------------------------- MODULE MCEventClustering -------------------------
(* Small instances of EventClustering for TLC.                             *)
EXTENDS EventClustering, TLC

\* Articles 1 and 2 belong to one cluster, article 3 to another.
TwoClusters == (1 :> "k1") @@ (2 :> "k1") @@ (3 :> "k2")
=============================================================================
