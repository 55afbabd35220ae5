-------------------------- MODULE MCKHashLfuCache --------------------------
(* Three keys compete for the two places of slice 0, one key has slice 1.   *)
EXTENDS KHashLfuCache

CONSTANTS k1, k2, k3, k4

MCHash == [k \in Keys |-> CASE k = k1 -> 0 [] k = k2 -> 2 [] k = k3 -> 4 [] k = k4 -> 1]
=============================================================================
