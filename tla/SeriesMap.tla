------------------------------ MODULE SeriesMap ------------------------------
(***************************************************************************)
(* What internal/series promises its callers: a map from label keys to     *)
(* ids that only grows while the process lives, and numbers the keys in    *)
(* the order of their registration.  SeriesIndex implements it.            *)
(***************************************************************************)
EXTENDS Integers

CONSTANT Key    \* label keys

VARIABLES
    ids,    \* key -> id, for the registered keys
    next    \* the next id

mapVars == <<ids, next>>

NoSeries == [k \in {} |-> 0]

MapInit == ids = NoSeries /\ next = 1

Assign(key) ==
    /\ key \notin DOMAIN ids
    /\ ids' = [k \in DOMAIN ids \cup {key} |-> IF k = key THEN next ELSE ids[k]]
    /\ next' = next + 1

\* A new process starts from an empty index.
Forget == ids' = NoSeries /\ next' = 1

MapNext == (\E key \in Key : Assign(key)) \/ Forget

MapSpec == MapInit /\ [][MapNext]_mapVars
=============================================================================
