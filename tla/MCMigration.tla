------------------------------ MODULE MCMigration ------------------------------
(***************************************************************************)
(* Migration for TLC: four DIGs, the first of two apps, two clusters of    *)
(* which the first is preferred, and the only one for the apps f and g.    *)
(***************************************************************************)
EXTENDS Migration, TLC

CONSTANTS x, y, a1, a2, b, f, g, d1, d2, d3, d4, k1

MCAppsOf == [d \in Digs |-> CASE d = d1 -> <<a1, a2>> [] d = d2 -> <<b>> [] d = d3 -> <<f>> [] d = d4 -> <<g>>]
MCDigOrder == <<d1, d2, d3, d4>>
MCCompositeOf == [d \in Digs |-> d]
MCCandidates == [a \in Apps |-> IF a \in {f, g} THEN {x} ELSE {x, y}]
MCPriority == [a \in Apps |-> IF a = a1 THEN 1 ELSE 2]
MCReplicas == [a \in Apps |-> IF a = g THEN 3 ELSE 1]
MCRequests ==
    [a \in Apps |-> [r \in Names |->
        IF r = "memory" THEN (IF a = f THEN 2 ELSE 1) ELSE (IF a \in {a1, g} THEN 1 ELSE 2)]]
MCCapacity ==
    [c \in Clusters |-> [r \in Names |-> IF r = "memory" THEN 9 ELSE IF c = x THEN 5 ELSE 3]]
MCPreference == <<x, y>>
MCResources == <<"cpu", "memory">>
================================================================================
