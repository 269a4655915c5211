----------------------------- MODULE HpaPlacement ------------------------------
(***************************************************************************)
(* How the placement controller judges the clusters an app may run on      *)
(* (hpa-plc/internal/action, hpa-plc/pkg/resources), and how the           *)
(* orchestrator prefers one of several.  Every app has one consumer in its *)
(* HPA intent, and a cluster is one node.                                  *)
(*                                                                         *)
(* The controller goes through the replicas of the app and, for each, its  *)
(* resources: such a round asks which clusters offer the resource, and     *)
(* books it on those that were left by the rounds before.                  *)
(***************************************************************************)
EXTENDS Naturals, Sequences, FiniteSets

CONSTANTS
    Apps, Clusters,
    Resources,    \* the resources an intent names, in its order
    Requests,     \* Requests[a][r]: what a replica of app a requests of r
    Limits,       \* Limits[a][r]: its limit
    Replicas,
    Capacity,     \* Capacity[x][r]: what cluster x has of r
    Preference    \* the clusters by the priority of their providers

ASSUME ResourceAssumption ==
    /\ Resources \in Seq({"cpu", "memory"}) /\ Resources # <<>>
    /\ \A i, j \in DOMAIN Resources : Resources[i] = Resources[j] => i = j
ASSUME AmountAssumption ==
    \A r \in {Resources[i] : i \in DOMAIN Resources} :
        /\ \A a \in Apps : Requests[a][r] \in Nat /\ Limits[a][r] \in Nat
        /\ \A x \in Clusters : Capacity[x][r] \in Nat
ASSUME ReplicaAssumption == Replicas \in [Apps -> Nat \ {0}]
ASSUME PreferenceAssumption ==
    /\ Preference \in Seq(Clusters)
    /\ \A x \in Clusters : \E i \in DOMAIN Preference : Preference[i] = x

Names == {Resources[i] : i \in DOMAIN Resources}

Least(S) == CHOOSE i \in S : \A j \in S : i <= j

First(S) == Preference[Least({i \in DOMAIN Preference : Preference[i] \in S})]

\* What remains of clusters when only the preferred one is kept.
Preferred(S) == IF S = {} THEN {} ELSE {First(S)}

\* Running app a takes this of resource r.
Needs(a, r) == Requests[a][r] * Replicas[a]

Fits(a, room) == \A r \in Names : room[r] >= Needs(a, r)

Rounds(a) ==
    [i \in 1 .. Replicas[a] * Len(Resources) |->
        [resource |-> Resources[1 + ((i - 1) % Len(Resources))],
         replica  |-> 1 + ((i - 1) \div Len(Resources))]]

\* The replicas a round finds booked on a cluster, and its own.  Memory is compared
\* in bytes but booked in megabytes, which does not show.
Booked(r, replica) == IF r = "memory" THEN 1 ELSE replica

\* The clusters of S that offer what the first round of app a asks for.
OffersFirst(a, S, free) ==
    {x \in S : free[x][Resources[1]] >= Requests[a][Resources[1]]}

\* Those that offer what round i asks for: only those of the first round have
\* replicas booked.
Offers(a, i, S, free) ==
    LET r == Rounds(a)[i].resource
        booked(x) == IF x \in OffersFirst(a, S, free) THEN Booked(r, Rounds(a)[i].replica) ELSE 1
    IN  {x \in S : free[x][r] >= Requests[a][r] * booked(x)}

\* The rounds that find none of the clusters of the first round.
Failing(a, S, free) ==
    {i \in DOMAIN Rounds(a) : Offers(a, i, S, free) \cap OffersFirst(a, S, free) = {}}

Succeeds(a, S, free) == Failing(a, S, free) = {}

\* The clusters that remain: those of the first round, as a cluster that a later
\* round does not find is not taken out; the preferred one if a round finds no
\* cluster at all; all if it finds others.
Remaining(a, S, free) ==
    IF Succeeds(a, S, free) THEN OffersFirst(a, S, free)
    ELSE IF Offers(a, Least(Failing(a, S, free)), S, free) = {} THEN Preferred(S)
    ELSE S

================================================================================
